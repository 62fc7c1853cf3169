-------------------------------- MODULE Games ---------------------------------
(*****************************************************************************)
(* The two games of the programs directory.                                  *)
(*****************************************************************************)
EXTENDS Integers, Sequences, FiniteSets, FiniteSetsExt

-------------------------------------------------------------------------------
(***************************************************************************)
(* The minesweeper program (programs/winemine/main.c): the board, what the  *)
(* messages of the mouse, the timer and the menu do to it, and what is on   *)
(* the screen.  A box is <<col, row>>; the boxes around the board are there *)
(* and stay empty.  held and at are the buttons and the pointer of the      *)
(* mouse, which messages report in wParam and lParam.                       *)
(***************************************************************************)
CONSTANTS Levels,       \* difficulty -> <<cols, rows, mines>>; Levels[1] is BEGINNER's
          MaxCols, MaxRows,
          BestTimes,    \* the best times LoadBoard begins with
          MaxTime,      \* bound: ticks of the timer
          RandTop       \* whether rand() ever returns RAND_MAX

MinesAssumption ==
  /\ \A d \in DOMAIN Levels : \A i \in 1..3 : Levels[d][i] \in Nat \ {0}
  /\ RandTop \in BOOLEAN /\ MaxTime \in Nat

VARIABLES board,        \* p_board
          screen,       \* what was drawn: [box, counter, timer]
          mouse         \* [held, at]; history: what was pressed since the screen was right

mvars == <<board, screen, mouse>>

Custom == 0             \* the difficulty with no level of its own
Nowhere == <<0, 0>>
Face == <<-1, 0>>      \* the pointer on the face, or on nothing that listens
Outside == <<-1, -1>>
Boxes(b) == (1..b.cols) \X (1..b.rows)
Bordered(b) == (0..(b.cols + 1)) \X (0..(b.rows + 1))
Around(c) == {<<c[1] + i, c[2] + j>> : i, j \in -1..1}

----------------------------------------------------------------------------
(* Drawing.                                                                 *)

\* DrawMine: the bitmap of a box.
DrawMine(b, c, pressed) ==
  LET x == b.box[c]
      over == b.status = "GAMEOVER"
  IN IF x.flag = "COMPLETE" /\ ~x.mine THEN <<"NUM", x.num>>
     ELSE IF over /\ x.mine
       THEN <<CASE x.flag = "FLAG" -> "FLAG" [] x.flag = "COMPLETE" -> "EXPLODE" [] OTHER -> "MINE", 0>>
     ELSE IF over THEN <<CASE x.flag = "FLAG" -> "WRONG" [] x.flag = "QUESTION" -> "QUESTION" [] OTHER -> "BOX", 0>>
     ELSE <<CASE x.flag = "FLAG" -> "FLAG"
              [] x.flag = "QUESTION" -> IF pressed THEN "QPRESS" ELSE "QUESTION"
              [] x.flag = "NORMAL" -> IF pressed THEN "MPRESS" ELSE "BOX"
              [] OTHER -> "BOX", 0>>

\* DrawLeds: three digits, 10 for the sign; anything from 1000 on is three signs.
DrawLeds(number) ==
  LET count == IF number < 0 THEN -number ELSE number % 100
  IN IF number >= 1000 THEN <<10, 10, 10>>
     ELSE <<IF number < 0 THEN 10 ELSE number \div 100, count \div 10, count % 10>>

\* DrawBoard of the whole window, of the timer, and PressBox or UnpressBox of some
\* boxes, of which those outside the board draw nothing.
DrawBoard(b) ==
  [box |-> [c \in Boxes(b) |-> DrawMine(b, c, FALSE)], counter |-> DrawLeds(b.mines - b.num_flags), timer |-> DrawLeds(b.time)]
DrawBoxes(s, b, boxes, pressed) ==
  [s EXCEPT !.box = [c \in DOMAIN s.box |-> IF c \in boxes THEN DrawMine(b, c, pressed) ELSE s.box[c]]]

----------------------------------------------------------------------------
(* The board.                                                               *)

\* CreateBoard, without the layout of the window.
CreateBoard(b) ==
  [b EXCEPT !.boxes_left = b.cols * b.rows - b.mines, !.num_flags = 0, !.status = "WAITING", !.time = 0,
            !.box = [c \in Bordered(b) |-> [mine |-> FALSE, flag |-> "NORMAL", num |-> 0]]]

CheckLevel(b) ==
  LET within(n, low, high) == IF n < low THEN low ELSE IF n > high THEN high ELSE n
      rows == within(b.rows, Levels[1][2], MaxRows)
      cols == within(b.cols, Levels[1][1], MaxCols)
  IN [b EXCEPT !.rows = rows, !.cols = cols, !.mines = within(b.mines, Levels[1][3], cols * rows - 2)]

\* LoadBoard, InitBoard and WM_CREATE.
LoadBoard ==
  [cols |-> Levels[1][1], rows |-> Levels[1][2], mines |-> Levels[1][3], difficulty |-> 1, IsMarkQ |-> TRUE,
   best_time |-> BestTimes, press |-> Nowhere, box |-> <<>>, boxes_left |-> 0, num_flags |-> 0, status |-> "WAITING",
   time |-> 0]

MInit ==
  /\ board = CreateBoard(CheckLevel(LoadBoard))
  /\ screen = DrawBoard(board)
  /\ mouse = [held |-> {}, at |-> Outside, pressed |-> {}]

\* PlaceMines: the boards it may make.  A column or row of rand() = RAND_MAX is the
\* one behind the last.
Placed(b, selected) ==
  LET top == IF RandTop THEN 1 ELSE 0
  IN kSubset(b.mines, ((1..(b.cols + top)) \X (1..(b.rows + top))) \ {selected})
PlaceMines(b, selected) ==
  {[b EXCEPT !.status = "PLAYING",
             !.box = [c \in DOMAIN b.box |->
                        [mine |-> c \in mines, flag |-> b.box[c].flag,
                         num |-> IF c \in Boxes(b) THEN Cardinality(Around(c) \cap mines) ELSE 0]]] :
     mines \in Placed(b, selected)}

\* CompleteBox: the boxes that opening one opens (a box with no mine around opens
\* the boxes around it), and what that makes of the game.
Spread_flags(b, c) ==
  LET Closed(x) == x \in Boxes(b) /\ b.box[x].flag # "COMPLETE"
      Grow[n \in 0..Cardinality(Boxes(b))] ==
        IF n = 0 THEN {x \in {c} : Closed(x)}
        ELSE Grow[n - 1] \cup {x \in UNION {Around(y) : y \in {z \in Grow[n - 1] : b.box[z].num = 0}} : Closed(x)}
  IN Grow[Cardinality(Boxes(b))]
Spread(b, c) ==
  LET Closed(x) == x \in Boxes(b) /\ b.box[x].flag \notin {"COMPLETE", "FLAG"}
      Grow[n \in 0..Cardinality(Boxes(b))] ==
        IF n = 0 THEN {x \in {c} : Closed(x)}
        ELSE Grow[n - 1] \cup {x \in UNION {Around(y) : y \in {z \in Grow[n - 1] : b.box[z].num = 0}} : Closed(x)}
  IN Grow[Cardinality(Boxes(b))]
CompleteBox(b, c) ==
  LET opened == Spread(b, c)
      lost == \E x \in opened : b.box[x].mine
  IN [b EXCEPT !.box = [x \in DOMAIN b.box |-> [b.box[x] EXCEPT !.flag = IF x \in opened THEN "COMPLETE" ELSE @]],
               !.status = IF lost THEN "GAMEOVER" ELSE @,
               !.boxes_left = IF lost \/ b.status = "GAMEOVER" THEN @ ELSE @ - Cardinality(opened)]

\* CompleteBoxes: open the boxes around one, when as many flags are there as mines.
CompleteBoxes(b, c) ==
  LET flags == Cardinality({x \in Around(c) : b.box[x].flag = "FLAG"})
  IN IF b.box[c].flag = "COMPLETE" /\ flags = b.box[c].num
     THEN FoldSet(LAMBDA x, a : CompleteBox(a, x), b, Around(c))
     ELSE b

AddFlag(b, c) ==
  LET flag == b.box[c].flag
      become(f, n) == [b EXCEPT !.box[c].flag = f, !.num_flags = @ + n]
  IN CASE flag = "COMPLETE" -> b
       [] flag = "FLAG" -> become(IF b.IsMarkQ THEN "QUESTION" ELSE "NORMAL", -1)
       [] flag = "QUESTION" -> become("NORMAL", 0)
       [] flag = "NORMAL" -> become("FLAG", 1)

----------------------------------------------------------------------------
(* The mouse.  A message makes of a board and screen one of several.        *)

\* PressBoxes: show the boxes around c pressed, and no longer those around press.
PressBoxes_kept(b, s, c) == <<[b EXCEPT !.press = c], DrawBoxes(s, b, Around(c), TRUE)>>
PressBoxes(b, s, c) ==
  <<[b EXCEPT !.press = c],
    DrawBoxes(DrawBoxes(s, b, Around(b.press) \ Around(c), FALSE), b, Around(c), TRUE)>>

TestMines(b, s, c, msg) ==
  LET away == [b EXCEPT !.press = Nowhere]
      redrawn(boards) == {<<x, DrawBoard(x)>> : x \in boards}
  IN CASE msg = "LBUTTONDOWN" ->
            {IF b.press = c THEN <<b, s>>
             ELSE <<[b EXCEPT !.press = c], DrawBoxes(DrawBoxes(s, b, {b.press}, FALSE), b, {c}, TRUE)>>}
       [] msg = "LBUTTONUP" ->
            redrawn({CompleteBox(x, c) : x \in IF b.box[c].flag # "FLAG" /\ b.status # "PLAYING"
                                               THEN PlaceMines(away, c) ELSE {away}})
       [] msg = "MBUTTONDOWN" -> {PressBoxes(b, s, c)}
       [] msg = "MBUTTONUP" -> redrawn({CompleteBoxes(away, c)})
       [] msg = "RBUTTONDOWN" -> redrawn({AddFlag(b, c)})
       [] msg = "RBUTTONUP" -> redrawn({b})

\* The end of TestBoard: the game is won when no box is left.
Win(b, s) ==
  LET flagged == [x \in DOMAIN b.box |->
                    IF x \in Boxes(b) /\ b.box[x].mine THEN [b.box[x] EXCEPT !.flag = "FLAG"] ELSE b.box[x]]
      few == b.num_flags < b.mines
      won == [b EXCEPT !.status = "WON", !.box = IF few THEN flagged ELSE @, !.num_flags = IF few THEN b.mines ELSE @,
                       !.best_time = [d \in DOMAIN @ |-> IF d = b.difficulty /\ b.time < @[d] THEN b.time ELSE @[d]]]
  IN IF b.boxes_left # 0 THEN <<b, s>> ELSE <<won, IF few THEN DrawBoard(won) ELSE s>>

\* TestFace: releasing the button on the face begins a new game.
TestFace(b, s, pt, msg) ==
  IF pt = Face /\ msg = "LBUTTONUP" THEN <<CreateBoard(b), DrawBoard(CreateBoard(b))>> ELSE <<b, s>>

TestBoard(b, s, pt, msg) ==
  LET tested == IF pt \in Boxes(b) /\ b.status \notin {"GAMEOVER", "WON"} THEN TestMines(b, s, pt, msg)
                ELSE {<<[b EXCEPT !.press = Nowhere], DrawBoxes(s, b, Around(b.press), FALSE)>>}
      after(x) == LET w == Win(x[1], x[2]) IN TestFace(w[1], w[2], pt, msg)
  IN {after(x) : x \in tested}

\* TestBoard with the mouse as m: LBUTTONDOWN presses a box, MBUTTONDOWN a block.
Tested(b, m, msg) ==
  \E x \in TestBoard(b, screen, m.at, msg) :
    /\ board' = x[1] /\ screen' = x[2]
    /\ mouse' = [m EXCEPT !.pressed = IF x[2] = DrawBoard(x[1]) THEN {}
                                      ELSE @ \cup ({msg} \cap {"LBUTTONDOWN", "MBUTTONDOWN"})]
Points == Boxes(board) \cup {Face, Outside}
Down(button) == [mouse EXCEPT !.held = @ \cup {button}]
Up(button) == [mouse EXCEPT !.held = @ \ {button}]

LBUTTONDOWN ==
  /\ "l" \notin mouse.held
  /\ Tested(board, Down("l"), IF "r" \in mouse.held THEN "MBUTTONDOWN" ELSE "LBUTTONDOWN")

LBUTTONUP ==
  /\ "l" \in mouse.held
  /\ Tested(board, Up("l"), IF "r" \in mouse.held THEN "MBUTTONUP" ELSE "LBUTTONUP")

RBUTTONDOWN ==
  /\ "r" \notin mouse.held
  /\ IF "l" \in mouse.held THEN Tested([board EXCEPT !.press = Nowhere], Down("r"), "MBUTTONDOWN")
     ELSE Tested(board, Down("r"), "RBUTTONDOWN")

RBUTTONUP ==
  /\ "r" \in mouse.held
  /\ Tested(board, Up("r"), IF "l" \in mouse.held THEN "MBUTTONUP" ELSE "RBUTTONUP")

MBUTTONDOWN ==
  /\ "m" \notin mouse.held
  /\ Tested(board, Down("m"), "MBUTTONDOWN")

MBUTTONUP ==
  /\ "m" \in mouse.held
  /\ Tested(board, Up("m"), "MBUTTONUP")

MOUSEMOVE ==
  \E pt \in Points \ {mouse.at} :
    LET m == [mouse EXCEPT !.at = pt]
    IN IF mouse.held \cap {"l", "m"} = {} THEN mouse' = m /\ UNCHANGED <<board, screen>>
       ELSE Tested(board, m, IF "m" \in mouse.held THEN "MBUTTONDOWN" ELSE "LBUTTONDOWN")

----------------------------------------------------------------------------
(* The timer and the menu.                                                  *)

TIMER ==
  /\ board.status = "PLAYING" /\ board.time < MaxTime
  /\ board' = [board EXCEPT !.time = @ + 1]
  /\ screen' = [screen EXCEPT !.timer = DrawLeds(board'.time)]
  /\ UNCHANGED mouse

NewGame(b) ==
  board' = CreateBoard(b) /\ screen' = DrawBoard(board') /\ mouse' = [mouse EXCEPT !.pressed = {}]

SetDifficulty(b, d) ==
  IF d = Custom THEN [b EXCEPT !.difficulty = d]
  ELSE [b EXCEPT !.difficulty = d, !.cols = Levels[d][1], !.rows = Levels[d][2], !.mines = Levels[d][3]]

\* WM_COMMAND.  (A box that is no longer there is not under the pointer.)
COMMAND ==
  \/ NewGame(board)
  \/ /\ board' = [board EXCEPT !.IsMarkQ = ~@]
     /\ UNCHANGED <<screen, mouse>>
  \/ \E d \in DOMAIN Levels \cup {Custom} :
       /\ board' = CreateBoard(SetDifficulty(board, d)) /\ screen' = DrawBoard(board')
       /\ mouse' = [mouse EXCEPT !.at = IF @ \in Boxes(board') \cup {Face} THEN @ ELSE Outside, !.pressed = {}]

MNext ==
  \/ LBUTTONDOWN \/ LBUTTONUP \/ RBUTTONDOWN \/ RBUTTONUP \/ MBUTTONDOWN \/ MBUTTONUP
  \/ MOUSEMOVE \/ TIMER \/ COMMAND
MSpec == MInit /\ [][MNext]_mvars

----------------------------------------------------------------------------
(* Properties.                                                              *)

Flagged(f) == {c \in Boxes(board) : board.box[c].flag = f}
MinesOf == {c \in Boxes(board) : board.box[c].mine}

\* The counters of the game are those of the boxes however it was played: num_flags
\* counts the flags; while the game goes on, boxes_left counts the boxes without a
\* mine that are still closed; the game is lost exactly when a mine was opened, and
\* won exactly when every other box is open and every mine has its flag or is left
\* alone (PlaceMines, CompleteBox, CompleteBoxes, AddFlag and TestBoard).
GameIsCounted ==
  /\ board.num_flags = Cardinality(Flagged("FLAG"))
  /\ board.status = "PLAYING" => board.boxes_left = Cardinality(Boxes(board) \ (MinesOf \cup Flagged("COMPLETE")))
  /\ (board.status = "GAMEOVER") <=> (MinesOf \cap Flagged("COMPLETE") # {})
  /\ board.status = "WON" => Flagged("COMPLETE") = Boxes(board) \ MinesOf /\ Flagged("FLAG") = MinesOf

\* The digits on the screen are always the flags left and the time, and every box
\* is shown as it is or as it looks when pressed.  With no button down none is
\* shown pressed, unless since the screen was right both a single box and a block
\* of nine were pressed, with two buttons held (PressBoxes, TestBoard's
\* UnpressBoxes and the RedrawWindow calls).
ScreenIsBoard ==
  /\ screen.counter = DrawBoard(board).counter /\ screen.timer = DrawBoard(board).timer
  /\ \A c \in Boxes(board) : screen.box[c] \in {DrawMine(board, c, pressed) : pressed \in BOOLEAN}
  /\ mouse.held = {} /\ Cardinality(mouse.pressed) < 2 => screen = DrawBoard(board)

\* The same without the exception: with no button held the screen shows the board,
\* whatever was pressed before (WM_LBUTTONUP, WM_RBUTTONUP).
ReleasedScreenIsBoard == mouse.held = {} => screen = DrawBoard(board)

\* "Randomly places mines everywhere except the selected box": the board of a game
\* has the mines of its level (PlaceMines).
AllMinesOnBoard == board.status = "PLAYING" => Cardinality(MinesOf) = board.mines

-------------------------------------------------------------------------------
(***************************************************************************)
(* The falling blocks of programs/minitris/minitris.c: the board, the piece *)
(* that falls, and the two main loops, the one of window messages and the   *)
(* one that polls the keys.  Of a place's colour only matters whether it is *)
(* BLACK.                                                                   *)
(***************************************************************************)
CONSTANTS Width, Height,  \* board_width, board_height
          Pieces,         \* type -> [x, y, bits]: size and bitmap, most significant bit first
          TimerEvery      \* rounds of the polling loop between two timers

MinitrisAssumption ==
  /\ Width \in Nat /\ Width >= 4 /\ Height \in Nat /\ Height >= 4
  /\ \A t \in DOMAIN Pieces : Len(Pieces[t].bits) = Pieces[t].x * Pieces[t].y

VARIABLES pit,        \* board: the places that are not BLACK
          piece,      \* piece_type, piece_orientation, piece_x, piece_y
          next_piece_type, game_over,
          polled,     \* which of the loops runs (is_polled)
          round_count       \* of polled_winmain

pitvars == <<pit, piece, next_piece_type, game_over, polled, round_count>>

PieceTypes == DOMAIN Pieces
Columns == 0..(Width - 1)
Rows == 0..(Height - 1)
Places == Columns \X Rows

----------------------------------------------------------------------------
(* Pieces and the board.                                                    *)

\* piece_has_block: whether the piece, turned by the orientation and centred in an
\* area of five by five, covers the place <<x, y>> of the area.
piece_has_block(type, orientation, x, y) ==
  LET sx == Pieces[type].x
      sy == Pieces[type].y
      odd == orientation % 2 = 1
      px == x - (2 - ((IF odd THEN sy ELSE sx) \div 2))
      py == y - (2 - ((IF odd THEN sx ELSE sy) \div 2))
      tx == IF odd THEN (sx - py) - 1 ELSE px
      ty == IF odd THEN px ELSE py
      nx == IF orientation >= 2 THEN (sx - 1) - tx ELSE tx
      ny == IF orientation >= 2 THEN (sy - 1) - ty ELSE ty
  IN px >= 0 /\ py >= 0 /\ nx \in 0..(sx - 1) /\ ny \in 0..(sy - 1) /\ Pieces[type].bits[(nx + sx * ny) + 1] = 1

Shape == [t \in PieceTypes, o \in 0..3 |-> {p \in (0..4) \X (0..4) : piece_has_block(t, o, p[1], p[2])}]
CoveredBy(p) == {<<p.x + c[1], p.y + c[2]>> : c \in Shape[p.type, p.orientation]}

\* block_at_cursor: what is outside the board is not drawn.
Erased(b, p) == b \ CoveredBy(p)
block_at_cursor(b, p) == b \cup (CoveredBy(p) \cap Places)

block_fits_at_edges(b, p) == CoveredBy(p) \cap b = {}
block_fits_at(b, p) == CoveredBy(p) \subseteq Places \ b

\* move_down, move_left, move_right, do_rotate: take the piece off, and put it to
\* the new place if it fits there.
Moved(g, p) ==
  LET off == Erased(g.pit, g.piece)
      q == IF block_fits_at(off, p) THEN p ELSE g.piece
  IN [g EXCEPT !.pit = block_at_cursor(off, q), !.piece = q]

move_down(g) == Moved(g, [g.piece EXCEPT !.y = @ + 1])
move_left(g) == Moved(g, [g.piece EXCEPT !.x = @ - 1])
move_right(g) == Moved(g, [g.piece EXCEPT !.x = @ + 1])
do_rotate(g) == Moved(g, [g.piece EXCEPT !.orientation = (@ + 1) % 4])
\* drop_down: move_down until it fails.
drop_down(g) ==
  LET off == Erased(g.pit, g.piece)
      Lower(n) == [g.piece EXCEPT !.y = @ + n]
      n == CHOOSE k \in 0..Height : ~block_fits_at(off, Lower(k + 1)) /\ \A i \in 1..k : block_fits_at(off, Lower(i))
  IN Moved(g, Lower(n))

row_full(b, row) == Columns \X {row} \subseteq b
move_row(b, to, from) ==
  {c \in b : c[2] # to} \cup ({<<c[1], to>> : c \in {d \in b : d[2] = from}} \cap Places)

\* erase_rows: row is the row looked at, collapsed the rows that went so far.
erase_rows_step_once(b, row, collapsed) ==
  LET full == row_full(b, row)
      r == row - 1
      n == IF full THEN collapsed + 1 ELSE collapsed
  IN <<move_row(b, r, r - n), r, n>>
erase_rows_step(b, row, collapsed) ==
  LET full == row_full(b, row)
      r == IF full THEN row ELSE row - 1
      n == IF full THEN collapsed + 1 ELSE collapsed
  IN <<IF n = 0 THEN b ELSE move_row(b, r, r - n), r, n>>
erase_rows(g) ==
  LET Erase[n \in 0..(2 * Height)] ==
        IF n = 0 THEN <<g.pit, Height - 1, 0>>
        ELSE LET e == Erase[n - 1] IN IF e[2] >= e[3] THEN erase_rows_step(e[1], e[2], e[3]) ELSE e
  IN [g EXCEPT !.pit = Erase[2 * Height][1]]

\* new_block: the next piece enters, or the game is over.
new_block(g, random) ==
  LET p == [type |-> g.next, orientation |-> 0, x |-> (Width \div 2) - 2, y |-> 0]
  IN IF block_fits_at(g.pit, p)
     THEN [pit |-> block_at_cursor(g.pit, p), piece |-> p, next |-> random, over |-> g.over]
     ELSE [g EXCEPT !.over = TRUE]

do_space(g, random) == new_block(erase_rows(drop_down(g)), random)
do_timer(g, random) ==
  IF g.over THEN g
  ELSE IF move_down(g).piece # g.piece THEN move_down(g) ELSE new_block(erase_rows(g), random)

----------------------------------------------------------------------------
(* The loops.                                                               *)

Game == [pit |-> pit, piece |-> piece, next |-> next_piece_type, over |-> game_over]
Becomes(g) == pit' = g.pit /\ piece' = g.piece /\ next_piece_type' = g.next /\ game_over' = g.over

PitInit ==
  \E random \in PieceTypes :
    LET g == new_block([pit |-> {}, piece |-> [type |-> 0, orientation |-> 0, x |-> 0, y |-> 0], next |-> 0,
                        over |-> FALSE], random)
    IN /\ pit = g.pit /\ piece = g.piece /\ next_piece_type = g.next /\ game_over = FALSE
       /\ polled \in BOOLEAN /\ round_count = 0

\* window_winmain: WM_KEYDOWN and WM_TIMER.  (Escape ends the program.)
do_keydown ==
  /\ ~polled /\ ~game_over
  /\ \/ Becomes(move_down(Game))
     \/ Becomes(do_rotate(Game))
     \/ Becomes(move_left(Game))
     \/ Becomes(move_right(Game))
     \/ \E random \in PieceTypes : Becomes(do_space(Game, random))
  /\ UNCHANGED <<polled, round_count>>

window_timer ==
  /\ ~polled
  /\ \E random \in PieceTypes : Becomes(do_timer(Game, random))
  /\ UNCHANGED <<polled, round_count>>

\* polled_winmain: a round of the loop with the keys newly pressed in it.
polled_round ==
  /\ polled
  /\ \E keys \in SUBSET {"up", "down", "left", "right", "space"}, r1, r2 \in PieceTypes :
       LET press(key, then, g) == {IF key \in keys THEN then ELSE g}
       IN \E a \in press("up", do_rotate(Game), Game) : \E b \in press("down", move_down(a), a) :
          \E c \in press("left", move_left(b), b) : \E d \in press("right", move_right(c), c) :
          \E e \in press("space", do_space(d, r1), d) :
            /\ Becomes(IF round_count = TimerEvery THEN do_timer(e, r2) ELSE e)
            /\ round_count' = IF round_count = TimerEvery THEN 0 ELSE round_count + 1
  /\ UNCHANGED polled

\* Escape: an empty board.
polled_restart ==
  /\ polled
  /\ \E random \in PieceTypes : Becomes([new_block([Game EXCEPT !.pit = {}], random) EXCEPT !.over = FALSE])
  /\ UNCHANGED <<polled, round_count>>

PitNext == do_keydown \/ window_timer \/ polled_round \/ polled_restart
PitSpec == PitInit /\ [][PitNext]_pitvars

----------------------------------------------------------------------------
(* Properties.                                                              *)

\* While the game goes on, the piece is on the board: every place it covers is one
\* of the board and is drawn, so that taking it off to move it takes nothing
\* else off (block_at_cursor, block_fits_at and new_block).
PieceIsOnBoard == ~game_over => CoveredBy(piece) \subseteq pit /\ pit \subseteq Places

Pile == Erased(pit, piece)

\* What a pile should become: the rows that are not full, in their order, at the
\* bottom of the board.
FullRows(b) == {y \in Rows : row_full(b, y)}
Collapsed(b) ==
  {<<c[1], c[2] + Cardinality({z \in FullRows(b) : z > c[2]})>> : c \in {d \in b : d[2] \notin FullRows(b)}}

\* Moving the piece leaves the pile alone, and when the piece has landed exactly the
\* full rows go (erase_rows, of a board whose uppermost rows are free: one row less
\* than are full).
LandingClearsFullRows ==
  ~polled /\ ~game_over =>
    \/ Pile' = Pile
    \/ LET b == drop_down(Game).pit
       IN (\A c \in b : c[2] > Cardinality(FullRows(b)) - 2)
             => (IF game_over' THEN pit' ELSE Pile') = Collapsed(b)
LandsOnPile == [][LandingClearsFullRows]_pitvars
===============================================================================
