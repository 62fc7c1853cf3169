---------------------------- MODULE Decompressors -----------------------------
(*****************************************************************************)
(* The windows and output of the decompressors of libmspack: MSZIP, LZX and  *)
(* Quantum.                                                                  *)
(*****************************************************************************)
EXTENDS Integers, Sequences, SequencesExt, FiniteSets, FiniteSetsExt

-------------------------------------------------------------------------------
(***************************************************************************)
(* The MSZIP decompressor (libmspack/mszipd.c): every frame of the output   *)
(* follows a 'CK' mark, is inflated into the window from its start, and is  *)
(* handed out in as many pieces as mszipd_decompress is called for.  The    *)
(* input is a sequence of frames [blocks, end], with Junk for bytes outside *)
(* them; a block is stored bytes or a sequence of literals <<0, byte>> and  *)
(* matches <<length, distance>> (how they are coded: Codes.tla).            *)
(***************************************************************************)
CONSTANTS FrameSize,    \* MSZIP_FRAME_SIZE
          ShortMatch,   \* matches below this length are copied byte by byte (12)
          ZipStreams,   \* the streams: [input, repair]
          Requests,     \* the values of out_bytes
          MaxAsked      \* bound on the bytes asked for

MszipAssumption == {FrameSize, MaxAsked} \subseteq Nat \ {0} /\ Requests \subseteq Nat

VARIABLES zin,          \* [input, repair]: what the stream was created for
          zip,          \* [window, o_ptr, o_end, next, error]
          zout          \* [bytes, asked]: the bytes written; those asked for, MaxAsked + 1 after an error

zvars == <<zin, zip, zout>>

Stored(bytes) == [type |-> 0, bytes |-> bytes]
Coded(items) == [type |-> 1, items |-> items]
Junk == [blocks |-> <<>>, end |-> "junk"]

ZInit ==
  /\ zin \in ZipStreams
  /\ zip = [window |-> [i \in 0..(FrameSize - 1) |-> 0], o_ptr |-> 0, o_end |-> 0, next |-> 1, error |-> "ok"]
  /\ zout = [bytes |-> <<>>, asked |-> 0]

----------------------------------------------------------------------------
(* inflate.  w is [window, posn, out, bad]; bad: flush_window refused.      *)

\* mszipd_flush_window: more than a frame is an error.
flush_window(w, n) == [w EXCEPT !.out = @ + n, !.bad = w.out + n > FrameSize]
Wrapped(w) == IF w.posn = FrameSize THEN [flush_window(w, FrameSize) EXCEPT !.posn = 0] ELSE w
PutByte(w, b) == IF w.bad THEN w ELSE Wrapped([w EXCEPT !.window[w.posn] = b, !.posn = @ + 1])

MatchPosn(w, distance) == (IF distance > w.posn THEN FrameSize ELSE 0) + w.posn - distance

\* The two copy loops; the longer one goes by runs that reach the end of neither
\* the source nor the destination.
RECURSIVE CopyShort(_, _, _)
CopyShort(w, from, length) ==
  IF length = 0 THEN w ELSE CopyShort(PutByte(w, w.window[from]), (from + 1) % FrameSize, length - 1)
RECURSIVE CopyRun(_, _, _)
CopyRun(w, from, n) ==
  IF n = 0 THEN w
  ELSE CopyRun([w EXCEPT !.window[w.posn] = w.window[from], !.posn = @ + 1], from + 1, n - 1)
RECURSIVE CopyLong(_, _, _)
CopyLong(w, from, length) ==
  LET run == Min({length, FrameSize - from, FrameSize - w.posn})
      after == Wrapped(CopyRun(w, from, run))
  IN IF after.bad \/ length = run THEN after ELSE CopyLong(after, (from + run) % FrameSize, length - run)

Item(w, x) ==
  IF w.bad THEN w
  ELSE IF x[1] = 0 THEN PutByte(w, x[2])
  ELSE IF x[1] < ShortMatch THEN CopyShort(w, MatchPosn(w, x[2]), x[1])
  ELSE CopyLong(w, MatchPosn(w, x[2]), x[1])
Block(w, b) == IF b.type = 0 THEN FoldLeft(PutByte, w, b.bytes) ELSE FoldLeft(Item, w, b.items)

\* The blocks of a frame and the last flush; end says whether the data breaks off
\* after them ("decrunch": an error of inflate, "read": one of reading).
LastFlush(w, end) == IF w.posn > 0 /\ ~w.bad /\ end = "ok" THEN flush_window(w, w.posn) ELSE w
Inflated(w, end) == [window |-> w.window, out |-> w.out, error |-> IF w.bad THEN "decrunch" ELSE end]
inflate(window, frame) ==
  Inflated(LastFlush(FoldLeft(Block, [window |-> window, posn |-> 0, out |-> 0, bad |-> FALSE], frame.blocks), frame.end),
           frame.end)

\* What repair_mode makes of an error: the rest of the frame is zeros.
Repaired(f) ==
  [f EXCEPT !.window = [i \in DOMAIN f.window |-> IF i >= f.out THEN 0 ELSE f.window[i]], !.out = FrameSize]

----------------------------------------------------------------------------
(* mszipd_decompress.  r is [z, left, out]: the stream, what is still to be  *)
(* written, and what was.                                                   *)

Write_again(r, n) ==
  [r EXCEPT !.left = @ - n, !.out = @ \o [i \in 1..n |-> r.z.window[r.z.o_ptr + i - 1]]]
Write(r, n) ==
  [z |-> [r.z EXCEPT !.o_ptr = @ + n], left |-> r.left - n,
   out |-> r.out \o [i \in 1..n |-> r.z.window[r.z.o_ptr + i - 1]]]
Flush(r) == Write(r, Min({r.left, r.z.o_end - r.z.o_ptr}))
Fails(r, e) == [r EXCEPT !.z.error = e]

\* One turn per frame: look for the next 'CK' (beyond the end of the input the
\* search does not stop), inflate, write.  An error of reading ends the stream in
\* repair mode too.
RECURSIVE Frames(_, _, _), FrameDone(_, _, _, _, _)
FrameDone(r, next, f, input, repair) ==
  LET g == IF f.error # "ok" THEN Repaired(f) ELSE f
      w == Flush([r EXCEPT !.z.window = g.window, !.z.o_ptr = 0, !.z.o_end = g.out, !.z.next = next])
  IN IF f.error # "ok" /\ ~repair THEN [r |-> Fails([r EXCEPT !.z.window = f.window], f.error), status |-> f.error]
     ELSE IF f.error = "read" THEN [r |-> Fails(w, "read"), status |-> "read"]
     ELSE Frames(w, input, repair)
Frames(r, input, repair) ==
  LET rest == {i \in r.z.next..Len(input) : input[i] # Junk}
  IN IF r.left = 0 THEN [r |-> r, status |-> "ok"]
     ELSE IF rest = {} THEN [r |-> Fails(r, "endless"), status |-> "endless"]
     ELSE FrameDone(r, Min(rest) + 1, inflate(r.z.window, input[Min(rest)]), input, repair)

Decompressed(all, n) ==
  /\ zip' = all.r.z
  /\ zout' = [bytes |-> zout.bytes \o all.r.out,
              asked |-> IF all.status = "ok" THEN zout.asked + n ELSE MaxAsked + 1]
Decompress(n) ==
  /\ zip.error # "endless" /\ zout.asked + n <= MaxAsked
  /\ IF zip.error # "ok" THEN UNCHANGED <<zip, zout>>
     ELSE Decompressed(Frames(Flush([z |-> zip, left |-> n, out |-> <<>>]), zin.input, zin.repair), n)
  /\ UNCHANGED zin

ZNext == \E n \in Requests : Decompress(n)

ZSpec == ZInit /\ [][ZNext]_zvars

----------------------------------------------------------------------------
(* What is handed out.                                                      *)

\* The text a frame stands for, after the text before it.
RECURSIVE CopyBack(_, _, _)
CopyBack(text, distance, length) ==
  IF length = 0 THEN text ELSE CopyBack(Append(text, text[Len(text) + 1 - distance]), distance, length - 1)
Text(text, frame) ==
  FoldLeft(LAMBDA t, b : IF b.type = 0 THEN t \o b.bytes
                         ELSE FoldLeft(LAMBDA u, x : IF x[1] = 0 THEN Append(u, x[2])
                                                     ELSE CopyBack(u, x[2], x[1]), t, b.items),
           text, frame.blocks)
\* Frames up to the first damaged one; in repair mode that one and the others that
\* are damaged are frames of zeros.
RECURSIVE Whole(_, _, _)
Whole(text, input, repair) ==
  IF input = <<>> THEN text
  ELSE LET x == Head(input)
       IN IF x = Junk THEN Whole(text, Tail(input), repair)
          ELSE IF x.end = "ok" /\ Len(Text(text, x)) - Len(text) <= FrameSize THEN Whole(Text(text, x), Tail(input), repair)
          ELSE IF ~repair THEN text
          ELSE Whole(text \o [i \in 1..FrameSize |-> 0], Tail(input), repair)

\* However mszipd_decompress is called, the bytes it writes are the text of the
\* stream from its start, as many as were asked for: the window that wraps, the
\* frame kept between two calls and the two ways to copy a match lose, repeat and
\* change nothing, and frames that are repaired keep their place.
ZipWritesText ==
  LET text == Whole(<<>>, zin.input, zin.repair)
  IN /\ zip.error = "ok" => Len(zout.bytes) <= Len(text)
     /\ zout.bytes = SubSeq(text, 1, Len(zout.bytes))
     /\ zout.asked <= MaxAsked => Len(zout.bytes) = zout.asked

-------------------------------------------------------------------------------
(***************************************************************************)
(* The LZX decompressor (libmspack/lzxd.c): blocks of literals, matches and *)
(* stored bytes are decoded into a window, frame by frame, and handed out   *)
(* in as many pieces as lzxd_decompress is called for.  A block is [type,   *)
(* length, items, R]; an item is a literal <<0, byte>> or a match <<length, *)
(* offset>>, where the offsets 0, -1 and -2 name R0, R1 and R2.  How items  *)
(* are coded is in Codes.tla; the E8 translation is left out.               *)
(***************************************************************************)
CONSTANTS LzxFrame,     \* LZX_FRAME_SIZE
          LzxWindow,    \* window_size, a multiple of the frame size
          LzxStreams,   \* the streams: [blocks, length, reset, sound]
          LzxRequests,  \* the values of out_bytes
          LzxMax        \* bound on the bytes asked for

LzxAssumption ==
  /\ {LzxFrame, LzxWindow, LzxMax} \subseteq Nat \ {0} /\ LzxRequests \subseteq Nat
  /\ LzxWindow % LzxFrame = 0

VARIABLES lin,          \* the stream
          lzx,          \* the decompressor's state
          lout          \* [bytes, asked]: the bytes written; those asked for, LzxMax + 1 after an error

lvars == <<lin, lzx, lout>>

R0R1R2 == <<1, 1, 1>>   \* lzxd_reset_state

\* lzxd_init.  avail is what lies between o_ptr and o_end.
LInit ==
  /\ lin \in LzxStreams
  /\ lzx = [window |-> [i \in 0..(LzxWindow - 1) |-> 0], window_posn |-> 0, frame_posn |-> 0, frame |-> 0, offset |-> 0,
            R |-> R0R1R2, block |-> 0, item |-> 0, block_remaining |-> 0, avail |-> <<>>, error |-> "ok"]
  /\ lout = [bytes |-> <<>>, asked |-> 0]

----------------------------------------------------------------------------
(* Decoding a frame.                                                        *)

Bad(z) == [z EXCEPT !.error = "decrunch"]

\* The offset of a match and the three last offsets after it.
Recent(R, offset) ==
  CASE offset = 0  -> <<R[1], R>>
    [] offset = -1 -> <<R[2], <<R[2], R[1], R[3]>>>>
    [] offset = -2 -> <<R[3], <<R[3], R[2], R[1]>>>>
    [] OTHER       -> <<offset, <<offset, R[1], R[2]>>>>

RECURSIVE CopyBytes(_, _, _, _)
CopyBytes(window, from, to, n) ==
  IF n = 0 THEN window ELSE CopyBytes([window EXCEPT ![to] = window[from]], from + 1, to + 1, n - 1)

\* A match whose source lies before the start of the window begins at its end, in
\* up to two runs.
CopyMatch(z, length, offset) ==
  LET posn == z.window_posn
      j == offset - posn
      first == Min({j, length})
      window ==
        IF offset <= posn THEN CopyBytes(z.window, posn - offset, posn, length)
        ELSE CopyBytes(CopyBytes(z.window, LzxWindow - j, posn, first), 0, posn + first, length - first)
  IN IF posn + length > LzxWindow \/ j > LzxWindow THEN Bad(z)
     ELSE [z EXCEPT !.window = window, !.window_posn = posn + length]

\* The items of a block up to at least run bytes; left goes below zero when the
\* last match is too long.
RECURSIVE Items(_, _, _)
Items(z, stream, left) ==
  LET items == stream.blocks[z.block].items
      x == items[z.item + 1]
      m == Recent(z.R, x[2])
      next == IF x[1] = 0 THEN [z EXCEPT !.window[z.window_posn] = x[2], !.window_posn = @ + 1]
              ELSE [CopyMatch(z, x[1], m[1]) EXCEPT !.R = m[2]]
  IN IF left <= 0 \/ z.error # "ok" THEN [z |-> z, left |-> left]
     ELSE IF z.item = Len(items) THEN [z |-> [z EXCEPT !.error = "read"], left |-> 0]
     ELSE Items([next EXCEPT !.item = z.item + 1], stream, left - Max({1, x[1]}))

\* The header of the next block; a stored block brings its own R0, R1 and R2.
NewBlock(z, stream) ==
  IF z.block_remaining > 0 THEN z
  ELSE IF z.block = Len(stream.blocks) THEN [z EXCEPT !.error = "read"]
  ELSE LET b == stream.blocks[z.block + 1]
       IN [z EXCEPT !.block = @ + 1, !.item = 0, !.block_remaining = b.length,
                    !.R = IF b.type = "uncompressed" THEN b.R ELSE @]

\* Bytes until the frame is full: a run out of the current block, b, and so on.
RECURSIVE Fill(_, _, _), Filled(_, _, _)
Filled(d, stream, todo) ==
  IF -d.left > d.z.block_remaining THEN Bad(d.z)
  ELSE Fill([d.z EXCEPT !.block_remaining = @ + d.left], stream, todo)
Run(b, stream, todo, run) ==
  IF b.error # "ok" THEN b
  ELSE Filled(Items([b EXCEPT !.block_remaining = @ - run], stream, run), stream, todo - run)
InBlock(b, stream, todo) == Run(b, stream, todo, Min({b.block_remaining, todo}))
Fill(z, stream, todo) == IF todo <= 0 \/ z.error # "ok" THEN z ELSE InBlock(NewBlock(z, stream), stream, todo)

ResetDue_late(z, stream) == stream.reset # 0 /\ z.frame > 0 /\ (z.frame - 1) % stream.reset = 0
ResetDue(z, stream) == stream.reset # 0 /\ z.frame % stream.reset = 0

\* The last frame is shorter, if the length of the stream is known.
LzxFrameSize(z, stream) ==
  IF stream.length # 0 /\ stream.length - z.offset < LzxFrame THEN stream.length - z.offset ELSE LzxFrame

\* One turn of the loop over frames.  r is [z, left, out].
WriteOut(r, n) ==
  [z |-> [r.z EXCEPT !.avail = SubSeq(@, n + 1, Len(@)), !.offset = @ + n], left |-> r.left - n,
   out |-> r.out \o SubSeq(r.z.avail, 1, n)]
Wrap(posn) == IF posn = LzxWindow THEN 0 ELSE posn
FrameWritten(r, z, size) ==
  WriteOut([r EXCEPT !.z = [z EXCEPT !.avail = [i \in 1..size |-> z.window[z.frame_posn + i - 1]]]], Min({r.left, size}))
FrameFilled(r, z, size) ==
  IF z.error # "ok" THEN [r EXCEPT !.z = z]
  ELSE IF z.window_posn - z.frame_posn # size \/ r.z.avail # <<>> THEN [r EXCEPT !.z = Bad(z)]
  ELSE [FrameWritten(r, z, size) EXCEPT !.z.frame_posn = Wrap(@ + size), !.z.frame = @ + 1, !.z.window_posn = Wrap(@)]
Frame(r, stream) ==
  LET reset == ResetDue(r.z, stream)
      size == LzxFrameSize(r.z, stream)
  IN IF reset /\ r.z.block_remaining > 0 THEN [r EXCEPT !.z = Bad(@)]
     ELSE FrameFilled(r, Fill([r.z EXCEPT !.R = IF reset THEN R0R1R2 ELSE @], stream,
                              r.z.frame_posn + size - r.z.window_posn), size)

RECURSIVE LzxFrames(_, _, _)
LzxFrames(r, stream, end_frame) ==
  IF r.z.frame >= end_frame \/ r.z.error # "ok" THEN r ELSE LzxFrames(Frame(r, stream), stream, end_frame)

\* lzxd_decompress: first what the last call left, then frames up to the one with
\* the byte behind the last one asked for.
Framed(r, stream) ==
  IF r.left = 0 THEN r ELSE LzxFrames(r, stream, (r.z.offset + r.left) \div LzxFrame + 1)
OrShort(r) == IF r.left > 0 /\ r.z.error = "ok" THEN [r EXCEPT !.z = Bad(@)] ELSE r
LzxDecompressed(r, n) ==
  /\ lzx' = r.z
  /\ lout' = [bytes |-> lout.bytes \o r.out,
              asked |-> IF r.z.error = "ok" THEN lout.asked + n ELSE LzxMax + 1]
LzxDecompress(n) ==
  /\ lout.asked + n <= LzxMax
  /\ IF lzx.error # "ok" THEN UNCHANGED <<lzx, lout>>
     ELSE LzxDecompressed(OrShort(Framed(WriteOut([z |-> lzx, left |-> n, out |-> <<>>], Min({n, Len(lzx.avail)})), lin)), n)
  /\ UNCHANGED lin

LNext == \E n \in LzxRequests : LzxDecompress(n)

LSpec == LInit /\ [][LNext]_lvars

----------------------------------------------------------------------------
(* What is handed out.                                                      *)

\* The text of the items on their own: no window, no frames, no calls.  t is
\* [text, R].
RECURSIVE LookBack(_, _, _)
LookBack(text, distance, length) ==
  IF length = 0 THEN text ELSE LookBack(Append(text, text[Len(text) + 1 - distance]), distance, length - 1)
ItemText(t, x, reset) ==
  LET R == IF reset # 0 /\ Len(t.text) % (reset * LzxFrame) = 0 THEN R0R1R2 ELSE t.R
      m == Recent(R, x[2])
  IN IF x[1] = 0 THEN [text |-> Append(t.text, x[2]), R |-> R]
     ELSE [text |-> LookBack(t.text, m[1], x[1]), R |-> m[2]]
LzxText(stream) ==
  FoldLeft(LAMBDA t, b : FoldLeft(LAMBDA u, x : ItemText(u, x, stream.reset),
                                  IF b.type = "uncompressed" THEN [t EXCEPT !.R = b.R] ELSE t, b.items),
           [text |-> <<>>, R |-> R0R1R2], stream.blocks).text

\* However lzxd_decompress is called, the bytes it writes are the text of the
\* stream from its start, as many as were asked for, and a sound stream gives no
\* error before its end: windows that wrap, frames handed out in pieces, blocks
\* that cross frames and resets lose and change nothing.
LzxWritesText ==
  /\ lin.sound \/ lzx.error = "ok" => LET text == LzxText(lin) IN lout.bytes = SubSeq(text, 1, Len(lout.bytes))
  /\ lzx.error = "ok" => Len(lout.bytes) = lout.asked
  /\ lin.sound /\ lzx.error # "ok" => Len(lout.bytes) = lin.length

-------------------------------------------------------------------------------
(***************************************************************************)
(* The window of the Quantum decompressor (libmspack/qtmd.c): literals      *)
(* <<0, byte>> and matches <<length, offset>> are decoded into it and       *)
(* handed out in as many pieces as qtmd_decompress is called for.  How they *)
(* are coded is in Codes.tla.                                               *)
(***************************************************************************)
CONSTANTS QtmFrame, QtmWindow,  \* QTM_FRAME_SIZE and window_size
          QtmTexts,             \* streams: sequences of items
          QtmRequests,          \* the values of out_bytes
          QtmMax                \* bound on the bytes asked for

QuantumAssumption == {QtmFrame, QtmWindow, QtmMax} \subseteq Nat \ {0} /\ QtmRequests \subseteq Nat

VARIABLES qtm,          \* the stream and its decompressor
          qout          \* [bytes, asked]: the bytes written; how many were asked for

qtvars == <<qtm, qout>>

----------------------------------------------------------------------------
(* qtmd_decompress.  z is qtm, o the position of o_ptr; every offset into   *)
(* the window is taken modulo its size.                                     *)

QInside(i) == i % QtmWindow
RECURSIVE QCopy(_, _, _, _)
QCopy(window, from, to, n) ==
  IF n = 0 THEN window ELSE QCopy([window EXCEPT ![QInside(to)] = window[QInside(from)]], from + 1, to + 1, n - 1)

\* Of a negative number of bytes nothing good comes: fwrite takes it for a huge one,
\* and without a file o_ptr leaves the window.
QWrite(r, n) ==
  IF n < 0 THEN [r EXCEPT !.z.error = "undefined"]
  ELSE [z |-> [r.z EXCEPT !.o_ptr = @ + n], left |-> r.left - n,
        out |-> r.out \o [i \in 1..n |-> r.z.window[r.z.o_ptr + i - 1]]]
QRewind_kept(r) == [r EXCEPT !.z.o_ptr = 0]
QRewind(r) == [r EXCEPT !.z.o_ptr = 0, !.z.o_end = 0]

\* Items up to frame_end.  A match that crosses the end of the window is copied in
\* two parts, with all that is stored written between them, also when fewer bytes
\* were asked for, so that left may fall below 0.
Upto(r, from, to_end) ==
  QWrite([r EXCEPT !.z.window = QCopy(@, from, r.z.window_posn, to_end)], QtmWindow - r.z.o_ptr)
Over(r, from, left) == QRewind([r EXCEPT !.z.window = QCopy(@, from, 0, left), !.z.window_posn = left])
CrossEnd(r, length, offset) ==
  LET to_end == QtmWindow - r.z.window_posn
      from == r.z.window_posn - offset + QtmWindow
  IN Over(Upto(r, from, to_end), QInside(from + QtmWindow + to_end), length - to_end)

RECURSIVE QItems(_, _), QItem(_, _, _)
QItem(r, x, frame_end) ==
  LET posn == r.z.window_posn
      todo == [r EXCEPT !.z.item = @ + 1, !.z.frame_todo = @ - Max({1, x[1]})]
  IN IF x[1] = 0 THEN QItems([todo EXCEPT !.z.window[posn] = x[2], !.z.window_posn = @ + 1], frame_end)
     ELSE IF posn + x[1] > QtmWindow THEN CrossEnd(todo, x[1], x[2])
     ELSE QItems([todo EXCEPT !.z.window = QCopy(@, posn - x[2] + QtmWindow, posn, x[1]), !.z.window_posn = @ + x[1]], frame_end)
QItems(r, frame_end) ==
  IF r.z.window_posn >= frame_end THEN r
  ELSE IF r.z.item = Len(r.z.text) THEN [r EXCEPT !.z.error = "read"]
  ELSE QItem(r, r.z.text[r.z.item + 1], frame_end)

\* The loop over frames and windows.
NextFrame(z) == IF z.frame_todo = 0 THEN [z EXCEPT !.frame_todo = QtmFrame] ELSE z
FrameEnd(z, left) == Min({z.window_posn + left - (z.o_end - z.o_ptr), z.window_posn + z.frame_todo, QtmWindow})
NewWindow(r) ==
  IF r.z.window_posn # QtmWindow THEN r
  ELSE [QRewind(QWrite(r, r.z.o_end - r.z.o_ptr)) EXCEPT !.z.window_posn = 0]
RECURSIVE QLoop(_), QDecoded(_)
QDecoded(r) ==
  IF r.z.error # "ok" THEN r ELSE QLoop(NewWindow([r EXCEPT !.z = NextFrame([@ EXCEPT !.o_end = r.z.window_posn])]))
QLoop(r) ==
  IF r.z.o_end - r.z.o_ptr >= r.left \/ r.z.error # "ok" THEN r ELSE QDecoded(QItems(r, FrameEnd(r.z, r.left)))

Looped(r) == IF r.left = 0 THEN r ELSE QLoop(r)
Rest(r) == IF r.z.error = "ok" /\ r.left # 0 THEN QWrite(r, r.left) ELSE r
QtmDecompressed(r, n) ==
  /\ qtm' = r.z
  /\ qout' = [bytes |-> qout.bytes \o r.out, asked |-> qout.asked + n]
QtmDecompress(n) ==
  /\ qout.asked + n <= QtmMax
  /\ IF qtm.error # "ok" THEN UNCHANGED <<qtm, qout>>
     ELSE QtmDecompressed(Rest(Looped(QWrite([z |-> qtm, left |-> n, out |-> <<>>], Min({n, qtm.o_end - qtm.o_ptr})))), n)

\* qtmd_init.
QtInit ==
  /\ qtm \in {[text |-> t, item |-> 0, window |-> [i \in 0..(QtmWindow - 1) |-> 0], window_posn |-> 0, o_ptr |-> 0,
               o_end |-> 0, frame_todo |-> QtmFrame, error |-> "ok"] : t \in QtmTexts}
  /\ qout = [bytes |-> <<>>, asked |-> 0]

QtNext == \E n \in QtmRequests : QtmDecompress(n)

QtSpec == QtInit /\ [][QtNext]_qtvars

----------------------------------------------------------------------------
(* Properties.                                                              *)

RECURSIVE QLookBack(_, _, _)
QLookBack(text, distance, length) ==
  IF length = 0 THEN text ELSE QLookBack(Append(text, text[Len(text) + 1 - distance]), distance, length - 1)
QtmText(items) ==
  FoldLeft(LAMBDA t, x : IF x[1] = 0 THEN Append(t, x[2]) ELSE QLookBack(t, x[2], x[1]), <<>>, items)

\* However qtmd_decompress is called, the bytes it writes are the text of the
\* stream from its start and, while there is no error, as many as were asked for;
\* fewer when the stream ends; and more only in a call in which a match crosses
\* the end of the window, which then goes on to write a negative number of bytes.
QtmWritesText ==
  /\ qout.bytes = SubSeq(QtmText(qtm.text), 1, Len(qout.bytes))
  /\ qtm.error = "ok" => Len(qout.bytes) = qout.asked
  /\ qtm.error = "read" => Len(qout.bytes) < qout.asked
  /\ qtm.error = "undefined" => Len(qout.bytes) > qout.asked

\* "out_bytes of data will be decompressed" (qtm.h): never more.
QtmWritesNoMore == Len(qout.bytes) <= qout.asked
===============================================================================
