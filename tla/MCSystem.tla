------------------------------- MODULE MCSystem -------------------------------
(***************************************************************************)
(* What the kernel does for one program: its registers (UserContext), its  *)
(* image and address space (Processes), its tokens (Tokens), the data it   *)
(* passes (UserMemory) and the answers to its queries (Queries); and the   *)
(* programs: the debugger's disassembler and two games.  A behaviour is one *)
(* of one part.                                                            *)
(***************************************************************************)
EXTENDS Integers, Sequences, TLC

VARIABLES which,   \* the part that this behaviour is one of
          ctx, context_changed, callback_frame, stack, state, apc_list,
          alerted, views, ran, exports, sections, memory, answer, process,
          unique_counter, phandles, refs, thandles, imp, reply, tlife, us,
          heap, conv, space, bytes, copied, qobj, asked, given, same, board,
          screen, mouse, pit, piece, next_piece_type, game_over, polled,
          round_count, code, u, printed

(* Two section tables of an image.                                         *)
Sect(va, vsize, ptr, raw) == [va |-> va, vsize |-> vsize, ptr |-> ptr, raw |-> raw]
TwoTables == {<<Sect(2, 3, 4, 2), Sect(6, 2, 6, 3)>>, <<Sect(2, 1, 3, 1), Sect(4, 4, 1, 4), Sect(8, 0, 0, 0)>>}

(* Well-formed UTF-8 of one, two and three bytes, and bytes that are not.  *)
SomeBytes == {<<>>, <<65, 66>>, <<65, 195, 132, 66>>, <<195, 132>>, <<226, 130, 172>>, <<232, 130, 172, 66>>,
              <<65, 200, 132>>, <<65, 128>>}

(* Address spaces with adjacent blocks, with holes and with reserved ones. *)
Area(a, n, c) == [base |-> a, size |-> n, committed |-> c]
SomeLayouts == {{Area(1, 2, TRUE), Area(3, 2, TRUE)}, {Area(0, 1, FALSE), Area(1, 3, TRUE), Area(5, 1, TRUE)},
                {Area(0, 3, TRUE), Area(3, 1, TRUE), Area(4, 2, FALSE)}}

(* The sizes of the answers, scaled down but in their order.               *)
AnswerSize ==
  [c \in {"ProcessBasic", "ThreadBasic", "SystemBasic", "ObjectHandle", "FileBasic", "Link", "Other",
          "ValueBasic", "ValueAlign64", "KeyNode"} |-> 3]
  @@ [c \in {"ProcessDeviceMap", "ThreadTimes", "SystemTimeOfDay", "Security", "SectionImage", "Memory",
             "TimerBasic", "FileStandard", "ValueFull", "KeyFull"} |-> 4]
  @@ [c \in {"ProcessSession", "ProcessHardError", "ProcessExecute", "ThreadAmILast"} |-> 1]
  @@ [c \in {"SectionBasic", "EventBasic", "ValuePartial", "KeyBasic"} |-> 2]

(* The straight piece and the square one.                                  *)
TwoPieces == [t \in {0, 6} |-> IF t = 0 THEN [x |-> 4, y |-> 1, bits |-> <<1, 1, 1, 1>>]
                                         ELSE [x |-> 2, y |-> 2, bits |-> <<1, 1, 1, 1>>]]

(* Every opcode, after several prefixes and before several ModRM bytes,    *)
(* and a few opcodes in code that is cut off or that goes on.              *)
Prefixes == {<<>>, <<102>>, <<103>>, <<242>>, <<46, 102, 103>>}
Opcodes == {<<3>>, <<5>>, <<107>>, <<128>>, <<144>>, <<154>>, <<161>>, <<184>>, <<200>>, <<216>>, <<232>>, <<255>>,
            <<15, 88>>, <<15, 198>>}
Tails == {<<>>, <<5>>, <<4, 1>>, <<5, 3, 4, 6, 216, 0, 3>>, <<4, 5, 107, 5, 4, 5, 255, 0>>}
SomeCode ==
       {p \o o \o <<m>> \o t : p \in Prefixes, o \in Opcodes, m \in {0, 4, 5, 6, 68, 132, 208}, t \in Tails}
  \cup {p \o o \o <<m, 5, 6, 7, 8, 9, 10, 11, 12>> :
          p \in {<<>>, <<102>>}, o \in {<<b>> : b \in 0..255} \cup {<<15, b>> : b \in 0..255},
          m \in {5, 12, 70, 132, 211}}

Ct == INSTANCE UserContext WITH StackTop <- 6, MaxDepth <- 3, MaxApcs <- 2
Pr == INSTANCE Processes WITH ExportNames <- 1..4, MaxExports <- 3, SectionTables <- TwoTables, ImagePage <- 2,
                              UlongRange <- 64, SpaceTop <- 9, NtdllBase <- 6, GdiTable <- 2, ImageBases <- {3, 6},
                              Processes <- {1, 2}, MaxIds <- 4, MaxOwn <- 1, MaxOpen <- 2
To == INSTANCE Tokens WITH Tokens <- {"t1", "t2"}, MaxTokHandles <- 3, BufferSizes <- {3, 12, 15, 16, 20, 56},
                           Writable <- {0, 9, 100}
Um == INSTANCE UserMemory WITH Wchars <- {65, 196, 8364}, MaxChars <- 2, ByteStrings <- SomeBytes, MaxAllocs <- 3,
                               Highest <- 6, Layouts <- SomeLayouts
Qu == INSTANCE Queries WITH Size <- AnswerSize, ValueNames <- [n \in {"a", "bb"} |-> IF n = "a" THEN 1 ELSE 2],
                            DataSizes <- {0, 2}, KeyNames <- {1, 2}, MaxEntries <- 2, Lengths <- {0, 2, 4, 7},
                            Rooms <- {3, 9}
Ga == INSTANCE Games WITH Levels <- <<<<3, 1, 1>>>>, BestTimes <- <<1>>, MaxCols <- 4, MaxRows <- 4, MaxTime <- 1,
                          RandTop <- FALSE, Pieces <- TwoPieces, Width <- 4, Height <- 4,
                          TimerEvery <- 1
Di == INSTANCE Disassembler WITH Streams <- SomeCode, Modes <- {32}, CacheSize <- 4, MaxPrefixes <- 3, MaxInsns <- 3

ASSUME /\ Ct!ContextAssumption /\ Pr!ImageAssumption /\ Pr!ProcessAssumption /\ To!TokenAssumption
       /\ Um!UnicodeAssumption /\ Um!CopyAssumption /\ Ga!MinesAssumption /\ Ga!MinitrisAssumption
       /\ Di!DisassemblerAssumption

MCInit ==
  /\ which \in {"context", "images", "processes", "tokens", "strings", "copies",
             "queries", "mines", "minitris", "code"}
  /\ IF which = "context" THEN Ct!UInit
     ELSE ctx = 0 /\ context_changed = 0 /\ callback_frame = 0 /\ stack = 0 /\ state = 0 /\ apc_list = 0 /\ alerted = 0 /\ views = 0 /\ ran = 0
  /\ IF which = "images" THEN Pr!ImInit
     ELSE exports = 0 /\ sections = 0 /\ memory = 0 /\ answer = 0
  /\ IF which = "processes" THEN Pr!PInit
     ELSE process = 0 /\ unique_counter = 0 /\ phandles = 0
  /\ IF which = "tokens" THEN To!ToInit
     ELSE refs = 0 /\ thandles = 0 /\ imp = 0 /\ reply = 0 /\ tlife = 0
  /\ IF which = "strings" THEN Um!UsInit
     ELSE us = 0 /\ heap = 0 /\ conv = 0
  /\ IF which = "copies" THEN Um!UcInit
     ELSE space = 0 /\ bytes = 0 /\ copied = 0
  /\ IF which = "queries" THEN Qu!QInit
     ELSE qobj = 0 /\ asked = 0 /\ given = 0 /\ same = 0
  /\ IF which = "mines" THEN Ga!MInit
     ELSE board = 0 /\ screen = 0 /\ mouse = 0
  /\ IF which = "minitris" THEN Ga!PitInit
     ELSE pit = 0 /\ piece = 0 /\ next_piece_type = 0 /\ game_over = 0 /\ polled = 0 /\ round_count = 0
  /\ IF which = "code" THEN Di!UdInit
     ELSE code = 0 /\ u = 0 /\ printed = 0

contextvars == <<ctx, context_changed, callback_frame, stack, state,
                  apc_list, alerted, views, ran>>
imagesvars == <<exports, sections, memory, answer>>
processesvars == <<process, unique_counter, phandles>>
tokensvars == <<refs, thandles, imp, reply, tlife>>
stringsvars == <<us, heap, conv>>
copiesvars == <<space, bytes, copied>>
queriesvars == <<qobj, asked, given, same>>
minesvars == <<board, screen, mouse>>
minitrisvars == <<pit, piece, next_piece_type, game_over, polled, round_count>>
codevars == <<code, u, printed>>
mcvars == <<which, contextvars, imagesvars, processesvars, tokensvars,
            stringsvars, copiesvars, queriesvars, minesvars, minitrisvars,
            codevars>>

MCNext ==
  \/ /\ which = "context" /\ Ct!UNext
     /\ UNCHANGED <<which, imagesvars, processesvars, tokensvars, stringsvars,
                  copiesvars, queriesvars, minesvars, minitrisvars, codevars>>
  \/ /\ which = "images" /\ Pr!ImNext
     /\ UNCHANGED <<which, contextvars, processesvars, tokensvars, stringsvars,
                  copiesvars, queriesvars, minesvars, minitrisvars, codevars>>
  \/ /\ which = "processes" /\ Pr!PNext
     /\ UNCHANGED <<which, contextvars, imagesvars, tokensvars, stringsvars,
                  copiesvars, queriesvars, minesvars, minitrisvars, codevars>>
  \/ /\ which = "tokens" /\ To!ToNext
     /\ UNCHANGED <<which, contextvars, imagesvars, processesvars, stringsvars,
                  copiesvars, queriesvars, minesvars, minitrisvars, codevars>>
  \/ /\ which = "strings" /\ Um!UsNext
     /\ UNCHANGED <<which, contextvars, imagesvars, processesvars, tokensvars,
                  copiesvars, queriesvars, minesvars, minitrisvars, codevars>>
  \/ /\ which = "copies" /\ Um!UcNext
     /\ UNCHANGED <<which, contextvars, imagesvars, processesvars, tokensvars,
                  stringsvars, queriesvars, minesvars, minitrisvars, codevars>>
  \/ /\ which = "queries" /\ Qu!QNext
     /\ UNCHANGED <<which, contextvars, imagesvars, processesvars, tokensvars,
                  stringsvars, copiesvars, minesvars, minitrisvars, codevars>>
  \/ /\ which = "mines" /\ Ga!MNext
     /\ UNCHANGED <<which, contextvars, imagesvars, processesvars, tokensvars,
                  stringsvars, copiesvars, queriesvars, minitrisvars, codevars>>
  \/ /\ which = "minitris" /\ Ga!PitNext
     /\ UNCHANGED <<which, contextvars, imagesvars, processesvars, tokensvars,
                  stringsvars, copiesvars, queriesvars, minesvars, codevars>>
  \/ /\ which = "code" /\ Di!UdNext
     /\ UNCHANGED <<which, contextvars, imagesvars, processesvars, tokensvars,
                  stringsvars, copiesvars, queriesvars, minesvars, minitrisvars>>

MCSpec == MCInit /\ [][MCNext]_mcvars

-------------------------------------------------------------------------------
(* A program goes on where it was: what an APC, a callback or an exception *)
(* saved is what NtContinue and NtCallbackReturn restore (UserContext); a  *)
(* process is laid out with its parts disjoint, ids unique and blocks that *)
(* live as long as handles or threads need them, and the lookups in its    *)
(* images by name and by address agree (Processes).                        *)
ProgramKept ==
  /\ which = "context" => Ct!RegistersKept
  /\ which = "processes" => Pr!ProcessLayout
  /\ which = "images" => Pr!ImageAnswersAgree

(* What the kernel copies for a program is whole: tokens are counted and   *)
(* their answers fit (Tokens), a copy that fails has written a prefix, a   *)
(* string owns its buffer (UserMemory), and an answer to a query holds     *)
(* what it says it does (Queries).                                         *)
UserDataSound ==
  /\ which = "tokens" => To!TokensSound
  /\ which = "strings" => Um!StringsOwnTheirBuffers
  /\ which = "copies" => Um!CopiesArePrefixes
  /\ which = "queries" => Qu!AnswersAreWhole

(* The disassembler keeps its place, and gives an instruction the length   *)
(* that the processor does, but for 3DNow, the control registers and the   *)
(* words of xmm registers (Disassembler: ReadWrong); the                   *)
(* counters of the minesweeper are those of its board, and its screen      *)
(* shows the board unless it was pressed on in two ways at once; a piece   *)
(* of the falling blocks lies on the board and on no other (Games).        *)
ProgramsSound ==
  /\ which = "code" => Di!DecoderKeepsPlace /\ Di!LengthIsX86
  /\ which = "mines" => Ga!GameIsCounted /\ Ga!ScreenIsBoard
  /\ which = "minitris" => Ga!PieceIsOnBoard

(* A program that was told the length its answer needs gets the answer     *)
(* when it asks again with a buffer of that length, unless what it asks    *)
(* about changed in between (Queries).  When a piece has landed exactly    *)
(* the full rows go (Games: erase_rows).                                   *)
StepsKeepTheirWord ==
  [][/\ which = "queries" => Qu!AskedAgainIsAnswered
     /\ which = "minitris" => Ga!LandingClearsFullRows]_mcvars
===============================================================================
