------------------------------ MODULE MCStorage -------------------------------
(***************************************************************************)
(* What is kept in files: directories (Files), the registry (Registry) and its *)
(* hives (Hive), the archives that are installed from (Archives), and how they *)
(* are compressed (Codes, Decompressors).  A behaviour is one of one part. *)
(***************************************************************************)
EXTENDS Integers, Sequences

VARIABLES which,   \* the part that this behaviour is one of
          host, fobj, port, flife, regkey, khandles, hive, hlife, ops, chains,
          dec, last, found, clife, chms, hd, extracted, tree, coder, zin, zip,
          zout, lin, lzx, lout, qtm, qout

(* A set of three cabinets, with a file that goes through all of them.     *)
Blk(bytes, out) == [bytes |-> bytes, out |-> out]
InCab(n, f, c, o, l) == [name |-> n, folder |-> f, cont |-> c, offset |-> o, length |-> l]
CabinetSet ==
  [c1 |-> [after |-> "c0",
           folders |-> <<[comp |-> "none", blocks |-> <<Blk(<<1, 2>>, 2), Blk(<<3>>, 0)>>]>>,
           files |-> <<InCab("f1", 1, "no", 0, 1), InCab("f2", 1, "next", 1, 5)>>],
   c2 |-> [after |-> "c1",
           folders |-> <<[comp |-> "none", blocks |-> <<Blk(<<4>>, 2), Blk(<<5>>, 0)>>]>>,
           files |-> <<InCab("f2", 1, "both", 1, 5)>>],
   c3 |-> [after |-> "c2",
           folders |-> <<[comp |-> "none", blocks |-> <<Blk(<<6>>, 2)>>],
                         [comp |-> "none", blocks |-> <<Blk(<<7, 8>>, 2), Blk(<<9, 10>>, 2), Blk(<<11>>, 1)>>],
                         [comp |-> "new", blocks |-> <<Blk(<<0>>, 2)>>]>>,
           files |-> <<InCab("f2", 1, "prev", 1, 5), InCab("f3", 2, "no", 0, 1), InCab("f4", 2, "no", 2, 1),
                       InCab("f5", 2, "no", 3, 2), InCab("f6", 3, "no", 0, 0)>>]]
Searched == {<<0, 77, 83, 67, 70, 6, 1, 77, 83, 67, 70, 6, 1>>, <<77, 83, 77, 83, 67, 70, 9, 0, 77, 83, 67, 70, 6, 1>>,
             <<77, 77, 83, 67, 70, 6, 1>>}

(* Help files: two with compressed text, one of an unknown version.        *)
InHelp(name, sys, section, offset, length) ==
  [name |-> name, sys |-> sys, section |-> section, offset |-> offset, length |-> length]
SystemFiles == <<InHelp("content", TRUE, 0, 2, 4), InHelp("control", TRUE, 0, 0, 1), InHelp("rtable", TRUE, 0, 1, 1)>>
Help(entries, frames, version) ==
  [entries |-> SystemFiles \o entries, cells |-> <<<<50>>, <<51>>, <<52>>>> \o frames \o <<<<53>>, <<54>>>>, sec0 |-> 1,
   reset |-> 4, length |-> 2 * Len(frames) - 1, table |-> [i \in DOMAIN frames |-> i - 1], version |-> version]
HelpFiles ==
  [h1 |-> Help(<<InHelp("a", FALSE, 1, 0, 1), InHelp("b", FALSE, 1, 1, 4), InHelp("c", FALSE, 1, 5, 2),
                 InHelp("d", FALSE, 1, 7, 3), InHelp("dir", FALSE, 1, 0, 0), InHelp("e", FALSE, 0, 8, 1),
                 InHelp("f", FALSE, 1, 2, 0)>>,
               <<<<1, 2>>, <<3, 4>>, <<5, 6>>, <<7, 8>>, <<9, 10>>, <<11, 12>>>>, 2),
   h2 |-> Help(<<InHelp("a", FALSE, 1, 0, 2), InHelp("b", FALSE, 1, 2, 3), InHelp("c", FALSE, 1, 6, 1)>>,
               <<<<1, 2>>, <<13, 14>>, <<>>, <<15, 16>>>>, 1),
   h3 |-> Help(<<InHelp("a", FALSE, 1, 0, 2)>>, <<<<1, 2>>>>, 3)]

(* Compressed streams: of MSZIP, sound and cut off, with and without       *)
(* repair; of LZX, with resets and stored blocks; of Quantum.              *)
Lit(b) == <<0, b>>
Frame(blocks, end) == [blocks |-> blocks, end |-> end]
Plain(bytes) == [type |-> 0, bytes |-> bytes]
Packed(items) == [type |-> 1, items |-> items]
Verbatim(length, items) == [type |-> "verbatim", length |-> length, items |-> items, R |-> <<1, 1, 1>>]
Uncompressed(R, bytes) ==
  [type |-> "uncompressed", length |-> Len(bytes), items |-> [i \in DOMAIN bytes |-> Lit(bytes[i])], R |-> R]
LzxStream(blocks, length, reset, sound) == [blocks |-> blocks, length |-> length, reset |-> reset, sound |-> sound]
Junk == Frame(<<>>, "junk")
ZipInputs ==
  {<<Frame(<<Plain(<<1, 2>>), Packed(<<Lit(3), <<1, 2>>>>)>>, "ok"), Junk,
     Frame(<<Packed(<<<<2, 3>>, Lit(4), Lit(5)>>)>>, "ok"), Frame(<<Packed(<<Lit(6), <<3, 4>>>>)>>, "ok"),
     Frame(<<Packed(<<Lit(7), <<2, 1>>>>)>>, "ok")>>,
   <<Frame(<<Packed(<<Lit(1), Lit(2), Lit(3), Lit(4)>>)>>, "ok"), Frame(<<Packed(<<Lit(5), <<3, 2>>>>)>>, "ok"),
     Frame(<<Packed(<<<<4, 3>>>>)>>, "ok")>>,
   <<Junk, Frame(<<Plain(<<1, 2, 3, 4>>)>>, "ok"), Frame(<<Packed(<<Lit(5), Lit(6)>>)>>, "decrunch"), Junk,
     Frame(<<Packed(<<<<3, 2>>, Lit(7)>>)>>, "ok")>>,
   <<Frame(<<Plain(<<1, 2, 3, 4>>)>>, "ok"), Frame(<<Packed(<<Lit(5)>>)>>, "read"), Frame(<<Plain(<<6>>)>>, "ok")>>}
Overlong == <<Frame(<<Packed(<<Lit(1), Lit(2), Lit(3), <<3, 1>>, Lit(8)>>)>>, "ok"), Frame(<<Plain(<<7>>)>>, "ok")>>
LzxTexts ==
  {LzxStream(<<Verbatim(6, <<Lit(1), Lit(2), <<2, 2>>, Lit(3), Lit(4)>>),
               Verbatim(8, <<<<2, 5>>, <<3, -1>>, Lit(5), <<2, 7>>>>),
               Uncompressed(<<2, 8, 1>>, <<6, 7, 8>>), Verbatim(5, <<Lit(9), <<2, -1>>, <<2, 0>>>>)>>, 22, 0, TRUE),
   LzxStream(<<Verbatim(4, <<Lit(1), Lit(2), Lit(3), <<1, -2>>>>), Verbatim(4, <<<<4, 3>>>>),
               Verbatim(8, <<<<2, 0>>, <<2, 2>>, Lit(4), Lit(5), <<2, -1>>>>), Verbatim(3, <<<<2, 0>>, Lit(6)>>)>>,
             19, 2, TRUE),
   LzxStream(<<Verbatim(8, <<Lit(1), Lit(2), Lit(3), Lit(4), <<4, 4>>>>), Uncompressed(<<1, 2, 3>>, <<5, 6, 7, 8, 9>>)>>,
             13, 0, TRUE),
   LzxStream(<<Verbatim(8, <<Lit(1), Lit(2), Lit(3), <<3, 2>>, Lit(4), Lit(5)>>)>>, 8, 0, FALSE),
   LzxStream(<<Verbatim(6, <<Lit(1), Lit(2), Lit(3), Lit(4), Lit(5), Lit(6)>>),
               Verbatim(4, <<Lit(7), Lit(8), Lit(1), Lit(2)>>)>>, 10, 1, FALSE),
   LzxStream(<<Verbatim(4, <<Lit(1), Lit(2), Lit(3), Lit(4)>>)>>, 0, 0, FALSE)}
QuantumTexts ==
  {<<Lit(1), Lit(2), Lit(3), <<3, 2>>, <<2, 4>>, Lit(4), Lit(5), <<3, 1>>, <<3, 4>>, Lit(6)>>,
   <<Lit(1), Lit(2), <<3, 2>>, <<3, 3>>, Lit(7), Lit(8), Lit(9), <<3, 1>>, <<2, 4>>, <<4, 4>>>>}

Fi == INSTANCE Files WITH Listing <- <<<<".">>, <<"b">>, <<".", ".">>, <<"a", ".", "b">>>>, Opens <- {"f1", "f2"}, Buffer <- 3,
                          Masks <- {<<>>, <<"<", "dquote", "b">>, <<"A", ".", ">">>},
                          Size <- [n \in {<<"b">>, <<"a", ".", "b">>} |-> Len(n)]
Rg == INSTANCE Registry WITH Paths <- {<<"a", "b">>, <<"A", "b", "/", "a", "c">>, <<"/", "/", "a", "b", "/">>}, NKeys <- 4,
                             MaxHandles <- 1, ValueNames <- {<<"a">>, <<"A">>}
Hi == INSTANCE Hive WITH PageCells <- <<50, 16>>, HNames <- {<<1>>, <<1, 1>>}, Lengths <- {4, 12}, MaxOps <- 5
Ar == INSTANCE Archives WITH Disk <- CabinetSet, Bad <- {}, BlockMax <- 2, DecompBuf <- 2, Streams <- Searched,
                             SearchBufs <- {4, 5, 6}, Helps <- HelpFiles, ChmFrame <- 2, ReadAhead <- 2
Co == INSTANCE Codes WITH NSyms <- [zip |-> 5, lzx |-> 6], TableBits <- [zip |-> 2, lzx |-> 4], MaxBits <- 5,
                          RunLengths <- {3}, Width <- 5, Entries <- 3, FreqStep <- 2, FreqLimit <- 5, Shifts <- 2,
                          Resort <- 3
De == INSTANCE Decompressors WITH
        FrameSize <- 4, ShortMatch <- 3, Requests <- {0, 1, 3, 6}, MaxAsked <- 16,
        ZipStreams <- [input : ZipInputs, repair : BOOLEAN] \cup {[input |-> Overlong, repair |-> FALSE]},
        LzxFrame <- 4, LzxWindow <- 8, LzxStreams <- LzxTexts, LzxRequests <- {0, 1, 3, 4, 7}, LzxMax <- 24,
        QtmFrame <- 8, QtmWindow <- 4, QtmTexts <- QuantumTexts, QtmRequests <- {1, 2, 5}, QtmMax <- 20

ASSUME /\ Fi!FilesAssumption /\ Rg!RegistryAssumption /\ Hi!HiveAssumption /\ Ar!CabinetsAssumption /\ Ar!ChmAssumption
       /\ Co!HuffmanAssumption /\ Co!CoderAssumption /\ De!MszipAssumption /\ De!LzxAssumption /\ De!QuantumAssumption

MCInit ==
  /\ which \in {"files", "registry", "hive", "cabinets", "help", "huffman",
             "coder", "mszip", "lzx", "quantum"}
  /\ IF which = "files" THEN Fi!FInit
     ELSE host = 0 /\ fobj = 0 /\ port = 0 /\ flife = 0
  /\ IF which = "registry" THEN Rg!KInit
     ELSE regkey = 0 /\ khandles = 0
  /\ IF which = "hive" THEN Hi!HInit
     ELSE hive = 0 /\ hlife = 0 /\ ops = 0
  /\ IF which = "cabinets" THEN Ar!CInit
     ELSE chains = 0 /\ dec = 0 /\ last = 0 /\ found = 0 /\ clife = 0
  /\ IF which = "help" THEN Ar!ChInit
     ELSE chms = 0 /\ hd = 0 /\ extracted = 0
  /\ IF which = "huffman" THEN Co!HuInit
     ELSE tree = 0
  /\ IF which = "coder" THEN Co!QcInit
     ELSE coder = 0
  /\ IF which = "mszip" THEN De!ZInit
     ELSE zin = 0 /\ zip = 0 /\ zout = 0
  /\ IF which = "lzx" THEN De!LInit
     ELSE lin = 0 /\ lzx = 0 /\ lout = 0
  /\ IF which = "quantum" THEN De!QtInit
     ELSE qtm = 0 /\ qout = 0

filesvars == <<host, fobj, port, flife>>
registryvars == <<regkey, khandles>>
hivevars == <<hive, hlife, ops>>
cabinetsvars == <<chains, dec, last, found, clife>>
helpvars == <<chms, hd, extracted>>
huffmanvars == <<tree>>
codervars == <<coder>>
mszipvars == <<zin, zip, zout>>
lzxvars == <<lin, lzx, lout>>
quantumvars == <<qtm, qout>>
mcvars == <<which, filesvars, registryvars, hivevars, cabinetsvars, helpvars,
            huffmanvars, codervars, mszipvars, lzxvars, quantumvars>>

MCNext ==
  \/ /\ which = "files" /\ Fi!FNext
     /\ UNCHANGED <<which, registryvars, hivevars, cabinetsvars, helpvars,
                  huffmanvars, codervars, mszipvars, lzxvars, quantumvars>>
  \/ /\ which = "registry" /\ Rg!KNext
     /\ UNCHANGED <<which, filesvars, hivevars, cabinetsvars, helpvars,
                  huffmanvars, codervars, mszipvars, lzxvars, quantumvars>>
  \/ /\ which = "hive" /\ Hi!HNext
     /\ UNCHANGED <<which, filesvars, registryvars, cabinetsvars, helpvars,
                  huffmanvars, codervars, mszipvars, lzxvars, quantumvars>>
  \/ /\ which = "cabinets" /\ Ar!CNext
     /\ UNCHANGED <<which, filesvars, registryvars, hivevars, helpvars,
                  huffmanvars, codervars, mszipvars, lzxvars, quantumvars>>
  \/ /\ which = "help" /\ Ar!ChNext
     /\ UNCHANGED <<which, filesvars, registryvars, hivevars, cabinetsvars,
                  huffmanvars, codervars, mszipvars, lzxvars, quantumvars>>
  \/ /\ which = "huffman" /\ Co!HuNext
     /\ UNCHANGED <<which, filesvars, registryvars, hivevars, cabinetsvars,
                  helpvars, codervars, mszipvars, lzxvars, quantumvars>>
  \/ /\ which = "coder" /\ Co!QcNext
     /\ UNCHANGED <<which, filesvars, registryvars, hivevars, cabinetsvars,
                  helpvars, huffmanvars, mszipvars, lzxvars, quantumvars>>
  \/ /\ which = "mszip" /\ De!ZNext
     /\ UNCHANGED <<which, filesvars, registryvars, hivevars, cabinetsvars,
                  helpvars, huffmanvars, codervars, lzxvars, quantumvars>>
  \/ /\ which = "lzx" /\ De!LNext
     /\ UNCHANGED <<which, filesvars, registryvars, hivevars, cabinetsvars,
                  helpvars, huffmanvars, codervars, mszipvars, quantumvars>>
  \/ /\ which = "quantum" /\ De!QtNext
     /\ UNCHANGED <<which, filesvars, registryvars, hivevars, cabinetsvars,
                  helpvars, huffmanvars, codervars, mszipvars, lzxvars>>

MCSpec == MCInit /\ [][MCNext]_mcvars

-------------------------------------------------------------------------------
(* The registry is a tree whose keys are kept alive by their parents and   *)
(* by handles, with no two values of a key of one name, and no two keys of *)
(* a parent but by paths with doubled backslashes, through creation,       *)
(* deletion and lookup by path (reg.cpp).  The blocks of a hive tile its   *)
(* pages, and each but the root is referred to exactly once (ntreg.c:      *)
(* alloc_block, add_value, del_value, add_key, del_key and their helpers). *)
RegistryIntact ==
  /\ which = "registry" => Rg!RegistryTree /\ Rg!NamesAreUnique
  /\ which = "hive" => Hi!HiveIntact

(* What a decompressor has written is a prefix of the text, however its    *)
(* calls cut it into pieces and wherever matches cross frames and the end  *)
(* of the window; it is as long as was asked for, but for a Quantum match  *)
(* over the end of the window; and the codes are the canonical ones        *)
(* (mszipd.c, lzxd.c, qtmd.c: decompress, make_decode_table,               *)
(* update_model).                                                          *)
DecompressedIsText ==
  /\ which = "huffman" => Co!TablesAreCanonical
  /\ which = "coder" => Co!CoderIsSound
  /\ which = "mszip" => De!ZipWritesText
  /\ which = "lzx" => De!LzxWritesText
  /\ which = "quantum" => De!QtmWritesText

(* An extracted file holds what was archived, in whatever order files are  *)
(* extracted and sets joined; the search for cabinets does not depend on   *)
(* the size of its buffer (cabd_extract, cabd_merge, cabd_find,            *)
(* chmd_extract).  A directory is enumerated as it was when the scan was   *)
(* made, whatever is created and deleted meanwhile, and completely if one  *)
(* call of getdents64 returns all of it (scandir, get_next).               *)
ReadsAreTrue ==
  /\ which = "cabinets" => Ar!ExtractIsFile /\ Ar!SearchIgnoresBuffer
  /\ which = "help" => Ar!HelpExtractIsFile
  /\ which = "files" => Fi!EnumerationIsSnapshot
===============================================================================
