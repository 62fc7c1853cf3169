------------------------------- MODULE Archives -------------------------------
(*****************************************************************************)
(* The archives that libmspack extracts files from: cabinets and compiled    *)
(* help files.                                                               *)
(*****************************************************************************)
EXTENDS Integers, Sequences, SequencesExt, FiniteSets, FiniteSetsExt

-------------------------------------------------------------------------------
(***************************************************************************)
(* Cabinet files (libmspack/cabd.c): cabinets of a set are opened, joined   *)
(* and closed, files of a joined set are extracted with the decompression   *)
(* state kept between calls, and a file is searched for cabinets.  Blocks   *)
(* are short sequences of bytes; a folder is stored uncompressed (noned_)   *)
(* or with a method that is not known.                                      *)
(***************************************************************************)
CONSTANTS Disk,         \* cabinet -> [folders, files]; what cabd_read_headers finds
          Bad,          \* <<cabinet, folder, block>>: blocks with a wrong checksum
          BlockMax,     \* bytes of a block (CAB_BLOCKMAX)
          DecompBuf,    \* MSCABD_PARAM_DECOMPBUF
          Streams,      \* files to search, sequences of bytes
          SearchBufs    \* values of MSCABD_PARAM_SEARCHBUF

CabinetsAssumption == {BlockMax, DecompBuf} \cup SearchBufs \subseteq Nat \ {0}

VARIABLES chains,       \* set of [cabs, folders, files]: cabinets that share their lists
          dec,          \* this->d, the decompression state
          last,         \* the last extraction: [file, status, out]
          found,        \* the last search: [stream, cabs]
          clife         \* "ok" or "crash"

cvars == <<chains, dec, last, found, clife>>

NoFolder == <<"none", 0>>
NoCab == "none"
\* part is the place of d->data in the list of the folder, 0 behind its end.
NoData == [folder |-> NoFolder, part |-> 0, offset |-> 0, block |-> 0, pos |-> 1, input |-> <<>>,
           infh |-> NoCab, state |-> FALSE]
NoFile == [name |-> "none", folder |-> NoFolder, offset |-> 0, length |-> 0]
Nowhere == [file |-> NoFile, status |-> "ok", out |-> <<>>]
NoSearch == [stream |-> <<>>, cabs |-> <<>>]

CInit == /\ chains = {} /\ dec = NoData /\ last = Nowhere /\ found = NoSearch /\ clife = "ok"

----------------------------------------------------------------------------
(* Opening and joining.                                                     *)

Opened == UNION {ToSet(ch.cabs) : ch \in chains}

\* cabd_read_headers: folder n of cabinet c; a file that is continued names the
\* last or the first folder and marks it for merging.
Folder(c, n) ==
  LET f == Disk[c].folders[n]
      cont(kinds) == SelectSeq(Disk[c].files, LAMBDA x : x.cont \in kinds /\ x.folder = n)
  IN [id |-> <<c, n>>, comp |-> f.comp, num_blocks |-> Len(f.blocks), data |-> <<<<c, n>>>>,
      merge_prev |-> cont({"prev", "both"}) # <<>>, merge_next |-> cont({"next", "both"}) # <<>>]
Headers(c) ==
  [cabs    |-> <<c>>,
   folders |-> [n \in 1..Len(Disk[c].folders) |-> Folder(c, n)],
   files   |-> [i \in 1..Len(Disk[c].files) |->
                  LET x == Disk[c].files[i]
                  IN [name |-> x.name, folder |-> <<c, x.folder>>, offset |-> x.offset, length |-> x.length]]]

\* cabd_open.
Open(c) ==
  /\ c \notin Opened
  /\ chains' = chains \cup {Headers(c)}
  /\ found' = NoSearch
  /\ last' = Nowhere
  /\ UNCHANGED <<dec, clife>>

\* The files from the first one that is continued on.
Continued(files, fol, c, kinds) ==
  LET from == {i \in 1..Len(files) : files[i].folder = fol /\
                  \E x \in ToSet(Disk[c].files) : x.name = files[i].name /\ x.cont \in kinds}
  IN IF from = {} THEN <<>> ELSE SubSeq(files, Min(from), Len(files))

\* Mutant of cabd_merge: the parts of the folder are swapped.
MergeData_swapped(lfol, rfol) == rfol.data \o lfol.data

\* rfol's data is appended to lfol's.
MergeData(lfol, rfol) == lfol.data \o rfol.data

\* cabd_merge, the case of a folder that both cabinets share.
Merged(lch, rch) ==
  LET lfol == Last(lch.folders)
      rfol == rch.folders[1]
      fol  == [lfol EXCEPT !.num_blocks = @ + rfol.num_blocks - 1,
                           !.data = MergeData(lfol, rfol),
                           !.merge_next = IF rfol.merge_prev /\ rfol.merge_next THEN @ ELSE rfol.merge_next]
  IN [cabs    |-> lch.cabs \o rch.cabs,
      folders |-> Append(Front(lch.folders), fol) \o Tail(rch.folders),
      files   |-> lch.files \o SelectSeq(rch.files, LAMBDA x : x.folder # rfol.id)]

\* The files that continue must have the same offsets in both cabinets.
SameFiles(lch, rch) ==
  LET l == Continued(lch.files, Last(lch.folders).id, Last(lch.folders).id[1], {"next", "both"})
      r == Continued(rch.files, rch.folders[1].id, rch.folders[1].id[1], {"prev", "both"})
  IN Len(l) <= Len(r) /\ \A i \in 1..Len(l) : l[i].offset = r[i].offset

\* cabd_append, cabd_prepend: the last cabinet of one set, the first of another.
\* A folder that is being extracted from goes on with the longer list.
Join(lch, rch) ==
  /\ lch \in chains /\ rch \in chains /\ lch # rch
  /\ LET lfol == Last(lch.folders)
         rfol == rch.folders[1]
         plain == ~lfol.merge_next /\ ~rfol.merge_prev
         fits == lfol.merge_next /\ rfol.merge_prev /\ lfol.comp = rfol.comp /\ SameFiles(lch, rch)
     IN \/ /\ plain
           /\ chains' = (chains \ {lch, rch}) \cup
                {[cabs |-> lch.cabs \o rch.cabs, folders |-> lch.folders \o rch.folders,
                  files |-> lch.files \o rch.files]}
        \/ fits /\ chains' = (chains \ {lch, rch}) \cup {Merged(lch, rch)}
  /\ found' = NoSearch
  /\ last' = Nowhere
  /\ UNCHANGED <<dec, clife>>

\* cabd_close of the set of a cabinet, with the state of a folder of the set.
Close(ch) ==
  /\ ch \in chains
  /\ chains' = chains \ {ch}
  /\ dec' = IF \E i \in 1..Len(ch.folders) : ch.folders[i].id = dec.folder THEN NoData ELSE dec
  /\ last' = Nowhere
  /\ found' = NoSearch
  /\ UNCHANGED clife

----------------------------------------------------------------------------
(* Extracting.                                                              *)

\* cabd_sys_read_block: one block, put together from its parts in the
\* cabinets that share it.  err is "ok" or what went wrong.
RECURSIVE read_block(_, _, _)
read_block(fol, d, got) ==
  LET part == fol.data[d.part]
      blocks == Disk[part[1]].folders[part[2]].blocks
      b == blocks[d.pos]
      d1 == [d EXCEPT !.pos = @ + 1]
      next == [d1 EXCEPT !.part = IF @ < Len(fol.data) THEN @ + 1 ELSE 0, !.pos = 1, !.infh = NoCab]
  IN IF d.infh = NoCab \/ d.pos > Len(blocks) THEN [d |-> [d EXCEPT !.input = <<>>], err |-> "read"]
     ELSE IF <<part[1], part[2], d.pos>> \in Bad THEN [d |-> [d1 EXCEPT !.input = <<>>], err |-> "checksum"]
     ELSE IF b.out # 0 THEN [d |-> [d1 EXCEPT !.input = got \o b.bytes], err |-> "ok"]
     ELSE IF next.part = 0 THEN [d |-> [next EXCEPT !.input = <<>>], err |-> "dataformat"]
     ELSE read_block(fol, [next EXCEPT !.infh = fol.data[next.part][1]], got \o b.bytes)

\* No folder has more blocks than all the cabinets together.
AllBlocks == FoldSet(LAMBDA c, n : n + FoldSeq(LAMBDA f, m : m + Len(f.blocks), 0, Disk[c].folders), 0, DOMAIN Disk)

\* cabd_sys_read of n bytes.  The count of blocks stops above AllBlocks.
RECURSIVE sys_read(_, _, _, _)
sys_read(fol, d, n, got) ==
  LET counted == [d EXCEPT !.block = Min({@ + 1, AllBlocks + 1})]
      r == read_block(fol, counted, <<>>)
  IN IF n = 0 THEN [d |-> d, bytes |-> got, err |-> "ok"]
     ELSE IF d.input # <<>>
       THEN LET k == Min({n, Len(d.input)})
            IN sys_read(fol, [d EXCEPT !.input = SubSeq(@, k + 1, Len(@))], n - k, got \o SubSeq(d.input, 1, k))
     ELSE IF d.block >= fol.num_blocks THEN [d |-> counted, bytes |-> got, err |-> "dataformat"]
     ELSE IF r.err # "ok" THEN [d |-> r.d, bytes |-> got, err |-> r.err]
     ELSE sys_read(fol, r.d, n, got)

\* noned_decompress: runs of at most DecompBuf bytes, each written when it is
\* complete (cabd_sys_write).
RECURSIVE noned_decompress(_, _, _, _)
noned_decompress(fol, d, n, out) ==
  LET run == Min({n, DecompBuf})
      r == sys_read(fol, d, run, <<>>)
  IN IF n = 0 THEN [d |-> d, out |-> out, err |-> "ok"]
     ELSE IF r.err # "ok" THEN [d |-> r.d, out |-> out, err |-> r.err]
     ELSE noned_decompress(fol, [r.d EXCEPT !.offset = @ + run], n - run, out \o r.bytes)

\* cabd_extract, first half: another folder, or an earlier place in it.
Start(fol) == [NoData EXCEPT !.folder = fol.id, !.part = 1, !.infh = fol.data[1][1], !.state = TRUE]

\* cabd_extract.  A folder with an unknown method fails in cabd_init_decomp,
\* when the old decompressor is gone and the old folder still noted.
Extract(ch, x) ==
  LET fol   == CHOOSE f \in ToSet(ch.folders) : f.id = x.folder
      again == dec.folder # fol.id \/ dec.offset > x.offset
      d     == IF again THEN Start(fol) ELSE dec
      skip  == noned_decompress(fol, d, x.offset - d.offset, <<>>)
      r     == IF skip.err = "ok" THEN noned_decompress(fol, skip.d, x.length, <<>>) ELSE [skip EXCEPT !.out = <<>>]
      result(s, o) == last' = [file |-> x, status |-> s, out |-> o]
  IN /\ clife = "ok" /\ ch \in chains /\ x \in ToSet(ch.files)
     /\ \/ /\ fol.merge_prev \/ (x.offset + x.length) \div BlockMax > fol.num_blocks
           /\ result("dataformat", <<>>)
           /\ UNCHANGED <<dec, clife>>
        \/ /\ ~fol.merge_prev /\ (x.offset + x.length) \div BlockMax <= fol.num_blocks
           /\ \/ /\ again /\ fol.comp # "none"
                 /\ dec' = [dec EXCEPT !.infh = fol.data[1][1], !.state = FALSE]
                 /\ result("dataformat", <<>>)
                 /\ UNCHANGED clife
              \/ /\ ~again /\ ~dec.state /\ x.length # 0
                 /\ clife' = "crash"
                 /\ UNCHANGED <<dec, last>>
              \/ /\ again => fol.comp = "none"
                 /\ again \/ dec.state \/ x.length = 0
                 /\ dec' = IF x.length = 0 THEN d ELSE r.d
                 /\ result(IF x.length = 0 THEN "ok" ELSE r.err, IF x.length = 0 THEN <<>> ELSE r.out)
                 /\ UNCHANGED clife
     /\ found' = NoSearch
     /\ UNCHANGED chains

----------------------------------------------------------------------------
(* Searching.  The header is its signature and one byte with the length of  *)
(* the cabinet; the byte after it says whether the rest can be read.        *)

Signature == <<77, 83, 67, 70>>
Readable == 1

\* Mutant of CabOffset: a header is taken to lie in one buffer.
CabOffset_inside(offset, p) == offset + Max({p - 4, 0})

\* Where the header began whose last byte is byte p of the buffer at offset.
CabOffset(offset, p) == offset + p - 4

\* cabd_find: offset is where the buffer begins, p the next byte in it, state
\* how much of a header was seen.  length is the size of the buffer.
RECURSIVE cabd_find(_, _, _, _, _, _)
cabd_find(s, bufsize, offset, p, state, cabs) ==
  LET length == Min({Len(s) - offset, bufsize})
      byte   == s[offset + p + 1]
      caboff == CabOffset(offset, p)
      cablen == byte
      likely == caboff + cablen <= Len(s) /\ cablen > 4
      good   == likely /\ caboff + 6 <= Len(s) /\ s[caboff + 6] = Readable
      next   == IF good THEN caboff + cablen ELSE caboff + 4
  IN IF offset >= Len(s) THEN cabs
     ELSE IF p >= length THEN cabd_find(s, bufsize, offset + length, 0, state, cabs)
     ELSE IF state < 4
       THEN cabd_find(s, bufsize, offset, p + 1, IF byte = Signature[state + 1] THEN state + 1 ELSE 0, cabs)
     ELSE cabd_find(s, bufsize, next, 0, 0, IF good THEN Append(cabs, caboff) ELSE cabs)

\* cabd_search, with a buffer of the given size.
Search(s, bufsize) ==
  /\ s \in Streams /\ bufsize \in SearchBufs
  /\ found' = [stream |-> s, cabs |-> cabd_find(s, bufsize, 0, 0, 0, <<>>)]
  /\ last' = Nowhere
  /\ UNCHANGED <<chains, dec, clife>>

CNext ==
  \/ \E c \in DOMAIN Disk : Open(c)
  \/ \E l, r \in chains : Join(l, r)
  \/ \E ch \in chains : Close(ch) \/ \E x \in ToSet(ch.files) : Extract(ch, x)
  \/ \E s \in Streams, n \in SearchBufs : Search(s, n)

CSpec == CInit /\ [][CNext]_cvars

----------------------------------------------------------------------------
\* What a file holds: its folder with all the parts the set has of it.
RECURSIVE Parts(_, _)
Parts(c, n) ==
  LET more == n = Len(Disk[c].folders) /\ Folder(c, n).merge_next
      after == CHOOSE d \in DOMAIN Disk : Disk[d].after = c
  IN FlattenSeq([i \in 1..Len(Disk[c].folders[n].blocks) |-> Disk[c].folders[n].blocks[i].bytes]) \o
     (IF more THEN Parts(after, 1) ELSE <<>>)
RECURSIVE First(_)
First(fol) == IF fol[2] = 1 /\ Folder(fol[1], 1).merge_prev
              THEN First(<<Disk[fol[1]].after, Len(Disk[Disk[fol[1]].after].folders)>>) ELSE fol
Content(x) == SubSeq(Parts(First(x.folder)[1], First(x.folder)[2]), x.offset + 1, x.offset + x.length)

\* A file that cabd_extract reports as extracted holds exactly its bytes,
\* whatever was extracted, joined or closed before, also when it lies in parts
\* in several cabinets (cabd_merge, cabd_sys_read_block).
ExtractIsFile == last.file # NoFile /\ last.status = "ok" => last.out = Content(last.file)

\* What a search finds does not depend on the size of its buffer (cabd_find).
SearchIgnoresBuffer == found.cabs = cabd_find(found.stream, Len(found.stream) + 1, 0, 0, 0, <<>>)

\* The cabinets of a stream, each looked for after the end of the one before.
RECURSIVE AllCabs(_, _)
AllCabs(s, from) ==
  LET at == {o \in from..(Len(s) - 6) : SubSeq(s, o + 1, o + 4) = Signature /\ s[o + 6] = Readable
                                        /\ s[o + 5] > 4 /\ o + s[o + 5] <= Len(s)}
  IN IF at = {} THEN <<>> ELSE <<Min(at)>> \o AllCabs(s, Min(at) + s[Min(at) + 5])
\* A search finds every cabinet of the file.
SearchFindsAll == found.cabs = AllCabs(found.stream, 0)

-------------------------------------------------------------------------------
(***************************************************************************)
(* Compiled help files (libmspack/chmd.c): the directory of a help file is  *)
(* read, and its files are extracted in any order, copied from section 0 or *)
(* decompressed from section 1 with a stream that is kept between calls and *)
(* restarted at a reset point when it has gone too far.  A help file on     *)
(* disk is a sequence of cells: a cell of section 0 is one byte <<b>>, one  *)
(* of the compressed content is an LZX frame, given by its text.            *)
(***************************************************************************)
CONSTANTS Helps,        \* help file -> [entries, cells, sec0, reset, length, table, version]
          ChmFrame,     \* LZX_FRAME_SIZE
          ReadAhead     \* cells the decompressor reads at once

ChmAssumption == {ChmFrame, ReadAhead} \subseteq Nat \ {0}

VARIABLES chms,         \* help file -> its header, or Closed
          hd,            \* the decompression state, this->d
          extracted     \* the last extraction: [help, file, status, out]

chvars == <<chms, hd, extracted>>

Closed == [open |-> FALSE]
NoStream == [on |-> FALSE, buffer |-> <<>>, avail |-> <<>>, frame |-> 0, offset |-> 0, length |-> 0]
NoHelp == "none"
NoD == [chm |-> NoHelp, offset |-> 0, inoffset |-> 0, tell |-> 0, state |-> NoStream]
Idle == [help |-> NoHelp, file |-> "none", status |-> "ok", out |-> <<>>]

ChInit == /\ chms = [h \in DOMAIN Helps |-> Closed] /\ hd = NoD /\ extracted = Idle

----------------------------------------------------------------------------
(* Opening.                                                                 *)

\* chmd_read_headers: entries with neither offset nor length stand for directories,
\* those of other sections are skipped; system files are listed apart, three of
\* them are remembered.  A fast open reads no entries.
read_headers(h, entire) ==
  LET real == SelectSeq(Helps[h].entries, LAMBDA e : ~(e.offset = 0 /\ e.length = 0) /\ e.section \in {0, 1})
      entries == IF entire THEN real ELSE <<>>
      sys == SelectSeq(entries, LAMBDA e : e.sys)
  IN [open |-> TRUE, files |-> SelectSeq(entries, LAMBDA e : ~e.sys), sysfiles |-> Reverse(sys),
      has |-> {e.name : e \in ToSet(sys)} \cap {"content", "control", "rtable"}]

ChmOpen(h, entire) ==
  /\ ~chms[h].open
  /\ chms' = [chms EXCEPT ![h] = read_headers(h, entire)]
  /\ extracted' = Idle /\ UNCHANGED hd

\* chmd_close: the decompression state goes with the help file it is for.
ChmClose(h) ==
  /\ chms[h].open
  /\ chms' = [chms EXCEPT ![h] = Closed]
  /\ hd' = IF hd.chm = h THEN NoD ELSE hd
  /\ extracted' = Idle

----------------------------------------------------------------------------
(* The stream of section 1.                                                 *)

SysFile(h, name) == chms[h].sysfiles[SelectInSeq(chms[h].sysfiles, LAMBDA e : e.name = name)]

\* chmd_init_decomp: the nearest reset point below the file.  chmd_fast_find knows
\* no file, so that all three system files must have been read with the headers.
ResetPoint(h, file) == file.offset \div Helps[h].reset
init_decomp(v, h, file) ==
  LET x == Helps[h]
      entry == ResetPoint(h, file) * (x.reset \div ChmFrame)
      padded == ((x.length + x.reset - 1) \div x.reset) * x.reset
      offset == entry * ChmFrame
  IN IF chms[h].has # {"content", "control", "rtable"} \/ x.version \notin {1, 2} \/ entry >= Len(x.table)
       THEN [v EXCEPT !.state = NoStream]
     ELSE [v EXCEPT !.offset = offset,
                    !.inoffset = x.sec0 + SysFile(h, "content").offset + x.table[entry + 1],
                    !.state = [NoStream EXCEPT !.on = TRUE, !.length = padded - offset]]

\* lzxd_decompress (Lzx.tla), reading from where the file is; r is [v, h, left,
\* out, ok], keep says whether chmd_sys_write writes or only counts.
Give(r, n, keep) ==
  [r EXCEPT !.v.state.avail = SubSeq(@, n + 1, Len(@)), !.v.state.offset = @ + n, !.v.offset = @ + n, !.left = @ - n,
            !.out = IF keep THEN @ \o SubSeq(r.v.state.avail, 1, n) ELSE @]
Refill(v, h) ==
  IF v.state.buffer # <<>> THEN v
  ELSE LET n == Min({ReadAhead, Len(Helps[h].cells) - v.tell})
       IN [v EXCEPT !.state.buffer = [i \in 1..n |-> Helps[h].cells[v.tell + i]], !.tell = @ + n]
RECURSIVE LzxRun(_, _, _)
LzxRun(r, end_frame, keep) ==
  LET size == Min({ChmFrame, r.v.state.length - r.v.state.offset})
      v == IF size = 0 THEN r.v ELSE Refill(r.v, r.h)
      bad == size > 0 /\ (v.state.buffer = <<>> \/ Len(Head(v.state.buffer)) # ChmFrame)
      full == IF size = 0 THEN v
              ELSE [v EXCEPT !.state.avail = SubSeq(Head(v.state.buffer), 1, size), !.state.buffer = Tail(@)]
  IN IF r.v.state.frame >= end_frame \/ ~r.ok THEN [r EXCEPT !.ok = @ /\ r.left = 0]
     ELSE IF bad THEN [r EXCEPT !.v = v, !.ok = FALSE]
     ELSE LzxRun(Give([r EXCEPT !.v = [full EXCEPT !.state.frame = @ + 1]], Min({r.left, size}), keep), end_frame, keep)
lzxd_decompress(v, h, n, keep) ==
  LET first == Give([v |-> v, h |-> h, left |-> n, out |-> <<>>, ok |-> TRUE], Min({n, Len(v.state.avail)}), keep)
  IN IF first.left = 0 THEN first
     ELSE LzxRun(first, (first.v.state.offset + first.left) \div ChmFrame + 1, keep)

----------------------------------------------------------------------------
(* Extraction.                                                              *)

Done(h, file, v, status, out) ==
  /\ hd' = v
  /\ extracted' = [help |-> h, file |-> file.name, status |-> status, out |-> out]
  /\ UNCHANGED chms

\* The input file is opened again for another help file.
ChmState(h) == IF hd.chm = h THEN hd ELSE [NoD EXCEPT !.chm = h]

\* Section 0: seek and copy.
ExtractStored(h, file) ==
  LET from == Helps[h].sec0 + file.offset
      n == Min({file.length, Len(Helps[h].cells) - from})
      out == [i \in 1..n |-> Helps[h].cells[from + i]]
  IN Done(h, file, [ChmState(h) EXCEPT !.tell = from + n], IF n = file.length THEN "ok" ELSE "read", out)

\* The position in the input is not kept by files of section 0.
Resume_there(u) == IF u.state.frame = 0 THEN [u EXCEPT !.tell = u.inoffset] ELSE u
Resume(u) == [u EXCEPT !.tell = u.inoffset]

\* Section 1: restart if need be, seek to where the stream was left, skip, unpack;
\* a stream that failed is given up.
ExtractCompressed(h, file) ==
  LET again == ~ChmState(h).state.on \/ file.offset < ChmState(h).offset
      u == IF again THEN init_decomp(ChmState(h), h, file) ELSE ChmState(h)
      s == Resume(u)
      skip == lzxd_decompress(s, h, file.offset - s.offset, FALSE)
      unpack == IF skip.ok THEN lzxd_decompress(skip.v, h, file.length, TRUE) ELSE skip
      v == [unpack.v EXCEPT !.inoffset = unpack.v.tell]
  IN IF again /\ ~u.state.on THEN Done(h, file, u, "dataformat", <<>>)
     ELSE IF unpack.ok THEN Done(h, file, v, "ok", unpack.out)
     ELSE Done(h, file, [v EXCEPT !.state = NoStream], "decrunch", unpack.out)

ChmExtract(h, file) ==
  /\ chms[h].open
  /\ \/ file.length = 0 /\ Done(h, file, ChmState(h), "ok", <<>>)
     \/ file.length > 0 /\ file.section = 0 /\ ExtractStored(h, file)
     \/ file.length > 0 /\ file.section = 1 /\ ExtractCompressed(h, file)

\* The files a caller may ask for: those listed, or, of a fast open, any entry.
Known(h) == IF chms[h].has = {} THEN ToSet(Helps[h].entries) ELSE ToSet(chms[h].files) \cup ToSet(chms[h].sysfiles)

ChNext == \E h \in DOMAIN Helps :
  \/ \E entire \in BOOLEAN : ChmOpen(h, entire)
  \/ ChmClose(h)
  \/ chms[h].open /\ \E file \in Known(h) : ChmExtract(h, file)

ChSpec == ChInit /\ [][ChNext]_chvars

----------------------------------------------------------------------------
(* Properties.                                                              *)

Entry(h, name) == CHOOSE e \in ToSet(Helps[h].entries) : e.name = name
ContentText(h) ==
  LET first == Helps[h].sec0 + Entry(h, "content").offset
  IN FlattenSeq([i \in 1..Len(Helps[h].table) |-> Helps[h].cells[first + Helps[h].table[i] + 1]])
FileText(h, e) ==
  IF e.section = 0 THEN SubSeq(Helps[h].cells, Helps[h].sec0 + e.offset + 1, Helps[h].sec0 + e.offset + e.length)
  ELSE SubSeq(ContentText(h), e.offset + 1, e.offset + e.length)

\* Whatever was extracted before, from this help file or another, chmd_extract
\* writes the bytes of the file it was asked for, or reports an error: the stream
\* goes on, skips and restarts at the right places although other files move the
\* position in the input.
HelpExtractIsFile ==
  extracted.status = "ok" /\ extracted.help # NoHelp =>
    extracted.out = FileText(extracted.help, Entry(extracted.help, extracted.file))
===============================================================================
