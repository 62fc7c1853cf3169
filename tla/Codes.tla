-------------------------------- MODULE Codes ---------------------------------
(*****************************************************************************)
(* The codes of the decompressors of libmspack: Huffman trees (MSZIP, LZX)   *)
(* and the arithmetic code of Quantum.                                       *)
(*****************************************************************************)
EXTENDS Integers, Sequences, SequencesExt, FiniteSets, FiniteSetsExt

-------------------------------------------------------------------------------
(***************************************************************************)
(* The Huffman trees of the MSZIP and LZX decompressors (libmspack/         *)
(* mszipd.c, lzxd.c): the code lengths of a block are read with runs (and,  *)
(* in LZX, as differences to the lengths of the block before), a lookup     *)
(* table is built from them, and symbols are decoded with that table.       *)
(* A tree of kind k has the symbols 0..NSyms[k]-1; a code has at most        *)
(* MaxBits bits (16 in the code), the first TableBits[k] of them are looked *)
(* up at once.                                                              *)
(***************************************************************************)
CONSTANTS NSyms, TableBits, MaxBits,
          RunLengths    \* the lengths a run of code lengths may have

\* The LZX trees have at most half as many symbols as lookup entries (lzx.h), the
\* literal tree of MSZIP has more (mszip.h).
HuffmanAssumption ==
  /\ MaxBits \in 1..16 /\ RunLengths \subseteq Nat \ {0}
  /\ \A k \in {"zip", "lzx"} : NSyms[k] \in Nat \ {0} /\ TableBits[k] \in 1..MaxBits
  /\ NSyms["lzx"] <= 2^(TableBits["lzx"] - 1)

VARIABLE tree   \* [kind, len, x, last, state, table]

Syms(kind) == 0..(NSyms[kind] - 1)
Unused == -1            \* 0xFFFF
TableMask(kind) == 2^TableBits[kind]
NoTable == [ok |-> FALSE, pos |-> 0, table |-> <<>>, next |-> 0]

HuInit == tree \in {[kind |-> k, len |-> [s \in Syms(k) |-> 0], x |-> 0, last |-> 0, state |-> "lens", table |-> NoTable] :
                      k \in {"zip", "lzx"}}

----------------------------------------------------------------------------
(* make_decode_table.                                                       *)

Bit(n, k) == (n \div 2^k) % 2
ReverseBits(n, width) == SumSet({Bit(n, k) * 2^(width - 1 - k) : k \in 0..(width - 1)})

\* The pairs the two nested loops visit, the code length outside.
Visits(n, from, to) == [k \in 1..((to - from + 1) * n) |-> <<from + (k - 1) \div n, (k - 1) % n>>]

Put(table, where, value) == [i \in DOMAIN table \cup where |-> IF i \in where THEN value ELSE table[i]]

\* A code of at most TableBits bits fills every entry its bits are a prefix of;
\* MSZIP reads bits from the low end, so its entries are reversed.
ShortEntries(kind, pos, bit_num) ==
  LET size == 2^(TableBits[kind] - bit_num)
  IN IF kind = "lzx" THEN pos..(pos + size - 1)
     ELSE {ReverseBits(pos \div size, bit_num) + j * 2^bit_num : j \in 0..(size - 1)}
ShortCode(kind, len, t, v) ==
  LET end == t.pos + 2^(TableBits[kind] - v[1])
  IN IF ~t.ok \/ len[v[2]] # v[1] THEN t
     ELSE IF end > TableMask(kind) THEN [t EXCEPT !.ok = FALSE]
     ELSE [t EXCEPT !.pos = end, !.table = Put(t.table, ShortEntries(kind, t.pos, v[1]), v[2])]

FirstLeaf(kind, pos) == IF kind = "lzx" THEN pos ELSE ReverseBits(pos, TableBits[kind])

\* The path of a longer code: an entry that no path has taken yet gets two of its own.
RECURSIVE Follow(_, _, _, _)
Follow(t, leaf, fill, bits) ==
  IF fill = bits THEN [t |-> t, leaf |-> leaf]
  ELSE LET new == t.table[leaf] = Unused
           u == IF ~new THEN t
                ELSE [t EXCEPT !.table = Put(Put(t.table, {2 * t.next, 2 * t.next + 1}, Unused), {leaf}, t.next),
                               !.next = @ + 1]
       IN Follow(u, 2 * u.table[leaf] + Bit(t.pos, 15 - fill), fill + 1, bits)
LongCode(kind, len, t, v) ==
  LET end == t.pos + 2^(16 - (v[1] - TableBits[kind]))
      walk == Follow(t, FirstLeaf(kind, t.pos \div 2^16), 0, v[1] - TableBits[kind])
  IN IF ~t.ok \/ len[v[2]] # v[1] THEN t
     ELSE IF end > TableMask(kind) * 2^16 THEN [t EXCEPT !.ok = FALSE]
     ELSE [walk.t EXCEPT !.table = Put(walk.t.table, {walk.leaf}, v[2]), !.pos = end]

\* The entry number where the pairs of longer codes begin; as a plain half of the
\* table it would run into the symbols when there are many of them.
FirstPair_half(kind) == TableMask(kind) \div 2
FirstPair(kind) == IF kind = "zip" /\ TableMask(kind) \div 2 < NSyms[kind] THEN NSyms[kind] ELSE TableMask(kind) \div 2

make_decode_table(kind, len) ==
  LET short == FoldLeft(LAMBDA t, v : ShortCode(kind, len, t, v),
                        [ok |-> TRUE, pos |-> 0, table |-> <<>>, next |-> FirstPair(kind)], Visits(NSyms[kind], 1, TableBits[kind]))
      marked == [short EXCEPT !.table = Put(@, {FirstLeaf(kind, i) : i \in short.pos..(TableMask(kind) - 1)}, Unused),
                              !.pos = @ * 2^16]
      long == FoldLeft(LAMBDA t, v : LongCode(kind, len, t, v), marked, Visits(NSyms[kind], TableBits[kind] + 1, MaxBits))
  IN IF ~short.ok \/ short.pos = TableMask(kind) THEN short
     ELSE [long EXCEPT !.ok = @ /\ (\/ long.pos = TableMask(kind) * 2^16
                                    \/ kind = "lzx" /\ \A s \in Syms(kind) : len[s] = 0)]

\* READ_HUFFSYM: the symbol the next MaxBits bits of the stream begin with.
RECURSIVE Descend(_, _, _, _, _)
Descend(kind, table, sym, i, bits) ==
  IF sym \in Syms(kind) THEN sym
  ELSE IF sym = Unused \/ i = MaxBits THEN Unused
  ELSE Descend(kind, table, table[2 * sym + bits[i + 1]], i + 1, bits)
Peek(kind, bits) ==
  SumSet({bits[k + 1] * 2^(IF kind = "lzx" THEN TableBits[kind] - 1 - k ELSE k) : k \in 0..(TableBits[kind] - 1)})
ReadHuffSym(kind, t, bits) ==
  Descend(kind, t.table, t.table[Peek(kind, bits)], TableBits[kind], bits)

----------------------------------------------------------------------------
(* Reading the lengths of a block.                                          *)

WithRun(run, l) == [s \in Syms(tree.kind) |-> IF s \in tree.x..(tree.x + run - 1) THEN l ELSE tree.len[s]]
Lens == tree.state = "lens" /\ tree.x < NSyms[tree.kind]

\* zip_read_lens: a length, or a run of the last length or of zeros, which must fit.
ZipLength(l) ==
  /\ Lens /\ tree.kind = "zip"
  /\ tree' = [tree EXCEPT !.len = WithRun(1, l), !.x = @ + 1, !.last = l]
ZipRun(run, zeros) ==
  /\ Lens /\ tree.kind = "zip"
  /\ IF tree.x + run > NSyms["zip"] THEN tree' = [tree EXCEPT !.state = "refused"]
     ELSE tree' = [tree EXCEPT !.len = WithRun(run, IF zeros THEN 0 ELSE tree.last), !.x = @ + run]

\* lzxd_read_lens: differences to the old length, modulo MaxBits + 1; a run may
\* go past the last symbol.
Delta(z) == LET d == tree.len[tree.x] - z IN IF d < 0 THEN d + MaxBits + 1 ELSE d
LzxDelta(z) ==
  /\ Lens /\ tree.kind = "lzx"
  /\ tree' = [tree EXCEPT !.len = WithRun(1, Delta(z)), !.x = @ + 1]
LzxRun(run, z, zeros) ==
  /\ Lens /\ tree.kind = "lzx"
  /\ tree' = [tree EXCEPT !.len = WithRun(run, IF zeros THEN 0 ELSE Delta(z)), !.x = Min({NSyms["lzx"], @ + run})]

\* BUILD_TABLE, or the two calls in inflate.
BuildTable ==
  /\ tree.state = "lens" /\ tree.x = NSyms[tree.kind]
  /\ LET t == make_decode_table(tree.kind, tree.len)
     IN tree' = [tree EXCEPT !.state = IF t.ok THEN "ready" ELSE "refused", !.table = t]

\* The next block: LZX keeps the lengths it has, MSZIP reads all of them again.
NextBlock ==
  /\ tree.state = "ready"
  /\ tree' = [tree EXCEPT !.state = "lens", !.x = 0, !.last = 0, !.table = NoTable]

HuNext ==
  \/ \E l \in 0..MaxBits : ZipLength(l) \/ LzxDelta(l)
  \/ \E run \in RunLengths, zeros \in BOOLEAN : ZipRun(run, zeros) \/ \E z \in 0..MaxBits : LzxRun(run, z, zeros)
  \/ BuildTable
  \/ NextBlock

HuSpec == HuInit /\ [][HuNext]_tree

----------------------------------------------------------------------------
(* What the tables must do.                                                 *)

Coded(maxlen) == {s \in Syms(tree.kind) : tree.len[s] \in 1..maxlen}
Before(s) == {r \in Coded(MaxBits) : tree.len[r] < tree.len[s] \/ (tree.len[r] = tree.len[s] /\ r < s)}
Span(s) == 2^(MaxBits - tree.len[s])
Total(syms) == MapThenSumSet(Span, syms)

\* The canonical code: read as a number, the bits of symbol s begin where the
\* codes of the symbols before it, by length and then by number, end.
Means(bits, s) ==
  LET n == SumSet({bits[k + 1] * 2^(MaxBits - 1 - k) : k \in 0..(MaxBits - 1)})
  IN s \in Coded(MaxBits) /\ n >= Total(Before(s)) /\ n < Total(Before(s)) + Span(s)

\* A table is built exactly when the codes use up all bit strings (LZX also takes
\* a tree without codes), and READ_HUFFSYM then finds, for every bit string, the
\* symbol whose canonical code it begins with: make_decode_table of both
\* decompressors against the definition of the code.
TablesAreCanonical ==
  /\ tree.state = "ready" =>
       \/ tree.kind = "lzx" /\ Coded(MaxBits) = {}
       \/ \A bits \in [1..MaxBits -> {0, 1}] : Means(bits, ReadHuffSym(tree.kind, tree.table, bits))
  /\ tree.state = "refused" /\ tree.x = NSyms[tree.kind] => Total(Coded(MaxBits)) # 2^MaxBits

-------------------------------------------------------------------------------
(***************************************************************************)
(* The arithmetic decoder of the Quantum decompressor (libmspack/qtmd.c):   *)
(* an interval L..H that narrows around the code C with every symbol, and a *)
(* model of the symbols' frequencies that adapts.                           *)
(***************************************************************************)
CONSTANTS Width,        \* bits of H, L and C (16)
          Entries,      \* symbols of the model
          FreqStep, FreqLimit,  \* 8 and 3800
          Shifts, Resort        \* shiftsleft at the start (4) and after a sort (50)

CoderAssumption ==
  /\ {Width, Entries, FreqStep, Shifts, Resort} \subseteq Nat \ {0}
  /\ FreqLimit + FreqStep < 2^(Width - 2) /\ Entries <= FreqLimit

VARIABLE coder          \* [H, L, C, model]

----------------------------------------------------------------------------
(* The arithmetic decoder.                                                  *)

Word == 2^Width
Top == 2^(Width - 1)
Quarter == 2^(Width - 2)
High(x) == x >= Top
Second(x) == x % Top >= Quarter

\* qtmd_init_model.
init_model == [shiftsleft |-> Shifts, sym |-> [i \in 0..Entries |-> i], cum |-> [i \in 0..Entries |-> Entries - i]]

\* qtmd_update_model: halve the cumulated frequencies but keep them apart ...
RECURSIVE Halved_equal(_, _)
Halved_equal(cum, i) == IF i < 0 THEN cum ELSE Halved_equal([cum EXCEPT ![i] = cum[i] \div 2], i - 1)
RECURSIVE Halved(_, _)
Halved(cum, i) ==
  IF i < 0 THEN cum
  ELSE Halved([cum EXCEPT ![i] = Max({cum[i] \div 2, cum[i + 1] + 1})], i - 1)

\* ... or, now and then, sort the symbols by frequency; by exchanges, so that equal
\* ones end in the order the compressor has them in.
RECURSIVE Exchange(_, _, _)
Exchange(m, i, j) ==
  IF i = Entries - 1 THEN m
  ELSE IF j = Entries THEN Exchange(m, i + 1, i + 2)
  ELSE IF m.cum[i] >= m.cum[j] THEN Exchange(m, i, j + 1)
  ELSE Exchange([m EXCEPT !.cum[i] = m.cum[j], !.cum[j] = m.cum[i], !.sym[i] = m.sym[j], !.sym[j] = m.sym[i]], i, j + 1)
RECURSIVE Cumulate(_, _)
Cumulate(cum, i) == IF i < 0 THEN cum ELSE Cumulate([cum EXCEPT ![i] = cum[i] + cum[i + 1]], i - 1)

update_model(m) ==
  IF m.shiftsleft > 1 THEN [m EXCEPT !.shiftsleft = @ - 1, !.cum = Halved(m.cum, Entries - 1)]
  ELSE LET freq == [i \in 0..Entries |-> IF i = Entries THEN m.cum[i] ELSE (m.cum[i] - m.cum[i + 1] + 1) \div 2]
           s == Exchange([m EXCEPT !.shiftsleft = Resort, !.cum = freq], 0, 1)
       IN [s EXCEPT !.cum = Cumulate(s.cum, Entries - 1)]

\* The while loop of GET_SYMBOL: shift out the bits L and H agree on, and those
\* that keep the two close to the middle from both sides.
Under(c) == High(c.L) # High(c.H) /\ Second(c.L) /\ ~Second(c.H)
Shifting(c) == High(c.L) = High(c.H) \/ Under(c)
Shift(c, bit) ==
  LET d == IF Under(c) THEN [c EXCEPT !.C = IF Second(c.C) THEN c.C - Quarter ELSE c.C + Quarter,
                                      !.L = c.L % Quarter, !.H = c.H + Quarter]
           ELSE c
  IN [d EXCEPT !.L = (2 * d.L) % Word, !.H = (2 * d.H + 1) % Word, !.C = (2 * d.C + bit) % Word]
RECURSIVE Normalised(_)
Normalised(cs) ==
  IF \A c \in cs : ~Shifting(c) THEN cs ELSE Normalised({Shift(c, bit) : c \in cs, bit \in {0, 1}})

\* GET_SYMBOL, whatever bits follow in the input.
GetSymbol ==
  LET m == coder.model
      range == coder.H - coder.L + 1
      symf == ((coder.C - coder.L + 1) * m.cum[0] - 1) \div range
      i == Min({k \in 1..Entries : m.cum[k] <= symf} \cup {Entries})
      cum == [k \in 0..Entries |-> IF k < i THEN m.cum[k] + FreqStep ELSE m.cum[k]]
      next == [m EXCEPT !.cum = cum]
      narrow == [H |-> coder.L + (m.cum[i - 1] * range) \div m.cum[0] - 1,
                 L |-> coder.L + (m.cum[i] * range) \div m.cum[0],
                 C |-> coder.C,
                 model |-> IF cum[0] > FreqLimit THEN update_model(next) ELSE next]
  IN coder' \in Normalised({narrow})

\* The header of a frame.
ReadHeader(code) == coder' = [coder EXCEPT !.H = Word - 1, !.L = 0, !.C = code]

\* qtmd_init and the first header.
QcInit == coder \in {[H |-> Word - 1, L |-> 0, C |-> c, model |-> init_model] : c \in 0..(Word - 1)}

QcNext ==
  \/ GetSymbol
  \/ \E code \in 0..(Word - 1) : ReadHeader(code)

QcSpec == QcInit /\ [][QcNext]_coder

\* GET_SYMBOL always finds the symbol the code stands for: the code stays between
\* L and H, every symbol keeps a share of the interval of its own, and the total of
\* the frequencies stays small enough for the width of the numbers, through every
\* halving and every sort of qtmd_update_model.
CoderIsSound ==
  LET m == coder.model
  IN /\ coder.L <= coder.C /\ coder.C <= coder.H
     /\ coder.H - coder.L + 1 > m.cum[0]
     /\ m.cum[Entries] = 0 /\ \A i \in 0..(Entries - 1) : m.cum[i] > m.cum[i + 1]
     /\ {m.sym[i] : i \in 0..(Entries - 1)} = 0..(Entries - 1)
===============================================================================
