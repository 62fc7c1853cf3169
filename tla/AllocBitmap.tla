---------------------------- MODULE AllocBitmap ----------------------------
(***************************************************************************)
(* allocation_bitmap_t (alloc_bitmap.cpp): first-fit allocation in a shared *)
(* area, one bit for each 8 bytes, the length of a block in a header before *)
(* it.  Windows, classes and message maps live in such an area, and so do   *)
(* the shared parts of device contexts.                                     *)
(***************************************************************************)
EXTENDS Integers, FiniteSets, FiniteSetsExt

CONSTANTS MaxBits,    \* max_bits of the area
          Sizes       \* sizes of the blocks that are asked for, in bytes

AllocAssumption == MaxBits \in Nat \ {0} /\ MaxBits % 8 = 0 /\ Sizes \subseteq Nat

VARIABLES bitmap,     \* the bits that are set
          ablocks,    \* blocks handed out: [at, len], at in units of 8 bytes
          alife       \* "up"; "last bit" or "assert" when the assert of set_bits or
                      \* one of free has failed

avars == <<bitmap, ablocks, alife>>

Granularity == 8
HeaderSize == 4
NoRoom == -1
Dies == -2
Bits == 0..(MaxBits - 1)
Zone(start, count) == start..(start + count - 1)

\* set_area
AInit == bitmap = {} /\ ablocks = {} /\ alife = "up"

bits_required(len) == (len + HeaderSize + Granularity - 1) \div Granularity

\* count_zero_bits and count_one_bits: the length of the run from start, at most max.
CountRun(stop, start, max) ==
  LET limit == IF max > MaxBits - start THEN MaxBits - start ELSE max
  IN Min({i \in 0..limit : i = limit \/ start + i \in stop})
count_zero_bits(bm, start, max) == CountRun(bm, start, max)
count_one_bits(bm, start, max) == CountRun(Bits \ bm, start, max)

\* Mutant of Search: after a run that is too short the used bits are not skipped in full.
Search_short(bm, required) ==
  LET From[i \in 0..MaxBits] ==
        IF i = MaxBits THEN NoRoom
        ELSE LET free == count_zero_bits(bm, i, required)
             IN IF free = required THEN i
                ELSE IF i + free + required > MaxBits THEN NoRoom
                ELSE From[i + free + 2]
  IN From[0]

\* The loop of alloc: over runs of zeros and of ones, to the first run of zeros
\* that is long enough.
Search(bm, required) ==
  LET From[i \in 0..MaxBits] ==
        IF i = MaxBits THEN NoRoom
        ELSE LET free == count_zero_bits(bm, i, required)
                 used == count_one_bits(bm, i + free, MaxBits - (i + free))
             IN IF free = required THEN i
                ELSE IF i + free = MaxBits THEN NoRoom
                ELSE From[i + free + used]
  IN From[0]

\* Mutant of alloc: the header is not counted when the bits are set.
alloc_noheader(len) ==
  LET at == Search(bitmap, bits_required(len))
  IN /\ alife = "up" /\ at # NoRoom /\ at + bits_required(len) < MaxBits
     /\ bitmap' = bitmap \cup Zone(at, bits_required(len - HeaderSize))
     /\ ablocks' = ablocks \cup {[at |-> at, len |-> len]}
     /\ UNCHANGED alife

\* Where alloc puts a block.  set_bits asserts that it ends before the last bit.
Placed(bm, required) ==
  LET at == Search(bm, required)
  IN IF at # NoRoom /\ at + required >= MaxBits THEN Dies ELSE at

\* alloc; without room it returns NULL.
alloc(len) ==
  LET required == bits_required(len)
      at == Placed(bitmap, required)
  IN /\ alife = "up" /\ at # NoRoom
     /\ IF at # Dies
        THEN /\ bitmap' = bitmap \cup Zone(at, required)
             /\ ablocks' = ablocks \cup {[at |-> at, len |-> len]}
             /\ UNCHANGED alife
        ELSE alife' = "last bit" /\ UNCHANGED <<bitmap, ablocks>>

\* free of a block with its length.
free(b) ==
  /\ alife = "up"
  /\ IF /\ count_one_bits(bitmap, b.at, bits_required(b.len)) = bits_required(b.len)
        /\ b.at + bits_required(b.len) < MaxBits
     THEN /\ bitmap' = bitmap \ Zone(b.at, bits_required(b.len))
          /\ ablocks' = ablocks \ {b}
          /\ UNCHANGED alife
     ELSE alife' = "assert" /\ UNCHANGED <<bitmap, ablocks>>

ANext == (\E len \in Sizes : alloc(len)) \/ (\E b \in ablocks : free(b))
ASpec == AInit /\ [][ANext]_avars

\* get_info: the bits counted in alternate runs of zeros and ones.
get_info(bm) ==
  LET From[i \in 0..MaxBits, ones \in BOOLEAN] ==
        IF i = MaxBits THEN [used |-> 0, free |-> 0]
        ELSE LET n == IF ones THEN count_one_bits(bm, i, MaxBits) ELSE count_zero_bits(bm, i, MaxBits)
                 r == From[i + n, ~ones]
             IN IF ones THEN [r EXCEPT !.used = @ + n] ELSE [r EXCEPT !.free = @ + n]
  IN From[0, FALSE]

----------------------------------------------------------------------------
\* The blocks handed out do not overlap, headers included, the bits set are
\* exactly theirs, and get_info counts them (alloc, free): a block is never
\* written through another, no assert of free fails, and freeing all of them
\* leaves the area empty.
BlocksExact ==
  LET ZoneOf(b) == Zone(b.at, bits_required(b.len))
  IN /\ alife # "assert"
     /\ bitmap = UNION {ZoneOf(b) : b \in ablocks}
     /\ \A b, c \in ablocks : b # c => ZoneOf(b) \cap ZoneOf(c) = {}
     /\ get_info(bitmap) = [used |-> Cardinality(bitmap), free |-> MaxBits - Cardinality(bitmap)]

\* alloc returns NULL only when no place has room, and otherwise takes the lowest
\* place that has (its loop over runs), unless that place ends at the last bit,
\* which is counted as free and never handed out: alloc dies there, in the assert
\* of set_bits.
FirstFit ==
  \A len \in Sizes :
     LET required == bits_required(len)
         fits == {i \in Bits : Zone(i, required) \subseteq Bits \ bitmap}
     IN Placed(bitmap, required) = CASE fits = {} -> NoRoom
                                     [] fits # {} -> IF Min(fits) + required = MaxBits THEN Dies
                                                     ELSE Min(fits)
============================================================================
