------------------------------ MODULE UserMemory ------------------------------
(*****************************************************************************)
(* What the kernel reads from and writes to the memory of processes: counted *)
(* strings, and ranges of bytes.                                             *)
(*****************************************************************************)
EXTENDS Integers, Sequences, SequencesExt, FiniteSets

-------------------------------------------------------------------------------
(***************************************************************************)
(* Counted strings (src/kernel/unicode.cpp): who owns the buffer of a      *)
(* unicode_string_t through its copies from the kernel and from user       *)
(* memory, and the conversions from and to UTF-8 with the bytes they       *)
(* really produce.                                                         *)
(***************************************************************************)
CONSTANTS Wchars,      \* 16-bit characters
          MaxChars,    \* characters of a string
          ByteStrings, \* sequences of bytes without a zero
          MaxAllocs    \* buffers handed out

UnicodeAssumption ==
    /\ Wchars \subseteq 1..65535
    /\ {MaxChars, MaxAllocs} \subseteq Nat
    /\ ByteStrings \subseteq Seq(1..255)

VARIABLES us,     \* the string: its own buf, Buffer and the characters
          heap,   \* the buffers: for each the characters it has room for, and what became of it
          conv    \* the conversion just made, if any: characters, room given, bytes or characters written

usvars == <<us, heap, conv>>

\* Buffer leads to the own buffer, to another string's, to user memory or nowhere.
NoBuf == 0
Empty == [buf |-> NoBuf, Buffer |-> "null", chars |-> <<>>, odd |-> FALSE]
NoConv == [kind |-> "none", chars |-> <<>>, out |-> <<>>, room |-> 0]

UsInit == us = Empty /\ heap = <<>> /\ conv = NoConv

Strings == UNION {[1..n -> Wchars] : n \in 0..MaxChars}

\* A buffer is live, freed, freed twice, or "left": freed by an assignment after
\* which buf still leads to it.  The heap is not sound after a second delete.
Gone(is) == CASE is = "live" -> "freed" [] is = "left" -> "left twice" [] OTHER -> "twice"
delete(h, b) == IF b = NoBuf THEN h ELSE [h EXCEPT ![b] = [@ EXCEPT !.is = Gone(@)]]
new(h, n) == Append(h, [room |-> n, is |-> "live"])
Sound == \A b \in DOMAIN heap : heap[b].is \in {"live", "freed", "left"}

-----------------------------------------------------------------------------
\* One character and the bytes it takes at the head of a byte string; no
\* bytes for an invalid one.
At(s, i) == IF i <= Len(s) THEN s[i] ELSE 0
Head2(s) == /\ (At(s, 1) \div 64) = 3 /\ ((At(s, 1) \div 8) % 2) = 0
            /\ At(s, 2) \div 64 = 2
Head3(s) == /\ At(s, 1) \div 16 = 14 /\ At(s, 2) \div 64 = 2 /\ At(s, 3) \div 64 = 2

Decoded(s) ==
    IF s[1] < 128 THEN [used |-> 1, ch |-> s[1]]
    ELSE IF Head2(s) THEN [used |-> 2, ch |-> (s[1] % 64) * 64 + (s[2] % 64)]
    ELSE IF Head3(s)
    THEN [used |-> 3, ch |-> ((s[1] % 64) * 4096 + (s[2] % 64) * 64 + (s[3] % 64)) % 65536]
    ELSE [used |-> 0, ch |-> 0]

Utf8ToWchar[s \in Seq(1..255), n \in Nat] ==
    IF s = <<>> \/ n = 0 THEN <<>>
    ELSE LET d == Decoded(s)
         IN  IF d.used = 0 THEN <<>>
             ELSE <<d.ch>> \o Utf8ToWchar[SubSeq(s, d.used + 1, Len(s)), n - 1]

utf8_to_wchar(s) == Utf8ToWchar[s, Len(s)]

\* The bytes wchar_to_utf8 makes of a character, the low bits first.
Encoded(ch) ==
    IF ch < 128 THEN <<ch>>
    ELSE IF ch < 4095 THEN <<192 + (ch % 64), 128 + ((ch \div 64) % 64)>>
    ELSE <<224 + (ch % 32), 128 + ((ch \div 64) % 64), 128 + ((ch \div 4096) % 16)>>

Fits_full(n, needed, max) == n + needed <= max

Fits(n, needed, max) == n + needed < max

\* Characters are converted until one does not fit with the final zero.
wchar_to_utf8(chars, max) ==
    FoldLeft(LAMBDA r, ch : IF r.full \/ ~Fits(Len(r.out), Len(Encoded(ch)), max)
                            THEN [r EXCEPT !.full = TRUE]
                            ELSE [r EXCEPT !.out = @ \o Encoded(ch)],
             [out |-> <<>>, full |-> FALSE], chars).out

-----------------------------------------------------------------------------
More == Len(heap) < MaxAllocs

Own(h, chars) == [buf |-> Len(h), Buffer |-> "own", chars |-> chars, odd |-> FALSE]

set(chars) == /\ heap' = delete(heap, us.buf)
              /\ us' = [Empty EXCEPT !.Buffer = "foreign", !.chars = chars]
              /\ conv' = NoConv

clear == /\ heap' = delete(heap, us.buf)
         /\ us' = Empty
         /\ conv' = NoConv

\* copy of another counted string, which may have an odd length or no Buffer.
copy(chars, outcome) ==
    /\ More
    /\ heap' = IF outcome = "ok" THEN new(delete(heap, us.buf), Len(chars)) ELSE delete(heap, us.buf)
    /\ us' = IF outcome = "ok" THEN Own(heap', chars)
             ELSE [Empty EXCEPT !.chars = chars, !.odd = (outcome = "odd")]
    /\ conv' = NoConv

\* operator= from a string that owns its buffer, or from one that does not: then
\* buf is not reset.
assign(chars, owned) ==
    /\ More
    /\ LET h == delete(heap, us.buf)
       IN  IF owned THEN /\ heap' = new(h, 2 * Len(chars))
                         /\ us' = Own(heap', chars)
           ELSE /\ heap' = IF us.buf # NoBuf /\ h[us.buf].is = "freed"
                           THEN [h EXCEPT ![us.buf] = [@ EXCEPT !.is = "left"]] ELSE h
                /\ us' = [us EXCEPT !.Buffer = "null", !.chars = chars, !.odd = FALSE]
    /\ conv' = NoConv

\* copy of a zero-terminated byte string: measured, then converted.
copy_utf8(s) ==
    LET chars == utf8_to_wchar(s) IN
    /\ More
    /\ heap' = new(delete(heap, us.buf), Len(chars) + 1)
    /\ us' = Own(heap', chars)
    /\ conv' = [kind |-> "decode", chars |-> s, out |-> chars \o <<0>>, room |-> Len(chars) + 1]

\* copy_from_user: the header is there before the characters are; what fails
\* leaves the user's pointer behind.
copy_from_user_kept(chars, outcome) ==
    /\ More
    /\ heap' = IF outcome = "ok" THEN new(heap, Len(chars)) ELSE heap
    /\ us' = IF outcome = "ok" THEN Own(heap', chars)
             ELSE [us EXCEPT !.Buffer = "user", !.chars = chars, !.odd = (outcome = "odd")]
    /\ conv' = NoConv

copy_from_user(chars, outcome) ==
    /\ More
    /\ heap' = LET h == delete(heap, us.buf) IN
               CASE outcome = "ok"    -> new(h, Len(chars))
                 [] outcome = "fault" -> delete(new(h, Len(chars)), Len(h) + 1)
                 [] OTHER             -> h
    /\ us' = CASE outcome = "ok"   -> Own(heap', chars)
               [] outcome = "null" -> [Empty EXCEPT !.chars = chars]
               [] OTHER -> [buf |-> NoBuf, Buffer |-> "user", chars |-> chars, odd |-> outcome = "odd"]
    /\ conv' = NoConv

Show(max) == /\ us.Buffer \in {"own", "foreign"}
             /\ conv' = [kind |-> "encode", chars |-> us.chars,
                         out |-> wchar_to_utf8(us.chars, max) \o <<0>>, room |-> max]
             /\ UNCHANGED <<us, heap>>

UsNext == /\ Sound
          /\ \/ clear
             \/ \E c \in Strings : \/ set(c) \/ \E owned \in BOOLEAN : assign(c, owned)
                                   \/ \E o \in {"ok", "null", "odd"} : copy(c, o)
                                   \/ \E o \in {"ok", "fault", "null", "odd"} : copy_from_user(c, o)
             \/ \E s \in ByteStrings : copy_utf8(s)
             \/ \E max \in 1..(2 * MaxChars + 1) : Show(max)

UsSpec == UsInit /\ [][UsNext]_usvars

-----------------------------------------------------------------------------
\* A string has at most one buffer of its own, not yet freed and with room for
\* its characters, and no other buffer is left behind or freed twice by a copy,
\* a failed copy from user memory or a conversion; only a buffer that operator=
\* freed for a string without one is freed again, by the next change.  A
\* conversion stays within the room it is given with its final zero; ASCII text
\* comes back as it was, and what is written of a longer string is a beginning
\* of it, with no character cut.
StringsOwnTheirBuffers ==
    /\ us.buf # NoBuf =>
         \/ heap[us.buf].is = "live" /\ heap[us.buf].room >= Len(us.chars) /\ us.Buffer = "own"
         \/ heap[us.buf].is \in {"left", "left twice"} /\ us.Buffer = "null"
    /\ \A b \in DOMAIN heap : b # us.buf => heap[b].is \in {"freed", "left twice"}
    /\ conv.kind # "none" => Len(conv.out) <= conv.room
    /\ conv.kind = "encode" =>
         \E n \in 0..Len(conv.chars) :
            Front(conv.out) = FlattenSeq([i \in 1..n |-> Encoded(conv.chars[i])])
    /\ (\A i \in DOMAIN conv.chars : conv.chars[i] < 128) /\ conv.kind # "none" =>
         IsPrefix(Front(conv.out), conv.chars)

-------------------------------------------------------------------------------
(***************************************************************************)
(* The kernel's access to the memory of processes (get_kernel_address,     *)
(* copy_to_user, copy_from_user, verify_for_write and NtWriteVirtualMemory *)
(* of src/kernel/mem.cpp).  A range is copied block by block, as much of   *)
(* each as lies in the range, until an address is met that no committed    *)
(* block holds.  A block is its first address and its length.              *)
(***************************************************************************)
CONSTANTS Highest,    \* highest_address
          Layouts     \* sets of blocks [base, size, committed]

CopyAssumption ==
    /\ Highest \in Nat
    /\ \A l \in Layouts : \A b, c \in l : /\ b.size > 0 /\ b.base + b.size <= Highest
                                          /\ b # c => \/ b.base + b.size <= c.base
                                                      \/ c.base + c.size <= b.base

VARIABLES space,   \* the blocks of the caller and of another process
          bytes,   \* what each address of the two spaces holds
          copied  \* the last call: its arguments, status and count

uvars == <<space, bytes, copied>>

Whose == {"caller", "target"}
Addresses == 0..(Highest - 1)
Fresh == [a \in Addresses |-> <<"old", a>>]
NoOutcome == [call |-> "none", src |-> 0, dest |-> 0, len |-> 0, ok |-> TRUE, written |-> 0, before |-> Fresh,
              count |-> "none"]

UcInit == /\ space \in [Whose -> Layouts]
          /\ bytes = [w \in Whose |-> [a \in Addresses |-> <<w, a>>]]
          /\ copied = NoOutcome

-----------------------------------------------------------------------------
xlate_entry(w, a) == {b \in space[w] : b.base <= a /\ a < b.base + b.size}

Lesser2(m, n) == IF m < n THEN m ELSE n

\* How many of the n bytes from address a lie in one committed block; 0 is
\* STATUS_ACCESS_VIOLATION.
get_kernel_address_whole(w, a, n) ==
    IF a >= Highest \/ n > Highest \/ a + n > Highest THEN 0
    ELSE IF \E b \in xlate_entry(w, a) : b.committed THEN n ELSE 0

get_kernel_address(w, a, n) ==
    IF a >= Highest \/ n > Highest \/ a + n > Highest THEN 0
    ELSE IF \E b \in xlate_entry(w, a) : b.committed
    THEN LET b == CHOOSE x \in xlate_entry(w, a) : TRUE IN Lesser2(n, b.size - (a - b.base))
    ELSE 0

\* The loops of copy_range_from_user, copy_to_user and verify_for_write: the number
\* of bytes done when the whole range is, or an access fails.
Done1[w \in Whose, a \in 0..(2 * Highest), n \in 0..Highest] ==
    LET k == get_kernel_address(w, a, n)
    IN  IF n = 0 \/ k = 0 THEN 0 ELSE k + Done1[w, a + k, n - k]

\* NtWriteVirtualMemory: each turn is cut first by the caller's block, then by
\* the other process's.
Done2[src \in 0..(2 * Highest), dest \in 0..(2 * Highest), n \in 0..Highest] ==
    LET j == get_kernel_address("caller", src, n)
        k == get_kernel_address("target", dest, j)
    IN  IF n = 0 \/ j = 0 \/ k = 0 THEN 0 ELSE k + Done2[src + k, dest + k, n - k]

Stored(w, dest, data, n) ==
    [bytes EXCEPT ![w] = [a \in Addresses |-> IF a \in dest..(dest + n - 1) THEN data[a - dest] ELSE @[a]]]

Report(call, src, dest, len, ok, n, count) ==
    /\ copied' = [call |-> call, src |-> src, dest |-> dest, len |-> len, ok |-> ok,
                   written |-> n, before |-> bytes["target"], count |-> count]
    /\ UNCHANGED space

verify_for_write(dest, len) ==
    /\ Report("verify", 0, dest, len, Done1["target", dest, len] = len, 0, "none")
    /\ UNCHANGED bytes

copy_to_user(dest, len) ==
    LET n == Done1["target", dest, len] IN
    /\ bytes' = Stored("target", dest, [i \in 0..len |-> <<"kernel", i>>], n)
    /\ Report("to", 0, dest, len, n = len, n, "none")

copy_range_from_user(src, len) ==
    /\ Report("from", src, 0, len, Done1["target", src, len] = len, Done1["target", src, len], "none")
    /\ UNCHANGED bytes

\* The status of the copy is lost when the count is asked for: then it is that
\* of writing the count, to an address elsewhere that is good or bad.
NtWriteVirtualMemory(src, dest, len, count) ==
    LET n == Done2[src, dest, len] IN
    /\ bytes' = Stored("target", dest, [i \in 0..len |-> IF src + i < Highest THEN bytes["caller"][src + i]
                                                         ELSE <<"none", 0>>], n)
    /\ Report("write", src, dest, len, IF count = "none" THEN n = len ELSE count = "good", n, count)

\* Calls start from fresh memory: one call of each kind, then another.
UcNext == \E dest \in 0..Highest, len \in 0..Highest :
            /\ copied.call \in {"none", "verify"}
            /\ \/ verify_for_write(dest, len)
               \/ copy_to_user(dest, len)
               \/ copy_range_from_user(dest, len)
               \/ \E src \in 0..Highest, c \in {"none", "good", "bad"} : NtWriteVirtualMemory(src, dest, len, c)

UcSpec == UcInit /\ [][UcNext]_uvars

-----------------------------------------------------------------------------
Accessible(w, a) == \E b \in space[w] : b.committed /\ a \in b.base..(b.base + b.size - 1)

\* The bytes before the first that cannot be accessed; none at all of a range
\* that runs over the top of the space.
Reach(w, a, len) == IF a + len > Highest THEN 0
                    ELSE Cardinality({i \in 0..(len - 1) : \A j \in 0..i : Accessible(w, a + j)})

\* Every call moves exactly the bytes before the first inaccessible one, in
\* order, however the range is cut into blocks, changes no other byte of the
\* process, and says that it succeeded just when the whole range was moved,
\* except that NtWriteVirtualMemory with a place for the count says whether it
\* could tell the count; what verify_for_write accepts, copy_to_user can write.
\* (How much of a range over the top of the other space is written depends on
\* the blocks.)
CopiesArePrefixes ==
    LET o == copied
        n == CASE o.call = "write" -> Lesser2(Reach("caller", o.src, o.len), Reach("target", o.dest, o.len))
               [] o.call = "from" -> Reach("target", o.src, o.len)
               [] OTHER -> Reach("target", o.dest, o.len)
    IN  /\ o.call \in {"to", "from"} \/ (o.call = "write" /\ o.dest + o.len <= Highest) => o.written = n
        /\ o.call \in {"to", "from", "verify"} => (o.ok <=> n = o.len)
        /\ o.call = "write" => (o.ok <=> IF o.count = "none" THEN o.written = o.len ELSE o.count = "good")
        /\ o.call \in {"to", "write"} =>
             \A a \in Addresses :
                bytes["target"][a] = IF a < o.dest \/ a >= o.dest + o.written THEN o.before[a]
                                     ELSE IF o.call = "to" THEN <<"kernel", a - o.dest>>
                                     ELSE bytes["caller"][o.src + (a - o.dest)]
===============================================================================
