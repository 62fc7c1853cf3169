------------------------------- MODULE Lists --------------------------------
(***************************************************************************)
(* The lists of kernel/list.h, as the sequences of their elements from     *)
(* head to tail: list_anchor::append is Append, and unlinking the head is  *)
(* Tail.  What these operations do to a list is proved here once, for the  *)
(* modules that use them.                                                  *)
(***************************************************************************)
EXTENDS Naturals, Sequences

Elems(s) == {s[i] : i \in DOMAIN s}

(* No element is in the list twice: unlike list_element, which has room    *)
(* for one pair of links, a sequence does not see to that by itself.       *)
Distinct(s) == \A i, j \in DOMAIN s : s[i] = s[j] => i = j

(* The first of a set of places.                                           *)
First(S) == CHOOSE i \in S : \A j \in S : i <= j

(* list_anchor::unlink of the element at i.                                *)
unlink(s, i) == [j \in 1..(Len(s) - 1) |-> IF j < i THEN s[j] ELSE s[j + 1]]

(* The list after x, if it is there, has been unlinked.                    *)
Without(s, x) == IF x \in Elems(s) THEN unlink(s, CHOOSE i \in DOMAIN s : s[i] = x) ELSE s

(* The list after every element of X has been unlinked.                     *)
WithoutAll(s, X) ==
  LET upto[n \in 0 .. Len(s)] == IF n = 0 THEN <<>>
                                 ELSE IF s[n] \in X THEN upto[n - 1] ELSE Append(upto[n - 1], s[n])
  IN upto[Len(s)]

(* list_anchor::insert_before of the element at i, or append if i is past  *)
(* the end.                                                                *)
insert(s, i, x) ==
  [j \in 1..(Len(s) + 1) |-> IF j < i THEN s[j] ELSE IF j = i THEN x ELSE s[j - 1]]

-----------------------------------------------------------------------------
(* A list is empty when it has no element.                                 *)
LEMMA EmptyElems ==
  ASSUME NEW S, NEW s \in Seq(S)
  PROVE  s = <<>> <=> Elems(s) = {}
BY DEF Elems

LEMMA ConcatElems ==
  ASSUME NEW S, NEW s \in Seq(S)
  PROVE  s \o <<>> = s /\ \A x \in S : s \o <<x>> = Append(s, x)
OBVIOUS

(* list_anchor::append adds one element, last.                             *)
LEMMA AppendElems ==
  ASSUME NEW S, NEW s \in Seq(S), NEW x \in S
  PROVE  /\ Append(s, x) \in Seq(S)
         /\ Append(s, x) # <<>>
         /\ Elems(Append(s, x)) = Elems(s) \cup {x}
         /\ Distinct(s) /\ x \notin Elems(s) => Distinct(Append(s, x))
<1> DEFINE r == Append(s, x)
<1>1. /\ r \in Seq(S) /\ Len(r) = Len(s) + 1
      /\ \A i \in 1..Len(s) : r[i] = s[i]
      /\ r[Len(s) + 1] = x
  OBVIOUS
<1>2. DOMAIN s = 1..Len(s) /\ DOMAIN r = 1..(Len(s) + 1) /\ Len(s) \in Nat
  BY <1>1
<1> HIDE DEF r
<1>3. r # <<>>
  BY <1>1, <1>2
<1>4. Elems(r) = Elems(s) \cup {x}
  <2>1. ASSUME NEW y \in Elems(r) PROVE y \in Elems(s) \cup {x}
    <3>1. PICK i \in DOMAIN r : y = r[i]
      BY DEF Elems
    <3>2. CASE i \in 1..Len(s)
      BY <1>1, <1>2, <3>1, <3>2 DEF Elems
    <3>3. CASE i = Len(s) + 1
      BY <1>1, <3>1, <3>3
    <3> QED BY <3>2, <3>3, <1>2
  <2>2. ASSUME NEW y \in Elems(s) PROVE y \in Elems(r)
    <3>1. PICK i \in DOMAIN s : y = s[i]
      BY DEF Elems
    <3>2. i \in DOMAIN r /\ y = r[i]
      BY <3>1, <1>1, <1>2
    <3> QED BY <3>2 DEF Elems
  <2>3. x \in Elems(r)
    <3>1. Len(s) + 1 \in DOMAIN r /\ r[Len(s) + 1] = x
      BY <1>1, <1>2
    <3> QED BY <3>1 DEF Elems
  <2> QED BY <2>1, <2>2, <2>3
<1>5. Distinct(s) /\ x \notin Elems(s) => Distinct(r)
  BY <1>1, <1>2 DEF Distinct, Elems
<1> QED BY <1>1, <1>3, <1>4, <1>5 DEF r

(* Unlinking the head of a list leaves the others, in their order.         *)
LEMMA TailElems ==
  ASSUME NEW S, NEW s \in Seq(S), s # <<>>
  PROVE  /\ Head(s) \in S /\ Head(s) \in Elems(s)
         /\ Tail(s) \in Seq(S)
         /\ Distinct(s) => /\ Distinct(Tail(s))
                           /\ Elems(Tail(s)) = Elems(s) \ {Head(s)}
<1> DEFINE r == Tail(s)
<1>1. /\ r \in Seq(S) /\ Len(r) = Len(s) - 1
      /\ \A i \in 1..Len(r) : r[i] = s[i + 1]
      /\ Head(s) = s[1] /\ Len(s) \in Nat \ {0}
  OBVIOUS
<1>2. DOMAIN s = 1..Len(s) /\ DOMAIN r = 1..(Len(s) - 1)
  BY <1>1
<1>h. Head(s) \in S /\ Head(s) \in Elems(s)
  BY <1>1, <1>2 DEF Elems
<1> DEFINE h == Head(s)
<1>3. h = s[1]
  BY <1>1
<1> HIDE DEF r, h
<1>4. ASSUME Distinct(s) PROVE Distinct(r) /\ Elems(r) = Elems(s) \ {h}
  <2>1. Distinct(r)
    <3>1. SUFFICES ASSUME NEW i \in DOMAIN r, NEW j \in DOMAIN r, r[i] = r[j]
                   PROVE  i = j
      BY DEF Distinct
    <3>2. i + 1 \in DOMAIN s /\ j + 1 \in DOMAIN s /\ s[i + 1] = s[j + 1]
      BY <3>1, <1>1, <1>2
    <3> QED BY <3>2, <1>4, <1>2 DEF Distinct
  <2>2. ASSUME NEW y \in Elems(r) PROVE y \in Elems(s) /\ y # h
    <3>1. PICK i \in DOMAIN r : y = r[i]
      BY DEF Elems
    <3>2. i + 1 \in DOMAIN s /\ y = s[i + 1] /\ i + 1 # 1 /\ 1 \in DOMAIN s
      BY <3>1, <1>1, <1>2
    <3> QED BY <3>2, <1>3, <1>4 DEF Distinct, Elems
  <2>3. ASSUME NEW y \in Elems(s), y # h PROVE y \in Elems(r)
    <3>1. PICK i \in DOMAIN s : y = s[i]
      BY DEF Elems
    <3>2. i - 1 \in DOMAIN r /\ r[i - 1] = s[i]
      BY <3>1, <2>3, <1>1, <1>2, <1>3
    <3> QED BY <3>1, <3>2 DEF Elems
  <2> QED BY <2>1, <2>2, <2>3
<1> QED BY <1>1, <1>h, <1>4 DEF r, h

(* Unlinking the element at one place leaves the others, in their order.   *)
LEMMA UnlinkElems ==
  ASSUME NEW S, NEW s \in Seq(S), NEW at \in DOMAIN s
  PROVE  /\ unlink(s, at) \in Seq(S)
         /\ Len(unlink(s, at)) = Len(s) - 1
         /\ Elems(unlink(s, at)) \subseteq Elems(s)
         /\ Distinct(s) => /\ Distinct(unlink(s, at))
                           /\ Elems(unlink(s, at)) = Elems(s) \ {s[at]}
<1> DEFINE r == unlink(s, at)
           a(n) == IF n < at THEN n ELSE n + 1
<1>1. r = [i \in 1..(Len(s) - 1) |-> IF i < at THEN s[i] ELSE s[i + 1]]
  BY DEF unlink
<1>2. DOMAIN s = 1..Len(s) /\ Len(s) \in Nat \ {0} /\ \A i \in DOMAIN s : s[i] \in S
  OBVIOUS
<1> HIDE DEF r
<1>3. DOMAIN r = 1..(Len(s) - 1)
  BY <1>1
<1>4. \A i \in DOMAIN r : a(i) \in DOMAIN s /\ a(i) # at /\ r[i] = s[a(i)]
  BY <1>1, <1>2, <1>3
<1>5. r \in Seq(S) /\ Len(r) = Len(s) - 1
  <2>1. r \in [1..(Len(s) - 1) -> S] /\ Len(s) - 1 \in Nat
    BY <1>1, <1>2
  <2> QED BY <2>1
<1>6. Elems(r) \subseteq Elems(s)
  BY <1>4 DEF Elems
<1>7. ASSUME Distinct(s) PROVE Distinct(r) /\ Elems(r) = Elems(s) \ {s[at]}
  <2>1. Distinct(r)
    <3>1. SUFFICES ASSUME NEW i \in DOMAIN r, NEW j \in DOMAIN r, r[i] = r[j]
                   PROVE  i = j
      BY DEF Distinct
    <3>2. a(i) = a(j)
      BY <1>4, <1>7, <3>1 DEF Distinct
    <3> QED BY <1>2, <1>3, <3>2
  <2>2. ASSUME NEW y \in Elems(r) PROVE y \in Elems(s) /\ y # s[at]
    <3>1. PICK i \in DOMAIN r : y = r[i]
      BY DEF Elems
    <3>2. a(i) \in DOMAIN s /\ a(i) # at /\ y = s[a(i)]
      BY <1>4, <3>1
    <3> HIDE DEF a
    <3> QED BY <1>7, <3>2 DEF Elems, Distinct
  <2>3. ASSUME NEW y \in Elems(s), y # s[at] PROVE y \in Elems(r)
    <3>1. PICK n \in DOMAIN s : y = s[n]
      BY DEF Elems
    <3>2. n # at
      BY <2>3, <3>1
    <3>3. CASE n < at
      <4>1. n \in DOMAIN r /\ r[n] = y
        BY <1>1, <1>2, <1>3, <3>1, <3>3
      <4> QED BY <4>1 DEF Elems
    <3>4. CASE ~(n < at)
      <4>1. n - 1 \in DOMAIN r /\ r[n - 1] = y
        BY <1>1, <1>2, <1>3, <3>1, <3>2, <3>4
      <4> QED BY <4>1 DEF Elems
    <3> QED BY <3>3, <3>4
  <2> QED BY <2>1, <2>2, <2>3
<1> QED BY <1>5, <1>6, <1>7 DEF r

(* Where the elements of a list come from, after one has been unlinked.    *)
LEMMA UnlinkPlaces ==
  ASSUME NEW S, NEW s \in Seq(S), NEW at \in DOMAIN s
  PROVE  \E a \in [DOMAIN unlink(s, at) -> DOMAIN s \ {at}] :
            /\ \A i \in DOMAIN unlink(s, at) : unlink(s, at)[i] = s[a[i]]
            /\ \A i, j \in DOMAIN unlink(s, at) : i < j => a[i] < a[j]
<1> DEFINE r == unlink(s, at)
           a == [n \in 1..(Len(s) - 1) |-> IF n < at THEN n ELSE n + 1]
<1>1. r = [n \in 1..(Len(s) - 1) |-> IF n < at THEN s[n] ELSE s[n + 1]]
  BY DEF unlink
<1>2. DOMAIN s = 1..Len(s) /\ Len(s) \in Nat
  OBVIOUS
<1> HIDE DEF r
<1>3. DOMAIN r = 1..(Len(s) - 1)
  BY <1>1
<1>4. a \in [DOMAIN r -> DOMAIN s \ {at}]
  BY <1>2, <1>3
<1>5. \A i \in DOMAIN r : r[i] = s[a[i]]
  BY <1>1, <1>3
<1>6. \A i, j \in DOMAIN r : i < j => a[i] < a[j]
  BY <1>2, <1>3
<1> HIDE DEF a
<1> QED BY <1>4, <1>5, <1>6 DEF r

(* Unlinking an element leaves the others.                                 *)
LEMMA WithoutElems ==
  ASSUME NEW S, NEW s \in Seq(S), Distinct(s), NEW x
  PROVE  /\ Without(s, x) \in Seq(S)
         /\ Distinct(Without(s, x))
         /\ Elems(Without(s, x)) = Elems(s) \ {x}
<1>1. CASE x \in Elems(s)
  <2> DEFINE at == CHOOSE i \in DOMAIN s : s[i] = x
  <2>1. at \in DOMAIN s /\ s[at] = x
    BY <1>1 DEF Elems
  <2>2. Without(s, x) = unlink(s, at)
    BY <1>1 DEF Without
  <2> HIDE DEF at
  <2> QED BY <2>1, <2>2, UnlinkElems
<1>2. CASE x \notin Elems(s)
  BY <1>2 DEF Without
<1> QED BY <1>1, <1>2

(* And leaves them in their order.                                         *)
LEMMA WithoutOrder ==
  ASSUME NEW S, NEW s \in Seq(S), NEW x,
         NEW i \in DOMAIN Without(s, x), NEW j \in DOMAIN Without(s, x), i < j
  PROVE  \E m, n \in DOMAIN s : m < n /\ Without(s, x)[i] = s[m] /\ Without(s, x)[j] = s[n]
<1>1. CASE x \in Elems(s)
  <2> DEFINE at == CHOOSE k \in DOMAIN s : s[k] = x
  <2>1. at \in DOMAIN s
    BY <1>1 DEF Elems
  <2>2. Without(s, x) = unlink(s, at)
    BY <1>1 DEF Without
  <2> HIDE DEF at
  <2>3. PICK a \in [DOMAIN unlink(s, at) -> DOMAIN s \ {at}] :
               /\ \A k \in DOMAIN unlink(s, at) : unlink(s, at)[k] = s[a[k]]
               /\ \A k, m \in DOMAIN unlink(s, at) : k < m => a[k] < a[m]
    BY <2>1, UnlinkPlaces
  <2>4. a[i] \in DOMAIN s /\ a[j] \in DOMAIN s /\ a[i] < a[j]
    BY <2>2, <2>3
  <2> QED BY <2>2, <2>3, <2>4
<1>2. CASE x \notin Elems(s)
  BY <1>2 DEF Without
<1> QED BY <1>1, <1>2

(* Inserting adds one element, at its place.                               *)
LEMMA InsertElems ==
  ASSUME NEW S, NEW s \in Seq(S), NEW x \in S, NEW at \in 1..(Len(s) + 1)
  PROVE  /\ insert(s, at, x) \in Seq(S)
         /\ Elems(insert(s, at, x)) = Elems(s) \cup {x}
         /\ Distinct(s) /\ x \notin Elems(s) => Distinct(insert(s, at, x))
<1> DEFINE r == insert(s, at, x)
<1>1. r = [i \in 1..(Len(s) + 1) |-> IF i < at THEN s[i] ELSE IF i = at THEN x ELSE s[i - 1]]
  BY DEF insert
<1>2. DOMAIN s = 1..Len(s) /\ Len(s) \in Nat /\ \A i \in DOMAIN s : s[i] \in S
  OBVIOUS
<1> HIDE DEF r
<1>3. DOMAIN r = 1..(Len(s) + 1) /\ r[at] = x
  BY <1>1
<1>4. \A i \in DOMAIN r : \/ i < at /\ i \in DOMAIN s /\ r[i] = s[i]
                          \/ i = at /\ r[i] = x
                          \/ i > at /\ i - 1 \in DOMAIN s /\ r[i] = s[i - 1]
  BY <1>1, <1>2, <1>3
<1>5. r \in Seq(S)
  <2>1. r \in [1..(Len(s) + 1) -> S] /\ Len(s) + 1 \in Nat
    BY <1>1, <1>2
  <2> QED BY <2>1
<1>6. ASSUME NEW y \in Elems(r) PROVE y \in Elems(s) \cup {x}
  BY <1>4 DEF Elems
<1>7. ASSUME NEW y \in Elems(s) PROVE y \in Elems(r)
  <2>1. PICK n \in DOMAIN s : y = s[n]
    BY DEF Elems
  <2>2. CASE n < at
    <3>1. n \in DOMAIN r /\ r[n] = y
      BY <1>1, <1>2, <1>3, <2>1, <2>2
    <3> QED BY <3>1 DEF Elems
  <2>3. CASE ~(n < at)
    <3>1. n + 1 \in DOMAIN r /\ r[n + 1] = y
      BY <1>1, <1>2, <1>3, <2>1, <2>3
    <3> QED BY <3>1 DEF Elems
  <2> QED BY <2>2, <2>3
<1>8. x \in Elems(r)
  BY <1>3 DEF Elems
<1>9. ASSUME Distinct(s), x \notin Elems(s) PROVE Distinct(r)
  <2>1. SUFFICES ASSUME NEW i \in DOMAIN r, NEW j \in DOMAIN r, r[i] = r[j], i < j
                 PROVE  FALSE
    <3>1. \A i, j \in DOMAIN r : i < j \/ j < i \/ i = j
      BY <1>2, <1>3
    <3> QED BY <3>1 DEF Distinct
  <2>2. \A n \in DOMAIN s : s[n] # x
    BY <1>9 DEF Elems
  <2>3. CASE i = at \/ j = at
    BY <1>2, <1>3, <1>4, <2>1, <2>2, <2>3
  <2>4. CASE i # at /\ j # at
    BY <1>2, <1>3, <1>4, <1>9, <2>1, <2>4 DEF Distinct
  <2> QED BY <2>3, <2>4
<1> QED BY <1>5, <1>6, <1>7, <1>8, <1>9 DEF r

(* The element at i of the list r is the one at i + n - 1 of the list s.   *)
Places(r, s, n) ==
  /\ \A i \in DOMAIN r : i + n - 1 \in DOMAIN s /\ n <= i + n - 1 /\ r[i] = s[i + n - 1]
  /\ \A j \in DOMAIN s : n <= j => j + 1 - n \in DOMAIN r /\ r[j + 1 - n] = s[j]

(* What is left of a list when its first elements have been unlinked.      *)
LEMMA SuffixElems ==
  ASSUME NEW S, NEW s \in Seq(S), NEW n \in 1..(Len(s) + 1), NEW r, r = SubSeq(s, n, Len(s))
  PROVE  /\ r \in Seq(S)
         /\ DOMAIN r = 1..(Len(s) + 1 - n)
         /\ Places(r, s, n)
<1>1. DOMAIN s = 1..Len(s) /\ Len(s) \in Nat /\ n \in Nat
  OBVIOUS
<1>2. /\ r \in Seq(S) /\ Len(r) = Len(s) + 1 - n
      /\ \A i \in 1..(Len(s) + 1 - n) : r[i] = s[n + i - 1]
  BY <1>1
<1>3. DOMAIN r = 1..(Len(s) + 1 - n)
  BY <1>2
<1>4. ASSUME NEW i \in DOMAIN r
      PROVE  i + n - 1 \in DOMAIN s /\ n <= i + n - 1 /\ r[i] = s[i + n - 1]
  <2>1. i \in 1..(Len(s) + 1 - n) /\ n + i - 1 = i + n - 1
    BY <1>1, <1>3
  <2>2. r[i] = s[n + i - 1]
    BY <1>2, <2>1
  <2> QED BY <1>1, <2>1, <2>2
<1>5. ASSUME NEW j \in DOMAIN s, n <= j
      PROVE  j + 1 - n \in DOMAIN r /\ r[j + 1 - n] = s[j]
  <2>1. j + 1 - n \in 1..(Len(s) + 1 - n) /\ n + (j + 1 - n) - 1 = j
    BY <1>1, <1>5
  <2> QED BY <1>2, <1>3, <2>1
<1> QED BY <1>2, <1>3, <1>4, <1>5 DEF Places
=============================================================================
