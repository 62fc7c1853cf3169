------------------------------- MODULE Tokens -------------------------------
(***************************************************************************)
(* Access tokens (src/kernel/token.cpp): their references from handles and *)
(* from the thread that impersonates, and the blocks that queries lay out  *)
(* in the caller's buffer.  A block is the set of its pieces, each with    *)
(* its offset and length in bytes; the caller says how long its buffer is  *)
(* and may be wrong about how much of it can be written.                   *)
(***************************************************************************)
EXTENDS Naturals, Sequences, FiniteSets, FiniteSetsExt, SequencesExt

CONSTANTS Tokens,      \* addresses of token objects
          MaxTokHandles,
          BufferSizes, \* lengths the caller passes
          Writable     \* bytes of the buffer that can be written

TokenAssumption ==
    /\ MaxTokHandles \in Nat
    /\ BufferSizes \subseteq Nat /\ Writable \subseteq Nat

VARIABLES refs,     \* references of each token, 0 when there is none
          thandles, \* the open handles: a sequence of tokens
          imp,      \* the token the thread impersonates, or NoToken
          reply,    \* what the last query wrote, its length and status
          tlife     \* "up", or "assert" once an assertion has failed

tvars == <<refs, thandles, imp, reply, tlife>>

NoToken == "none"
NoReply == [pieces |-> <<>>, len |-> 0, room |-> 0, status |-> "none"]

ToInit == /\ refs = [t \in Tokens |-> 0]
          /\ thandles = <<>> /\ imp = NoToken
          /\ reply = NoReply /\ tlife = "up"

-----------------------------------------------------------------------------
\* Sizes of the structures, in bytes.
Pointer == 4
SidHeader == 8
SubAuthority == 4
AclHeader == 8
SidAndAttributes == 2 * Pointer
LuidAndAttributes == 12
Count == 4
Statistics == 56

\* A piece of n bytes; pointers name the offset they lead to.
Piece(what, ofs, n) == [what |-> what, ofs |-> ofs, len |-> n, to |-> 0]
PointerPiece(ofs, n, to) == [what |-> "pointer", ofs |-> ofs, len |-> n, to |-> to]

\* The items of a fresh token: owner, group and user have one subauthority,
\* the default list has no entry, there are no groups and one privilege.
SidLength == SidHeader + SubAuthority
SidPieces(ofs) == <<Piece("sid", ofs, SidHeader), Piece("subauthority", ofs + SidHeader, SubAuthority)>>
ItemLength(class) == IF class = "dacl" THEN AclHeader ELSE SidLength
ItemPieces(class, ofs) == IF class = "dacl" THEN <<Piece("acl", ofs, AclHeader)>> ELSE SidPieces(ofs)

\* The length a query asks for and what it then writes, in its order.
copy_ptr_to_user_short(class) ==
    [len |-> ItemLength(class), pieces |-> <<PointerPiece(0, Pointer, Pointer)>> \o ItemPieces(class, Pointer)]

copy_ptr_to_user(class) ==
    [len |-> ItemLength(class) + Pointer,
     pieces |-> <<PointerPiece(0, Pointer, Pointer)>> \o ItemPieces(class, Pointer)]

copy_user == [len |-> SidAndAttributes + SidLength,
              pieces |-> <<PointerPiece(0, SidAndAttributes, SidAndAttributes)>> \o SidPieces(SidAndAttributes)]

copy_groups == [len |-> Count, pieces |-> <<Piece("count", 0, Count)>>]

copy_privileges(n) ==
    [len |-> Count + n * LuidAndAttributes,
     pieces |-> <<Piece("count", 0, Count)>>
                \o [i \in 1..n |-> Piece("privilege", Count + (i - 1) * LuidAndAttributes, LuidAndAttributes)]]

copy_statistics == [len |-> Statistics, pieces |-> <<Piece("statistics", 0, Statistics)>>]

Block(class) == CASE class \in {"owner", "group", "dacl"} -> copy_ptr_to_user(class)
                  [] class = "user" -> copy_user
                  [] class = "groups" -> copy_groups
                  [] class = "privileges" -> copy_privileges(1)
                  [] class = "statistics" -> copy_statistics

\* copy_to_user, piece by piece until one does not fit what can be written.
Written(pieces, writable) ==
    LET bad == {i \in DOMAIN pieces : pieces[i].ofs + pieces[i].len > writable}
    IN  IF bad = {} THEN pieces ELSE SubSeq(pieces, 1, Min(bad) - 1)

Answer(class, room, writable) ==
    LET b == Block(class)
        w == Written(b.pieces, writable)
    IN  IF IF class = "statistics" THEN b.len # room ELSE b.len > room
        THEN [pieces |-> <<>>, len |-> b.len, room |-> room, status |-> "too small"]
        ELSE [pieces |-> w, len |-> b.len, room |-> room,
              status |-> IF w = b.pieces THEN "success" ELSE "access violation"]

-----------------------------------------------------------------------------
NewHandle(t) == /\ Len(thandles) < MaxTokHandles
                /\ thandles' = Append(thandles, t)

\* A process's token is made when it is opened, and so is a duplicate.
MakeToken == \E t \in Tokens :
    /\ refs[t] = 0
    /\ NewHandle(t)
    /\ refs' = [refs EXCEPT ![t] = 1]
    /\ UNCHANGED <<imp, reply, tlife>>

NtOpenProcessToken == MakeToken
NtDuplicateToken == thandles # <<>> /\ MakeToken

NtOpenThreadToken ==
    /\ imp # NoToken
    /\ NewHandle(imp)
    /\ refs' = [refs EXCEPT ![imp] = @ + 1]
    /\ UNCHANGED <<imp, reply, tlife>>

Close(i) == /\ thandles' = RemoveAt(thandles, i)
            /\ refs' = [refs EXCEPT ![thandles[i]] = @ - 1]
            /\ UNCHANGED <<imp, reply, tlife>>

set_token_uncounted(t) ==
    refs' = IF imp = NoToken THEN refs ELSE [refs EXCEPT ![imp] = @ - 1]

\* thread_impl_t::set_token.
set_token(t) ==
    LET released == IF imp = NoToken THEN refs ELSE [refs EXCEPT ![imp] = @ - 1]
    IN  refs' = [released EXCEPT ![t] = @ + 1]

\* NtSetInformationThread( ThreadImpersonationToken ).
Impersonate(i) == /\ set_token(thandles[i])
                  /\ imp' = thandles[i]
                  /\ UNCHANGED <<thandles, reply, tlife>>

\* NtQueryInformationToken.
Query(class, room, writable) ==
    /\ thandles # <<>>
    /\ reply' = Answer(class, room, writable)
    /\ UNCHANGED <<refs, thandles, imp, tlife>>

\* NtAdjustPrivilegesToken.  The previous state is written when a buffer is
\* given; its length then goes to a place that was checked only if there is
\* one.  Nothing is adjusted.
Adjust(previous, returnlength, room, writable) ==
    LET a == Answer("privileges", room, writable) IN
    /\ thandles # <<>>
    /\ reply' = IF previous THEN a ELSE [NoReply EXCEPT !.status = "success"]
    /\ tlife' = IF previous /\ a.status = "success" /\ ~returnlength THEN "assert" ELSE tlife
    /\ UNCHANGED <<refs, thandles, imp>>

Classes == {"owner", "group", "dacl", "user", "groups", "statistics"}

ToNext == /\ tlife = "up"
          /\ \/ NtOpenProcessToken \/ NtDuplicateToken \/ NtOpenThreadToken
             \/ \E i \in DOMAIN thandles : Close(i) \/ Impersonate(i)
             \/ \E r \in BufferSizes, w \in Writable :
                  \/ \E c \in Classes : Query(c, r, w)
                  \/ \E p, l \in BOOLEAN : Adjust(p, l, r, w)

ToSpec == ToInit /\ [][ToNext]_tvars

-----------------------------------------------------------------------------
Bytes(p) == p.ofs .. (p.ofs + p.len - 1)

\* A query writes nothing beyond the buffer the caller offered, and a
\* successful one fills exactly the bytes whose number it reports, each once,
\* with every pointer leading to the piece behind it; one that finds the
\* buffer too small writes nothing.  The token a thread impersonates and those
\* with open handles exist, with as many references as there are users.
TokensSound ==
    /\ \A i \in DOMAIN reply.pieces : Bytes(reply.pieces[i]) \subseteq 0..(reply.room - 1)
    /\ reply.status = "success" /\ reply.len > 0 =>
         /\ UNION {Bytes(reply.pieces[i]) : i \in DOMAIN reply.pieces} = 0..(reply.len - 1)
         /\ FoldLeft(LAMBDA n, p : n + p.len, 0, reply.pieces) = reply.len
         /\ \A i \in DOMAIN reply.pieces : reply.pieces[i].what = "pointer" =>
              \E j \in DOMAIN reply.pieces : reply.pieces[j].ofs = reply.pieces[i].to
    /\ reply.status = "too small" => reply.pieces = <<>>
    /\ \A t \in Tokens : refs[t] = Cardinality({i \in DOMAIN thandles : thandles[i] = t})
                                   + (IF imp = t THEN 1 ELSE 0)
=============================================================================
