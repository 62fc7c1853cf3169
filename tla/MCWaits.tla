------------------------------ MODULE MCWaits -------------------------------
(***************************************************************************)
(* Waits for TLC: one or two processes with up to three threads.           *)
(***************************************************************************)
EXTENDS Waits, TLC

CONSTANTS t1, t2, t3, p1, p2, e1, e2, s1, m1

TwoProcs == p1 :> <<t1, t2>> @@ p2 :> <<t3>>

Arg(objs, all, alertable, timed) ==
  [objs |-> objs, all |-> all, alertable |-> alertable, timed |-> timed]

Sleep == Arg(<<>>, FALSE, TRUE, TRUE)
OnAny(objs) == Arg(objs, FALSE, FALSE, FALSE)
OnAll(objs) == Arg(objs, TRUE, FALSE, FALSE)

(* An auto event, a thread and a process to join, alone and together.      *)
JoinArgs == {OnAny(<<e1>>), OnAll(<<t1, e1>>), OnAny(<<p1>>)}
NoCounts == <<>>

(* Waits that APCs, alerts and timeouts interrupt.                         *)
ApcArgs == {Sleep, Arg(<<e1>>, FALSE, FALSE, TRUE), Arg(<<e1>>, FALSE, TRUE, FALSE),
            OnAny(<<t1, e1>>), OnAny(<<p1>>)}
OneEach == p1 :> <<t1>> @@ p2 :> <<t2>>

(* A semaphore alone, together with a manual event, twice in one list, and *)
(* an event with a mutant.                                                 *)
SemArgs == {OnAny(<<s1>>), OnAll(<<s1, e2>>), OnAll(<<s1, s1>>), OnAny(<<e2, m1>>)}
SemCounts == s1 :> 2
ThreeThreads == p1 :> <<t1, t2, t3>>
=============================================================================
