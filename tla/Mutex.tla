------------------------------- MODULE Mutex --------------------------------
(***************************************************************************)
(* What struct lock promises: a mutual-exclusion lock that its owner may   *)
(* take again, up to MaxDepth times, and that is free once the owner has   *)
(* let go as often as it took it.                                          *)
(***************************************************************************)
EXTENDS Naturals

CONSTANTS Threads, NULL, MaxDepth

VARIABLES owner, depth

mutexVars == <<owner, depth>>

Init == owner = NULL /\ depth = 0

Acquire(t) ==
  /\ owner = NULL
  /\ owner' = t /\ depth' = 1

Reenter(t) ==
  /\ owner = t /\ depth < MaxDepth
  /\ depth' = depth + 1 /\ UNCHANGED owner

Leave(t) ==
  /\ owner = t /\ depth > 1
  /\ depth' = depth - 1 /\ UNCHANGED owner

Release(t) ==
  /\ owner = t /\ depth = 1
  /\ owner' = NULL /\ depth' = 0

Next == \E t \in Threads : Acquire(t) \/ Reenter(t) \/ Leave(t) \/ Release(t)

Spec == Init /\ [][Next]_mutexVars
=============================================================================
