--------------------------------- MODULE Lease ---------------------------------
(***************************************************************************)
(* Locks that do not expire, as those see them who count on them: a lock   *)
(* is taken when it is free, by a process that is inside no other, and     *)
(* whoever has it is alone inside until it is given back, or until its     *)
(* owner dies; the lock of a dead owner is nobody's for good.              *)
(***************************************************************************)
CONSTANTS
  Locks,
  Procs,
  Free,      \* owner of a lock nobody has
  Orphan     \* owner of a lock whose owner died

VARIABLES
  owner,     \* of each lock
  inside     \* the processes that work under it

vars == <<owner, inside>>

Init ==
  /\ owner = [l \in Locks |-> Free]
  /\ inside = [l \in Locks |-> {}]

(* Who waits for a lock holds none, so no two wait for each other. *)
Take(l, p) ==
  /\ owner[l] = Free
  /\ \A k \in Locks : owner[k] # p
  /\ owner' = [owner EXCEPT ![l] = p]
  /\ inside' = [inside EXCEPT ![l] = {p}]

Leave(l, p, to) ==
  /\ owner[l] = p
  /\ owner' = [owner EXCEPT ![l] = to]
  /\ inside' = [inside EXCEPT ![l] = {}]

Next ==
  \E l \in Locks, p \in Procs :
    Take(l, p) \/ Leave(l, p, Free) \/ Leave(l, p, Orphan)

Spec == Init /\ [][Next]_vars
=============================================================================
