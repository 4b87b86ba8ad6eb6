------------------------- MODULE InstanceLockProofs -------------------------
(***************************************************************************)
(* What InstanceLock guarantees for any number of workers, any depth of    *)
(* re-entry and any pair of timeouts with WorkerTimeout <= LockTimeout.    *)
(***************************************************************************)
EXTENDS InstanceLock, TLAPS

-----------------------------------------------------------------------------
(* A process holds the lock for no longer than its request has lasted.     *)
(* Together with the bound on a request this is what separates a lock that *)
(* is merely busy from one whose holder is dead.                           *)
HeldWithinRequest ==
  \A p \in Procs : pc[p] \in Holding => heldAge <= requestAge[p]

(* The inductive invariant: StampCoversHolder needs HolderOwnsLock, for no *)
(* other process may delete the timestamp, and HeldWithinRequest does too, *)
(* for no other process may restart the clock of the lock.                 *)
LockInv ==
  /\ TypeOK
  /\ HolderOwnsLock
  /\ StampCoversHolder
  /\ HeldWithinRequest

(* The two halves of type correctness; the second is a step of LockInv too. *)
LEMMA TypeInit == Init => TypeOK
BY LockAssumption
   DEF Init, TypeOK, Procs, Holding, Checking, TooOld, NoStamp

(* A step of any process, or of time, keeps every variable in its type. *)
LEMMA TypeStep == TypeOK /\ [Next]_vars => TypeOK'
<1> SUFFICES ASSUME TypeOK, [Next]_vars
             PROVE  TypeOK'
  OBVIOUS
<1> USE LockAssumption DEF TypeOK, Procs, Holding, Checking, TooOld, NoStamp
<1>1. ASSUME NEW p \in Procs, WorkerStep(p)
      PROVE  TypeOK'
  BY <1>1 DEF WorkerStep, Begin, End, Acquire, WriteStamp, Reenter,
              LeaveInner, DeleteStamp, Release, Die, Goto
<1>2. CASE HarvesterStep
  BY <1>2 DEF HarvesterStep, Refused, ReadStamp, SupplyStamp, KillLocked, Goto
<1>3. CASE Tick
  BY <1>3 DEF Tick, Older
<1>4. CASE UNCHANGED vars
  BY <1>4 DEF vars
<1>5. QED
  BY <1>1, <1>2, <1>3, <1>4 DEF Next

(* Type correctness of InstanceLock, TypeOK. *)
THEOREM TypeCorrect == Spec => []TypeOK
BY TypeInit, TypeStep, PTL DEF Spec

-----------------------------------------------------------------------------
(* One step of any kind preserves the inductive invariant. *)
LEMMA LockInvStep == LockInv /\ [Next]_vars => LockInv'
<1> SUFFICES ASSUME LockInv, [Next]_vars
             PROVE  LockInv'
  OBVIOUS
<1> USE LockAssumption DEF LockInv
<1>1. TypeOK'
  BY TypeStep
<1>2. HolderOwnsLock'
  <2> USE DEF HolderOwnsLock, TypeOK, Procs, Holding
  <2>1. ASSUME NEW p \in Procs, WorkerStep(p)
        PROVE  HolderOwnsLock'
    BY <2>1 DEF WorkerStep, Begin, End, Acquire, WriteStamp, Reenter,
                LeaveInner, DeleteStamp, Release, Die, Goto
  <2>2. CASE HarvesterStep
    BY <2>2 DEF HarvesterStep, Refused, ReadStamp, SupplyStamp, KillLocked,
                Goto
  <2>3. CASE Tick
    BY <2>3 DEF Tick
  <2>4. CASE UNCHANGED vars
    BY <2>4 DEF vars
  <2>5. QED
    BY <2>1, <2>2, <2>3, <2>4 DEF Next
<1>3. StampCoversHolder'
  <2> USE DEF HolderOwnsLock, StampCoversHolder, TypeOK, Procs, Holding,
              Checking, TooOld, NoStamp
  <2>1. ASSUME NEW p \in Procs, WorkerStep(p)
        PROVE  StampCoversHolder'
    BY <2>1 DEF WorkerStep, Begin, End, Acquire, WriteStamp, Reenter,
                LeaveInner, DeleteStamp, Release, Die, Goto
  <2>2. CASE HarvesterStep
    BY <2>2 DEF HarvesterStep, Refused, ReadStamp, SupplyStamp, KillLocked,
                Goto
  <2>3. CASE Tick
    BY <2>3 DEF Tick, Older
  <2>4. CASE UNCHANGED vars
    BY <2>4 DEF vars
  <2>5. QED
    BY <2>1, <2>2, <2>3, <2>4 DEF Next
<1>4. HeldWithinRequest'
  <2> USE DEF HolderOwnsLock, HeldWithinRequest, TypeOK, Procs, Holding,
              Checking, TooOld
  <2>1. ASSUME NEW p \in Procs, WorkerStep(p)
        PROVE  HeldWithinRequest'
    BY <2>1 DEF WorkerStep, Begin, End, Acquire, WriteStamp, Reenter,
                LeaveInner, DeleteStamp, Release, Die, Goto
  <2>2. CASE HarvesterStep
    BY <2>2 DEF HarvesterStep, Refused, ReadStamp, SupplyStamp, KillLocked,
                Goto
  <2>3. CASE Tick
    BY <2>3 DEF Tick, Older
  <2>4. CASE UNCHANGED vars
    BY <2>4 DEF vars
  <2>5. QED
    BY <2>1, <2>2, <2>3, <2>4 DEF Next
<1>5. QED
  BY <1>1, <1>2, <1>3, <1>4

(* The inductive invariant holds throughout. *)
LEMMA LockInvariant == Spec => []LockInv
<1>1. Init => LockInv
  BY TypeInit, LockAssumption
     DEF Init, LockInv, HolderOwnsLock, StampCoversHolder, HeldWithinRequest,
         Holding
<1>2. QED
  BY <1>1, LockInvStep, PTL DEF Spec

(* Mutual exclusion across frames, processes and deaths: the owner of the  *)
(* redis lock is whichever process is inside _InstanceContextManager.      *)
THEOREM MutualExclusion == Spec => []HolderOwnsLock
BY LockInvariant, PTL DEF LockInv

(* The timestamp of a lock somebody works under is that holder's own or a  *)
(* later one, so is_locked_for_too_long never judges by a stale one.       *)
THEOREM StampIsCurrent == Spec => []StampCoversHolder
BY LockInvariant, PTL DEF LockInv

(* Nobody is condemned while working: a timestamp older than LockTimeout   *)
(* would mean a request older than WorkerTimeout, which gunicorn has ended.*)
THEOREM LiveHolderSafe == Spec => LiveHolderNotCondemned
<1>1. LockInv /\ [Next]_vars
        => [(\E p \in Procs : pc[p] \in {"held", "deleted"})
              => ~(pc[Harvester] = "refused"
                     /\ pc'[Harvester] = "condemning")]_vars
  <2> SUFFICES ASSUME LockInv, Next,
                      NEW p \in Procs, pc[p] \in {"held", "deleted"},
                      pc[Harvester] = "refused",
                      pc'[Harvester] = "condemning"
               PROVE  FALSE
    BY DEF vars
  <2>1. stampAge \in 0..LockTimeout \cup {NoStamp}
    <3>1. stampAge <= heldAge /\ heldAge <= requestAge[p]
      BY DEF LockInv, StampCoversHolder, HeldWithinRequest, Holding
    <3>2. /\ stampAge \in 0..TooOld \cup {NoStamp}
          /\ heldAge \in Int
          /\ requestAge[p] \in 0..WorkerTimeout
      BY LockAssumption DEF LockInv, TypeOK, NoStamp, TooOld
    <3>3. QED
      BY <3>1, <3>2, LockAssumption DEF TooOld
  <2>2. ~ReadStamp
    BY <2>1, LockAssumption DEF ReadStamp, Goto, NoStamp, LockInv, TypeOK, Procs
  <2>3. ~(Refused \/ SupplyStamp \/ KillLocked \/ Tick)
    BY LockAssumption
       DEF Refused, SupplyStamp, KillLocked, Tick, Goto, LockInv, TypeOK, Procs
  <2>4. ASSUME NEW q \in Procs, WorkerStep(q)
        PROVE  FALSE
    BY <2>4, LockAssumption
       DEF WorkerStep, Begin, End, Acquire, WriteStamp, Reenter, LeaveInner,
           DeleteStamp, Release, Die, Goto, LockInv, TypeOK, Procs
  <2>5. QED
    BY <2>2, <2>3, <2>4 DEF Next, HarvesterStep
<1>2. QED
  BY <1>1, LockInvariant, PTL DEF Spec, LiveHolderNotCondemned
-----------------------------------------------------------------------------
(* The converse of HolderOwnsLock: nobody owns the lock who is not inside. *)
OwnerIsInside == \A p \in Procs : owner = p => pc[p] \in Holding

(* It is kept by every step, on top of LockInv. *)
LEMMA OwnerStep ==
  LockInv /\ OwnerIsInside /\ [Next]_vars => OwnerIsInside'
<1> SUFFICES ASSUME LockInv, OwnerIsInside, [Next]_vars
             PROVE  OwnerIsInside'
  OBVIOUS
<1> USE LockAssumption
    DEF OwnerIsInside, LockInv, HolderOwnsLock, TypeOK, Procs, Holding
<1>1. ASSUME NEW p \in Procs, WorkerStep(p)
      PROVE  OwnerIsInside'
  BY <1>1 DEF WorkerStep, Begin, End, Acquire, WriteStamp, Reenter,
              LeaveInner, DeleteStamp, Release, Die, Goto
<1>2. CASE HarvesterStep
  BY <1>2 DEF HarvesterStep, Refused, ReadStamp, SupplyStamp, KillLocked, Goto
<1>3. CASE Tick \/ UNCHANGED vars
  BY <1>3 DEF Tick, vars
<1>4. QED
  BY <1>1, <1>2, <1>3 DEF Next

(* The re-entrant lock, its timestamps, its judge and its dead holders are *)
(* together one lock of Lease: who is inside owns the lock and who owns it *)
(* is inside, so a step that takes the lock finds nobody there, and one    *)
(* that gives it back leaves nobody.                                       *)
THEOREM LockRefinement == Spec => LockIsLease
<1> DEFINE In == {p \in Procs : pc[p] \in Holding}
           One(x) == [l \in {"lock"} |-> x]
<1>1. Init => Lock!Init /\ OwnerIsInside
  BY LockAssumption DEF Init, Lock!Init, OwnerIsInside, Procs, Holding
<1>2. LockInv /\ LockInv' /\ OwnerIsInside /\ OwnerIsInside' /\ [Next]_vars
        => [Lock!Next]_Lock!vars
  <2> SUFFICES ASSUME LockInv, LockInv', OwnerIsInside, OwnerIsInside', [Next]_vars
               PROVE  [Lock!Next]_Lock!vars
    OBVIOUS
  <2>1. In = {p \in Procs : owner = p} /\ In' = {p \in Procs : owner' = p}
    BY DEF LockInv, HolderOwnsLock, OwnerIsInside
  <2>2. ASSUME owner' = owner
        PROVE  UNCHANGED Lock!vars
    BY <2>1, <2>2 DEF Lock!vars
  <2>3. ASSUME NEW p \in Procs, owner = Free, owner' = p
        PROVE  Lock!Take("lock", p)
    <3>1. In' = {p} /\ owner # p
      BY <2>1, <2>3, LockAssumption DEF Procs
    <3>2. QED
      BY <2>3, <3>1 DEF Lock!Take
  <2>4. ASSUME NEW p \in Procs, NEW to \in {Free, Orphan}, owner = p, owner' = to
        PROVE  Lock!Leave("lock", p, to)
    <3>1. In' = {}
      BY <2>1, <2>4, LockAssumption DEF Procs
    <3>2. QED
      BY <2>4, <3>1 DEF Lock!Leave
  <2>5. \/ owner' = owner
        \/ \E p \in Procs : owner = Free /\ owner' = p
        \/ \E p \in Procs, to \in {Free, Orphan} : owner = p /\ owner' = to
    <3>1. ASSUME NEW p \in Procs, WorkerStep(p)
          PROVE  \/ owner' = owner
                 \/ owner = Free /\ owner' = p
                 \/ owner = p /\ owner' \in {Free, Orphan}
      BY <3>1, LockAssumption
         DEF WorkerStep, Begin, End, Acquire, WriteStamp, Reenter, LeaveInner,
             DeleteStamp, Release, Die, Goto, LockInv, HolderOwnsLock, Holding
    <3>2. CASE HarvesterStep \/ Tick \/ UNCHANGED vars
      BY <3>2 DEF HarvesterStep, Refused, ReadStamp, SupplyStamp, KillLocked,
                  Tick, vars
    <3>3. QED
      BY <3>1, <3>2 DEF Next
  <2>6. QED
    BY <2>2, <2>3, <2>4, <2>5 DEF Lock!Next
<1>3. Spec => [](LockInv /\ OwnerIsInside)
  BY <1>1, LockInvariant, OwnerStep, PTL DEF Spec
<1>4. QED
  BY <1>1, <1>2, <1>3, PTL DEF Spec, LockIsLease, Lock!Spec
=============================================================================
