---------------------------- MODULE InstanceLock ----------------------------
(***************************************************************************)
(* The redis lock of one worker instance, together with the hash that      *)
(* keeps the second at which the lock was taken                            *)
(* (controller/instances/instance_base.py, _InstanceContextManager and     *)
(* Instance.is_locked_for_too_long).                                       *)
(*                                                                         *)
(* The lock never expires by itself.  A gunicorn worker that dies while it *)
(* holds it leaves it taken by a token nobody has any more; the harvester  *)
(* recognises that case by the age of the timestamp, and kills the         *)
(* instance.  Taking the lock and writing the timestamp are two redis      *)
(* calls, and so are deleting the timestamp and giving the lock back.      *)
(*                                                                         *)
(* Time is kept as ages, which stop growing at LockTimeout + 1: the code   *)
(* only ever asks whether an age exceeds LockTimeout.                      *)
(***************************************************************************)
EXTENDS Integers

CONSTANTS
  Workers,        \* gunicorn workers that serve requests on the instance
  Harvester,      \* the worker serving POST /executions/harvest
  Free,           \* owner of the lock when nobody holds it
  Orphan,         \* owner of the lock when its holder has died
  MaxDepth,       \* bound on the stack frames that re-enter the lock
  LockTimeout,    \* assumptions.instance_lock_timeout (start/docker.conf)
  WorkerTimeout   \* gunicorn's --timeout (services/controller/run)

(* The distinct names, and the one relation between the two configured     *)
(* times that the design relies on: 2000 seconds against 3600.             *)
ASSUME LockAssumption ==
  /\ Harvester \notin Workers
  /\ Free # Orphan
  /\ {Free, Orphan} \cap (Workers \cup {Harvester}) = {}
  /\ MaxDepth \in Nat
  /\ LockTimeout \in Nat
  /\ WorkerTimeout \in Nat
  /\ WorkerTimeout <= LockTimeout

Procs == Workers \cup {Harvester}

TooOld == LockTimeout + 1   \* where ages saturate
NoStamp == -1               \* the hash has no entry for the instance

VARIABLES
  owner,        \* who holds the redis lock
  stampAge,     \* age of the timestamp in the hash, or NoStamp
  heldAge,      \* time since the lock was last taken (an observer's clock)
  requestAge,   \* time since each process started its current request
  pc,           \* what each process is doing
  depth,        \* frames of the process that re-entered the lock it holds
  instance      \* whether the instance was ever killed for its lock

vars == <<owner, stampAge, heldAge, requestAge, pc, depth, instance>>

Holding == {"acquired", "held", "deleted"}
Checking == {"refused", "stamping", "condemning"}

TypeOK ==
  /\ owner \in Procs \cup {Free, Orphan}
  /\ stampAge \in 0..TooOld \cup {NoStamp}
  /\ heldAge \in 0..TooOld
  /\ requestAge \in [Procs -> 0..WorkerTimeout]
  /\ pc \in [Procs -> {"resting", "running"} \cup Holding \cup Checking]
  /\ depth \in [Procs -> 0..MaxDepth]
  /\ instance \in {"alive", "killed"}

Init ==
  /\ owner = Free
  /\ stampAge = NoStamp
  /\ heldAge = 0
  /\ requestAge = [p \in Procs |-> 0]
  /\ pc = [p \in Procs |-> "resting"]
  /\ depth = [p \in Procs |-> 0]
  /\ instance = "alive"

Goto(p, from, to) == pc[p] = from /\ pc' = [pc EXCEPT ![p] = to]

-----------------------------------------------------------------------------
(* Plausible mistakes in the code: each is checked to break a property.    *)

(* an inner frame gives the lock back *)
LeaveInnerReleasing(p) ==
  /\ pc[p] = "held" /\ depth[p] > 0
  /\ depth' = [depth EXCEPT ![p] = @ - 1]
  /\ owner' = Free
  /\ UNCHANGED <<stampAge, heldAge, requestAge, pc, instance>>

(* hsetnx for hset: a timestamp that is already there stays *)
WriteStampIfAbsent(p) ==
  /\ Goto(p, "acquired", "held")
  /\ stampAge' = IF stampAge = NoStamp THEN 0 ELSE stampAge
  /\ UNCHANGED <<owner, heldAge, requestAge, depth, instance>>

(* >= for >, with nothing between the two timeouts *)
ReadStampAtTimeout ==
  /\ \/ stampAge = NoStamp /\ Goto(Harvester, "refused", "stamping")
     \/ stampAge >= LockTimeout /\ Goto(Harvester, "refused", "condemning")
     \/ stampAge \in 0..(LockTimeout - 1) /\ Goto(Harvester, "refused", "running")
  /\ UNCHANGED <<owner, stampAge, heldAge, requestAge, depth, instance>>

(* a missing timestamp is reported but not supplied *)
SupplyStampForgotten ==
  /\ Goto(Harvester, "stamping", "running")
  /\ UNCHANGED <<owner, stampAge, heldAge, requestAge, depth, instance>>

-----------------------------------------------------------------------------
(* Requests.                                                               *)

Begin(p) ==
  /\ Goto(p, "resting", "running")
  /\ requestAge' = [requestAge EXCEPT ![p] = 0]
  /\ UNCHANGED <<owner, stampAge, heldAge, depth, instance>>

End(p) ==
  /\ Goto(p, "running", "resting")
  /\ UNCHANGED <<owner, stampAge, heldAge, requestAge, depth, instance>>

-----------------------------------------------------------------------------
(* _InstanceContextManager.  A refused non-blocking acquire and a poll of  *)
(* a blocking one change nothing, and are stuttering steps.                *)

Acquire(p) ==
  /\ owner = Free
  /\ Goto(p, "running", "acquired")
  /\ owner' = p
  /\ heldAge' = 0
  /\ UNCHANGED <<stampAge, requestAge, depth, instance>>

WriteStamp(p) ==
  /\ Goto(p, "acquired", "held")
  /\ stampAge' = 0
  /\ UNCHANGED <<owner, heldAge, requestAge, depth, instance>>

(* The lock object already has a token: acquire says yes and remembers     *)
(* that this frame has nothing to give back.                               *)
Reenter(p) ==
  /\ pc[p] = "held" /\ depth[p] < MaxDepth
  /\ depth' = [depth EXCEPT ![p] = @ + 1]
  /\ UNCHANGED <<owner, stampAge, heldAge, requestAge, pc, instance>>

LeaveInner(p) ==
  /\ pc[p] = "held" /\ depth[p] > 0
  /\ depth' = [depth EXCEPT ![p] = @ - 1]
  /\ UNCHANGED <<owner, stampAge, heldAge, requestAge, pc, instance>>

DeleteStamp(p) ==
  /\ depth[p] = 0
  /\ Goto(p, "held", "deleted")
  /\ stampAge' = NoStamp
  /\ UNCHANGED <<owner, heldAge, requestAge, depth, instance>>

Release(p) ==
  /\ Goto(p, "deleted", "running")
  /\ owner' = Free
  /\ UNCHANGED <<stampAge, heldAge, requestAge, depth, instance>>

-----------------------------------------------------------------------------
(* is_locked_for_too_long, once its own non-blocking acquire was refused   *)
(* (when it is granted, it is an Acquire of the harvester followed by a    *)
(* release), and the kill that follows a positive answer.                  *)

Refused ==
  /\ owner # Free
  /\ Goto(Harvester, "running", "refused")
  /\ UNCHANGED <<owner, stampAge, heldAge, requestAge, depth, instance>>

ReadStamp ==
  /\ \/ stampAge = NoStamp /\ Goto(Harvester, "refused", "stamping")
     \/ stampAge > LockTimeout /\ Goto(Harvester, "refused", "condemning")
     \/ stampAge \in 0..LockTimeout /\ Goto(Harvester, "refused", "running")
  /\ UNCHANGED <<owner, stampAge, heldAge, requestAge, depth, instance>>

SupplyStamp ==
  /\ Goto(Harvester, "stamping", "running")
  /\ stampAge' = 0
  /\ UNCHANGED <<owner, heldAge, requestAge, depth, instance>>

KillLocked ==
  /\ Goto(Harvester, "condemning", "running")
  /\ instance' = "killed"
  /\ UNCHANGED <<owner, stampAge, heldAge, requestAge, depth>>

-----------------------------------------------------------------------------
(* Worker processes die at any point, and gunicorn kills the ones whose    *)
(* request is older than WorkerTimeout; time does not pass before it does. *)

Die(p) ==
  /\ pc[p] # "resting"
  /\ pc' = [pc EXCEPT ![p] = "resting"]
  /\ depth' = [depth EXCEPT ![p] = 0]
  /\ owner' = IF owner = p THEN Orphan ELSE owner
  /\ UNCHANGED <<stampAge, heldAge, requestAge, instance>>

TimeoutKill(p) == requestAge[p] = WorkerTimeout /\ Die(p)

Older(age) == IF age = TooOld THEN TooOld ELSE age + 1

Tick ==
  /\ \A p \in Procs : pc[p] # "resting" => requestAge[p] < WorkerTimeout
  /\ stampAge' = IF stampAge = NoStamp THEN NoStamp ELSE Older(stampAge)
  /\ heldAge' = Older(heldAge)
  /\ requestAge' = [p \in Procs |-> IF pc[p] = "resting"
                                    THEN requestAge[p]
                                    ELSE requestAge[p] + 1]
  /\ UNCHANGED <<owner, pc, depth, instance>>

-----------------------------------------------------------------------------
HarvesterStep == Refused \/ ReadStamp \/ SupplyStamp \/ KillLocked

WorkerStep(p) ==
  \/ Begin(p) \/ End(p)
  \/ Acquire(p) \/ WriteStamp(p) \/ Reenter(p) \/ LeaveInner(p)
  \/ DeleteStamp(p) \/ Release(p)
  \/ Die(p)

Next ==
  \/ \E p \in Procs : WorkerStep(p)
  \/ HarvesterStep
  \/ Tick

Spec == Init /\ [][Next]_vars

(* Time passes, gunicorn enforces its timeout, the harvester's shell loop  *)
(* posts again after each answer, and a check of one lock, three redis     *)
(* calls long, is not cut short by the worker timeout for ever.            *)
Fairness ==
  /\ SF_vars(Tick)
  /\ \A p \in Procs : WF_vars(TimeoutKill(p))
  /\ WF_vars(Begin(Harvester))
  /\ SF_vars(Refused) /\ SF_vars(ReadStamp)
  /\ SF_vars(SupplyStamp) /\ SF_vars(KillLocked)

FairSpec == Spec /\ Fairness

-----------------------------------------------------------------------------
(* A process between its acquire and the end of its release owns the redis *)
(* lock, however many frames of it entered and left in between: so two     *)
(* processes are never inside at once (_InstanceContextManager).           *)
HolderOwnsLock == \A p \in Procs : pc[p] \in Holding => owner = p

(* _InstanceContextManager as its callers see it: re-entry, the hash of    *)
(* timestamps, the harvester's judgement and the deaths implement one      *)
(* lock of Lease.  A process is inside from its acquire to its release.    *)
Lock == INSTANCE Lease WITH
  Locks <- {"lock"},
  owner <- [l \in {"lock"} |-> owner],
  inside <- [l \in {"lock"} |-> {p \in Procs : pc[p] \in Holding}]

LockIsLease == Lock!Spec

(* While a process works under the lock the hash has a timestamp, and not  *)
(* one from before the process took the lock: neither an earlier holder's  *)
(* deletion nor the harvester's own write can spoil it.  Between deleting  *)
(* the timestamp and giving the lock back there may be none.               *)
StampCoversHolder ==
  \A p \in Procs :
    /\ pc[p] = "held" => stampAge # NoStamp
    /\ pc[p] \in {"held", "deleted"} => stampAge <= heldAge

(* is_locked_for_too_long never says yes of a lock a live process is       *)
(* working under, or about to give back: by then gunicorn has killed that  *)
(* process.                                                                *)
LiveHolderNotCondemned ==
  [][(\E p \in Procs : pc[p] \in {"held", "deleted"})
       => ~(pc[Harvester] = "refused" /\ pc'[Harvester] = "condemning")]_vars

(* A lock whose holder died does get its instance killed, even when the    *)
(* holder died before it wrote the timestamp (the warning branch of        *)
(* is_locked_for_too_long).                                                *)
OrphanLeadsToKill == owner = Orphan ~> instance = "killed"
=============================================================================
