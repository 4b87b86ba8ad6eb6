-------------------------- MODULE LocalhostProvider --------------------------
(***************************************************************************)
(* The localhost provider, and the request to kill instances               *)
(* (controller/instances/localhost.py, docker.py, instance_base.py).       *)
(*                                                                         *)
(* There is no state but docker's: an instance is an object made for the   *)
(* container of an execution, and "docker:" with the execution id is its   *)
(* instance id.  Whoever goes through the instances lists the containers   *)
(* once and looks each up again when its turn comes, so that a container   *)
(* that went away meanwhile turns up as None.  Runners and kill requests   *)
(* take no lock; the harvester and the deleters of an execution take that  *)
(* of its instance (InstanceLock).  Each step is a call to docker, redis   *)
(* or the results storage; rm stops a container that is stopped already.   *)
(***************************************************************************)
EXTENDS Naturals, FiniteSets

CONSTANTS
  Executions,
  Users,
  Owner,       \* the user in the start metadata of each execution
  Asks,        \* what requests to kill ask for
  Deletable,   \* executions the users may DELETE
  NoExec,
  Killers,     \* requests to kill instances
  MaxFaults    \* how many workers may die, and calls of a release fail

(* What main.py lets through of what a client may post: a list of          *)
(* instances, or no list and force; idle instances there are none of.      *)
Requests ==
  {r \in [user : Users, all : BOOLEAN, ids : SUBSET Executions,
          force : BOOLEAN, berserk : BOOLEAN] :
     IF r.all THEN r.ids = {} /\ r.force ELSE r.ids # {}}

ASSUME LocalAssumption ==
  /\ Owner \in [Executions -> Users]
  /\ Asks \subseteq Requests
  /\ Deletable \subseteq Executions
  /\ NoExec \notin Executions
  /\ MaxFaults \in Nat

Deleter(e) == <<"deleter", e>>
Killer(k) == <<"killer", k>>
Harvester == <<"harvester", "-">>
Free == <<"free", "-">>
Orphan == <<"orphan", "-">>

Releasers == {Harvester} \cup {Deleter(e) : e \in Deletable}
KillRequests == {Killer(k) : k \in Killers}
Procs == Releasers \cup KillRequests

NoRequest == [user |-> "-"]

VARIABLES
  box,       \* the container of each execution; "none" before and after it
  record,    \* what the results storage has of it: "none" or "results"
  lock,      \* who owns the redis lock of its instance
  run,       \* where the runner of each execution is
  pc,        \* where the harvester, the deleters and the kill requests are,
  at,        \*   the execution each works on,
  todo,      \*   and the ids it listed that are still to come
  ask,       \* what each kill request asks for,
  listed,    \*   the ids it listed,
  left,      \*   unprocessed_instance_ids,
  told,      \*   the instances it has messages about, and
  hit,       \*   there_is_one_instance
  faults     \* how many faults are still to come

killVars == <<ask, listed, left, told, hit>>
passVars == <<at, todo>>
vars == <<box, record, lock, run, pc, passVars, killVars, faults>>

Releasing == {"stop", "publish", "remove"}
Killing == {"state", "kill", "rm"}
Answered == {"ok", "failed", "noInstances", "crashed"}

TypeOK ==
  /\ box \in [Executions -> {"none", "created", "running", "exited"}]
  /\ record \in [Executions -> {"none", "results"}]
  /\ lock \in [Executions -> Releasers \cup {Free, Orphan}]
  /\ run \in [Executions -> {"new", "start", "done"}]
  /\ pc \in [Procs -> {"idle", "next", "enter", "inspect"}
                         \cup Releasing \cup Killing \cup Answered]
  /\ at \in [Procs -> Executions \cup {NoExec}]
  /\ todo \in [Procs -> SUBSET Executions]
  /\ ask \in [KillRequests -> Asks \cup {NoRequest}]
  /\ listed \in [KillRequests -> SUBSET Executions]
  /\ left \in [KillRequests -> SUBSET Executions]
  /\ \A k \in KillRequests : ask[k] # NoRequest =>
       left[k] \subseteq ask[k].ids \ told[k]
  /\ told \in [KillRequests -> SUBSET Executions]
  /\ hit \subseteq KillRequests
  /\ faults \in 0..MaxFaults

Init ==
  /\ box = [e \in Executions |-> "none"]
  /\ record = [e \in Executions |-> "none"]
  /\ lock = [e \in Executions |-> Free]
  /\ run = [e \in Executions |-> "new"]
  /\ pc = [p \in Procs |-> "idle"]
  /\ at = [p \in Procs |-> NoExec]
  /\ todo = [p \in Procs |-> {}]
  /\ ask = [k \in KillRequests |-> NoRequest]
  /\ listed = [k \in KillRequests |-> {}]
  /\ left = [k \in KillRequests |-> {}]
  /\ told = [k \in KillRequests |-> {}]
  /\ hit = {}
  /\ faults = MaxFaults

Goto(p, from, to) == pc[p] = from /\ pc' = [pc EXCEPT ![p] = to]
TurnTo(p, e) == at' = [at EXCEPT ![p] = e]
TurnAway(p) == TurnTo(p, NoExec)
SetBox(e, s) == box' = [box EXCEPT ![e] = s]
There(e) == box[e] # "none"
Present == {e \in Executions : There(e)}
Fault == faults > 0 /\ faults' = faults - 1

-----------------------------------------------------------------------------
(* run_in_instance: docker creates the container, and starts it.           *)

Create(e) ==
  /\ run[e] = "new" /\ run' = [run EXCEPT ![e] = "start"]
  /\ SetBox(e, "created")
  /\ UNCHANGED <<record, lock, pc, passVars, killVars, faults>>

StartContainer(e) ==
  /\ run[e] = "start" /\ run' = [run EXCEPT ![e] = "done"]
  /\ box' = IF box[e] = "created" THEN [box EXCEPT ![e] = "running"] ELSE box
  /\ UNCHANGED <<record, lock, pc, passVars, killVars, faults>>

RunnerDies(e) ==
  /\ run[e] = "start" /\ run' = [run EXCEPT ![e] = "done"]
  /\ Fault
  /\ UNCHANGED <<box, record, lock, pc, passVars, killVars>>

ContainerExits(e) ==
  /\ box[e] = "running"
  /\ SetBox(e, "exited")
  /\ UNCHANGED <<record, lock, run, pc, passVars, killVars, faults>>

-----------------------------------------------------------------------------
(* Going through the instances (instance_iterator and instance_for).       *)

List(p) ==
  /\ Goto(p, "idle", "next")
  /\ todo' = [todo EXCEPT ![p] = Present]

(* The None of an instance that vanished is asked for its id, or whether   *)
(* it is terminated: the pass ends with an AttributeError.                 *)
Vanished(p, e) ==
  /\ ~There(e)
  /\ Goto(p, "next", IF p = Harvester THEN "idle" ELSE "crashed")

Facing(p, e) == pc[p] = "next" /\ e \in todo[p]
Past(p, e) == todo' = [todo EXCEPT ![p] = @ \ {e}]

-----------------------------------------------------------------------------
(* DockerInstance.release, for the harvester and for DELETE.               *)

Outside(p) == IF p = Harvester THEN "next" ELSE "idle"

FindInstance(e) ==
  /\ There(e)
  /\ Goto(Deleter(e), "idle", "enter")
  /\ TurnTo(Deleter(e), e)
  /\ UNCHANGED <<box, record, lock, run, todo, killVars, faults>>

EnterRelease(p) ==
  /\ Goto(p, "enter", "stop")
  /\ lock[at[p]] = Free /\ lock' = [lock EXCEPT ![at[p]] = p]
  /\ UNCHANGED <<box, record, run, passVars, killVars, faults>>

StopContainer(p) ==
  /\ Goto(p, "stop", "publish")
  /\ There(at[p])
  /\ box' = IF box[at[p]] = "running" THEN [box EXCEPT ![at[p]] = "exited"] ELSE box
  /\ UNCHANGED <<record, lock, run, passVars, killVars, faults>>

(* mutant: what publish raises is swallowed, and is_finished not asked *)
PublishSwallowing(p) ==
  /\ Goto(p, "publish", "remove")
  /\ record' \in {record, [record EXCEPT ![at[p]] = "results"]}
  /\ UNCHANGED <<box, lock, run, passVars, killVars, faults>>

Publish(p) ==
  /\ Goto(p, "publish", "remove")
  /\ There(at[p])
  /\ record' = [record EXCEPT ![at[p]] = "results"]
  /\ UNCHANGED <<box, lock, run, passVars, killVars, faults>>

Remove(p) ==
  /\ Goto(p, "remove", Outside(p))
  /\ There(at[p])
  /\ SetBox(at[p], "none")
  /\ lock' = [lock EXCEPT ![at[p]] = Free]
  /\ TurnAway(p)
  /\ UNCHANGED <<record, run, todo, killVars, faults>>

(* mutant: the lock is not given back by an exception *)
ReleaseRaisesLocked(p) ==
  /\ pc[p] \in Releasing
  /\ \/ ~There(at[p]) /\ UNCHANGED faults
     \/ Fault
  /\ pc' = [pc EXCEPT ![p] = Outside(p)]
  /\ TurnAway(p)
  /\ UNCHANGED <<box, record, lock, run, todo, killVars>>

(* A call fails, as each does on a container that was killed meanwhile.    *)
ReleaseRaises(p) ==
  /\ pc[p] \in Releasing
  /\ \/ ~There(at[p]) /\ UNCHANGED faults
     \/ Fault
  /\ pc' = [pc EXCEPT ![p] = Outside(p)]
  /\ lock' = [lock EXCEPT ![at[p]] = Free]
  /\ TurnAway(p)
  /\ UNCHANGED <<box, record, run, todo, killVars>>

ForgetRequest(p) ==
  /\ ask' = [ask EXCEPT ![p] = NoRequest]
  /\ listed' = [listed EXCEPT ![p] = {}]
  /\ left' = [left EXCEPT ![p] = {}]
  /\ hit' = hit \ {p}

DropRequest(p) ==
  IF p \notin KillRequests THEN UNCHANGED killVars
  ELSE ForgetRequest(p) /\ told' = [told EXCEPT ![p] = {}]

WorkerDies(p) ==
  /\ pc[p] \notin {"idle"} \cup Answered /\ Fault
  /\ pc' = [pc EXCEPT ![p] = IF p \in KillRequests THEN "crashed" ELSE "idle"]
  /\ lock' = [e \in Executions |-> IF lock[e] = p THEN Orphan ELSE lock[e]]
  /\ TurnAway(p)
  /\ todo' = [todo EXCEPT ![p] = {}]
  /\ DropRequest(p)
  /\ UNCHANGED <<box, record, run>>

ReleaseStep(p) ==
  StopContainer(p) \/ Publish(p) \/ Remove(p) \/ ReleaseRaises(p)

DeleterStep(e) ==
  FindInstance(e) \/ EnterRelease(Deleter(e)) \/ ReleaseStep(Deleter(e))

-----------------------------------------------------------------------------
(* DockerInstance.kill, once it is to force: for the harvester, which logs *)
(* what is raised, and for a kill request, which keeps it as a message.    *)

Processed(p, e, messages) ==
  IF p = Harvester THEN UNCHANGED <<left, told>>
  ELSE /\ left' = [left EXCEPT ![p] = @ \ {e}]
       /\ told' = [told EXCEPT ![p] = @ \cup messages]

GetState(p) ==
  /\ pc[p] = "state" /\ There(at[p])
  /\ Goto(p, "state", IF box[at[p]] = "exited" THEN "rm" ELSE "kill")
  /\ UNCHANGED <<box, at, left, told>>

KillContainer(p) ==
  /\ Goto(p, "kill", "rm")
  /\ box[at[p]] = "running"
  /\ SetBox(at[p], "exited")
  /\ UNCHANGED <<at, left, told>>

Rm(p) ==
  /\ Goto(p, "rm", "next")
  /\ There(at[p])
  /\ SetBox(at[p], "none")
  /\ Processed(p, at[p], {}) /\ TurnAway(p)

(* mutant: what goes wrong is only logged *)
KillRaisesQuietly(p) ==
  /\ pc[p] \in Killing
  /\ ~There(at[p]) \/ (pc[p] = "kill" /\ box[at[p]] # "running")
  /\ pc' = [pc EXCEPT ![p] = "next"]
  /\ Processed(p, at[p], {}) /\ TurnAway(p)
  /\ UNCHANGED box

(* the container has gone, or is not running when it is to be killed *)
KillRaises(p) ==
  /\ pc[p] \in Killing
  /\ ~There(at[p]) \/ (pc[p] = "kill" /\ box[at[p]] # "running")
  /\ pc' = [pc EXCEPT ![p] = "next"]
  /\ Processed(p, at[p], {at[p]}) /\ TurnAway(p)
  /\ UNCHANGED box

KillStep(p) ==
  /\ GetState(p) \/ KillContainer(p) \/ Rm(p) \/ KillRaises(p)
  /\ UNCHANGED <<record, lock, run, todo, ask, listed, hit, faults>>

-----------------------------------------------------------------------------
(* harvest, posted again and again.                                        *)

HarvestPass ==
  /\ \/ List(Harvester)
     \/ /\ \/ todo[Harvester] = {} /\ Goto(Harvester, "next", "idle")
           \/ \E e \in todo[Harvester] : Vanished(Harvester, e)
        /\ todo' = [todo EXCEPT ![Harvester] = {}]
  /\ UNCHANGED <<box, record, lock, run, at, killVars, faults>>

PassOver(e) ==
  /\ Facing(Harvester, e) /\ There(e) /\ lock[e] # Free
  /\ Past(Harvester, e)
  /\ UNCHANGED <<box, record, lock, run, pc, at, killVars, faults>>

(* locked for too long: InstanceLock shows that its owner is dead *)
KillLocked(e) ==
  /\ Facing(Harvester, e) /\ There(e) /\ lock[e] = Orphan
  /\ Goto(Harvester, "next", "state")
  /\ TurnTo(Harvester, e)
  /\ Past(Harvester, e)
  /\ UNCHANGED <<box, record, lock, run, killVars, faults>>

Visit(e) ==
  /\ Facing(Harvester, e) /\ There(e)
  /\ Goto(Harvester, "next", "inspect")
  /\ lock[e] = Free /\ lock' = [lock EXCEPT ![e] = Harvester]
  /\ TurnTo(Harvester, e)
  /\ Past(Harvester, e)
  /\ UNCHANGED <<box, record, run, killVars, faults>>

(* get_execution_info: one that runs is left alone, and a missing          *)
(* container has nothing to release                                        *)
Inspect ==
  LET e == at[Harvester]
  IN /\ pc[Harvester] = "inspect"
     /\ \/ /\ box[e] = "exited"
           /\ Goto(Harvester, "inspect", "stop") /\ UNCHANGED <<lock, at>>
        \/ /\ box[e] # "exited"
           /\ Goto(Harvester, "inspect", "next")
           /\ lock' = [lock EXCEPT ![e] = Free] /\ TurnAway(Harvester)
     /\ UNCHANGED <<box, record, run, todo, killVars, faults>>

HarvesterStep ==
  \/ HarvestPass \/ Inspect \/ ReleaseStep(Harvester) \/ KillStep(Harvester)
  \/ \E e \in Executions : PassOver(e) \/ KillLocked(e) \/ Visit(e)

-----------------------------------------------------------------------------
(* kill_instances, for one request.                                        *)

BeginKill(p) ==
  /\ List(p)
  /\ listed' = [listed EXCEPT ![p] = Present]
  /\ \E r \in Asks :
       ask' = [ask EXCEPT ![p] = r] /\ left' = [left EXCEPT ![p] = r.ids]
  /\ UNCHANGED <<box, record, lock, run, at, told, hit, faults>>

KillVanished(p, e) ==
  /\ Facing(p, e) /\ Vanished(p, e)
  /\ todo' = [todo EXCEPT ![p] = {}]
  /\ DropRequest(p)
  /\ UNCHANGED <<box, record, lock, run, at, faults>>

Asked(p, e) == ask[p].all \/ e \in ask[p].ids
Theirs(p, e) == ask[p].berserk \/ ask[p].user = Owner[e]

(* not named, or somebody else's: which is worth a message to who named it *)
Spare(p, e) ==
  /\ Facing(p, e) /\ There(e)
  /\ \/ ~Asked(p, e) /\ UNCHANGED <<left, told>>
     \/ /\ Asked(p, e) /\ ~Theirs(p, e)
        /\ left' = [left EXCEPT ![p] = @ \ {e}]
        /\ told' = [told EXCEPT ![p] = IF ask[p].all THEN @ ELSE @ \cup {e}]
  /\ Past(p, e)
  /\ UNCHANGED <<box, record, lock, run, pc, at, ask, listed, hit, faults>>

(* without force, DockerInstance.kill refuses *)
BeginToKill(p, e) ==
  /\ Facing(p, e) /\ There(e)
  /\ Asked(p, e) /\ Theirs(p, e)
  /\ hit' = hit \cup {p}
  /\ Past(p, e)
  /\ \/ /\ ask[p].force
        /\ Goto(p, "next", "state") /\ TurnTo(p, e)
        /\ UNCHANGED <<left, told>>
     \/ /\ ~ask[p].force
        /\ Processed(p, e, {e})
        /\ UNCHANGED <<pc, at>>
  /\ UNCHANGED <<box, record, lock, run, ask, listed, faults>>

Close(p, messages) ==
  /\ todo[p] = {}
  /\ Goto(p, "next",
          IF messages # {} THEN "failed"
          ELSE IF ask[p].all /\ p \notin hit THEN "noInstances" ELSE "ok")
  /\ told' = [told EXCEPT ![p] = messages]
  /\ ForgetRequest(p)
  /\ UNCHANGED <<box, record, lock, run, passVars, faults>>

(* names that are left were not found, and get a message *)
Answer(p) == Close(p, told[p] \cup left[p])

KillRequestStep(p) ==
  \/ BeginKill(p) \/ KillStep(p) \/ Answer(p)
  \/ \E e \in Executions : KillVanished(p, e) \/ Spare(p, e) \/ BeginToKill(p, e)

-----------------------------------------------------------------------------
Next ==
  \/ \E e \in Executions :
       Create(e) \/ StartContainer(e) \/ RunnerDies(e) \/ ContainerExits(e)
  \/ \E e \in Deletable : DeleterStep(e)
  \/ HarvesterStep
  \/ \E p \in Procs : WorkerDies(p)
  \/ \E p \in KillRequests : KillRequestStep(p)

Spec == Init /\ [][Next]_vars

(* The harvester is called again after each answer, errors included;       *)
(* requests that were made are served; and one of its passes finds an      *)
(* orphaned lock held for too long (OrphanLeadsToKill of InstanceLock).    *)
Fairness ==
  /\ WF_vars(HarvesterStep)
  /\ \A e \in Deletable : WF_vars(DeleterStep(e) /\ pc[Deleter(e)] # "idle")
  /\ \A e \in Executions : SF_vars(KillLocked(e))

FairSpec == Spec /\ Fairness

-----------------------------------------------------------------------------
(* A container goes away without results only by being killed: because a   *)
(* worker died in the middle of its release, or by a request that forces   *)
(* and that is its owner's or ignores ownership, although kill requests,   *)
(* releases and passes of the harvester go on at the same time without     *)
(* knowing of one another.                                                 *)
OnlyTheKilledAreLost ==
  [][\A e \in Executions :
       There(e) /\ box'[e] = "none" /\ record[e] = "none"
         => \/ lock[e] = Orphan /\ pc[Harvester] = "rm" /\ at[Harvester] = e
            \/ \E p \in KillRequests :
                 /\ pc[p] = "rm" /\ at[p] = e /\ pc'[p] # "rm"
                 /\ ask[p].force
                 /\ ask[p].berserk \/ ask[p].user = Owner[e]]_vars

(* The provider as those see it who ask what became of an execution: it    *)
(* implements Placement, each container being an instance of its own that  *)
(* is lost by being killed.  No claim is made of processes: a DELETE that  *)
(* comes between docker's create and start stops nothing, and publishes    *)
(* and removes what has started meanwhile.                                 *)
Abstract == INSTANCE Placement WITH
  Instances <- Executions,
  waiting <- {e \in Executions : run[e] = "new"},
  on <- [e \in Executions |-> {e} \cap Present],
  alive <- {}

AbstractSpec == Abstract!Spec

(* Who inspects or releases an instance owns its lock, and who owns the    *)
(* lock is doing so; and so the locks are locks of Lease, although         *)
(* containers are killed, and go away, under the hands of their owners.    *)
Lock == INSTANCE Lease WITH
  Locks <- Executions,
  Procs <- Releasers,
  owner <- lock,
  inside <- [e \in Executions |->
               {p \in Releasers : pc[p] \in {"inspect"} \cup Releasing /\ at[p] = e}]

LocksAreLeases == Lock!Spec

(* What a request to kill was to kill has gone when it is answered, or its  *)
(* client is told about it by name, the instances that were not found and  *)
(* those of others included: whatever ended, was released or was killed    *)
(* under its hands.  The answer that there are no instances is true too.   *)
KillIsDone ==
  [][\A p \in KillRequests :
       pc[p] = "next" /\ pc'[p] \in {"ok", "failed", "noInstances"} =>
         \A e \in IF ask[p].all THEN {f \in listed[p] : Theirs(p, f)} ELSE ask[p].ids :
           e \in told'[p] \/ ~There(e)]_vars

(* An execution that has exited is harvested, or killed: passes that come  *)
(* to an early end, kill requests, deletes that fail and deaths of workers *)
(* do not keep it for ever.                                                *)
ExitedIsHarvested ==
  \A e \in Executions : box[e] = "exited" ~> ~There(e)
=============================================================================
