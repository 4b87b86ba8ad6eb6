--------------------------- MODULE EC2InstanceGroup ---------------------------
(***************************************************************************)
(* The EC2 instance group of the controller: how executions get hold of    *)
(* worker instances, and how instances are released, disposed of, killed   *)
(* and forgotten (controller/instances/aws/ec2_instance_group.py,          *)
(* ec2_instance.py, instance_base.py and docker.py).                       *)
(*                                                                         *)
(* The controller has no table of its own: the tags AWS keeps on every     *)
(* instance are the state.  A request works on an EC2Instance object that  *)
(* holds a copy of the tags, read when the object was made and again after *)
(* each of its own writes, so what the code tests may be old.  Three kinds *)
(* of request meet here: the runner of each execution, the harvester, and  *)
(* the deleter of an execution; a kill without force is a fourth.  Each    *)
(* step below is one call to AWS, docker, redis or the results storage.    *)
(*                                                                         *)
(* The lock of an instance is the one InstanceLock describes; whether it   *)
(* has been held for too long is answered here by its owner being dead.    *)
(***************************************************************************)
EXTENDS Integers, FiniteSets

CONSTANTS
  Instances,      \* every AWS instance the group may come to have
  Executions,     \* execution ids
  NoExec,         \* the empty string in a tag
  NoInst,         \* None
  MaxTries,       \* max_tries of run_in_instance
  Deletable,      \* executions the users may DELETE
  WorkersMayDie,  \* a gunicorn worker may be killed at any point
  CallsMayFail,   \* a call to AWS may raise
  Interruptions,  \* AWS may take an instance back (spot, uptime limit)
  KillRequests    \* users may ask to kill idle instances, without force

ASSUME GroupAssumption ==
  /\ NoExec \notin Executions
  /\ NoInst \notin Instances
  /\ MaxTries \in Nat
  /\ Deletable \subseteq Executions
  /\ {WorkersMayDie, CallsMayFail, Interruptions, KillRequests} \subseteq BOOLEAN

Tags == Executions \cup {NoExec}

Runner(e) == <<"runner", e>>
Deleter(e) == <<"deleter", e>>
Harvester == <<"harvester", NoExec>>
Free == <<"free", NoExec>>
Orphan == <<"orphan", NoExec>>       \* held by a process that died

Releasers == {Harvester} \cup {Deleter(e) : e \in Executions}
Procs == Releasers \cup {Runner(e) : e \in Executions}

VARIABLES
  state,     \* of each instance; "delisted": terminated, with no group tag
  exec,      \* its Plz:Execution-Id tag
  mark,      \* its Plz:Earmark-Execution-Id tag
  box,       \* the containers in it: box[i][e]
  lock,      \* who owns its redis lock
  record,    \* what the results storage has of each execution
  pc,        \* run_in_instance: where the runner of each execution is,
  data,      \*   the instance its instance_data describes,
  object,    \*   the instance its EC2Instance object stands for,
  marked,    \*   the runners whose object shows their own earmark,
  recreate,  \*   those with need_to_recreate_instance set,
  tries,     \*   and their tries_remaining
  rpc,       \* where the harvester and the deleters are,
  at,        \*   the instance each works on,
  todo,      \*   the instances the harvester's pass has still to visit,
  seen,      \*   and the Execution-Id tags it listed them with
  killSeen,  \* the instances the latest kill request listed as idle
  (* history, which no step of the code looks at: *)
  unread,    \* the instances whose earmark was emptied by a call of
             \*   _set_tags that could not read the tags again,
  missed     \* the executions whose instance was forgotten by a pass that
             \*   had listed it without their tag

awsVars == <<state, exec, mark, unread, missed>>
runnerVars == <<pc, data, object, marked, recreate, tries>>
harvestVars == <<rpc, at, todo, seen>>
vars == <<awsVars, box, lock, record, runnerVars, harvestVars, killSeen>>

Launching == {"launch", "tag", "untag"}
Yielding == {"loop", "ask", "remake", "made", "enter", "unmark"}
Ended == {"new", "started", "failed", "dead"}
RunnerPc == Launching \cup Yielding \cup Ended
              \cup {"query", "make", "mark", "marking", "reread", "probe", "askAgain",
                    "finish"}
Homeless == RunnerPc \ {"tag", "untag", "finish", "started", "failed", "dead"}
Releasing == {"stop", "publish", "remove", "clear"}
HarvestLocked == {"inspect", "bury", "tombstone", "delist", "forget", "dispose"}
ReleaserPc == {"idle", "next", "enter"} \cup Releasing \cup HarvestLocked

TypeOK ==
  /\ state \in [Instances ->
                  {"absent", "pending", "running", "terminated", "delisted"}]
  /\ exec \in [Instances -> Tags]
  /\ mark \in [Instances -> Tags]
  /\ box \in [Instances -> [Executions -> {"none", "running", "exited"}]]
  /\ lock \in [Instances -> Procs \cup {Free, Orphan}]
  /\ record \in [Executions -> {"none", "results", "tombstone"}]
  /\ pc \in [Executions -> RunnerPc]
  /\ data \in [Executions -> Instances \cup {NoInst}]
  /\ object \in [Executions -> Instances \cup {NoInst}]
  /\ marked \subseteq Executions
  /\ recreate \subseteq Executions
  /\ tries \in [Executions -> 0..MaxTries]
  /\ rpc \in [Releasers -> ReleaserPc]
  /\ at \in [Releasers -> Instances \cup {NoInst}]
  /\ todo \subseteq Instances
  /\ seen \in [Instances -> Tags]
  /\ killSeen \subseteq Instances
  /\ unread \subseteq Instances
  /\ missed \subseteq Executions

(* A controller starts among whatever idle instances earlier executions    *)
(* left running.                                                           *)
Init ==
  /\ state \in [Instances -> {"absent", "running"}]
  /\ exec = [i \in Instances |-> NoExec]
  /\ mark = [i \in Instances |-> NoExec]
  /\ box = [i \in Instances |-> [e \in Executions |-> "none"]]
  /\ lock = [i \in Instances |-> Free]
  /\ record = [e \in Executions |-> "none"]
  /\ pc = [e \in Executions |-> "new"]
  /\ data = [e \in Executions |-> NoInst]
  /\ object = [e \in Executions |-> NoInst]
  /\ marked = {}
  /\ recreate = {}
  /\ tries = [e \in Executions |-> 0]
  /\ rpc = [r \in Releasers |-> "idle"]
  /\ at = [r \in Releasers |-> NoInst]
  /\ todo = {}
  /\ seen = [i \in Instances |-> NoExec]
  /\ killSeen = {}
  /\ unread = {}
  /\ missed = {}

-----------------------------------------------------------------------------
(* What the steps are made of.                                             *)

Goto(e, from, to) == pc[e] = from /\ pc' = [pc EXCEPT ![e] = to]
RGoto(r, from, to) == rpc[r] = from /\ rpc' = [rpc EXCEPT ![r] = to]

Take(i, p) == lock[i] = Free /\ lock' = [lock EXCEPT ![i] = p]
Give(i) == lock' = [lock EXCEPT ![i] = Free]

SetExec(i, e) == exec' = [exec EXCEPT ![i] = e]
SetMark(i, e) == mark' = [mark EXCEPT ![i] = e]
SetBox(i, e, s) == box' = [box EXCEPT ![i][e] = s]

(* mutant: the filter on the Execution-Id tag is dropped *)
EarmarkFreeFor(i, marks) == mark[i] \in marks

(* _is_running_and_free, asked of AWS itself, not of the cached tags       *)
FreeFor(i, marks) == exec[i] = NoExec /\ mark[i] \in marks

Listed == {i \in Instances : state[i] \in {"pending", "running", "terminated"}}

(* terminate_instances, or AWS doing as much of its own accord: whatever   *)
(* ran on the instance is gone, and its tags are still there to be read    *)
Terminate(i) ==
  /\ state' = [state EXCEPT ![i] = "terminated"]
  /\ box' = [box EXCEPT ![i] = [e \in Executions |-> "none"]]
  /\ UNCHANGED <<exec, mark, unread, missed>>

-----------------------------------------------------------------------------
(* run_in_instance, for one execution.                                     *)

Start(e) ==
  /\ Goto(e, "new", "loop")
  /\ tries' = [tries EXCEPT ![e] = MaxTries]
  /\ UNCHANGED <<awsVars, box, lock, record, data, object, marked, recreate,
                 harvestVars, killSeen>>

(* mutant: tries_remaining is not looked at *)
LoopUncounted(e) ==
  /\ Goto(e, "loop",
          IF data[e] = NoInst THEN "query"
          ELSE IF object[e] = NoInst \/ e \in recreate THEN "remake"
          ELSE "probe")
  /\ UNCHANGED <<awsVars, box, lock, record, data, object, marked, recreate,
                 tries, harvestVars, killSeen>>

(* the head of the while loop *)
Loop(e) ==
  /\ \/ tries[e] = 0 /\ Goto(e, "loop", "finish") /\ UNCHANGED tries
     \/ /\ tries[e] > 0
        /\ tries' = [tries EXCEPT ![e] = @ - 1]
        /\ Goto(e, "loop",
                IF data[e] = NoInst THEN "query"
                ELSE IF object[e] = NoInst \/ e \in recreate THEN "remake"
                ELSE "probe")
  /\ UNCHANGED <<awsVars, box, lock, record, data, object, marked, recreate,
                 harvestVars, killSeen>>

Query(e) ==
  /\ LET free == {i \in Instances : state[i] = "running" /\ FreeFor(i, {NoExec})}
     IN \/ \E i \in free :
             data' = [data EXCEPT ![e] = i] /\ Goto(e, "query", "remake")
        \/ free = {} /\ Goto(e, "query", "ask") /\ UNCHANGED data
  /\ UNCHANGED <<awsVars, box, lock, record, object, marked, recreate, tries,
                 harvestVars, killSeen>>

(* run_instances: the new instance is born with the earmark *)
NewInstance(e, i) ==
  /\ state[i] = "absent"
  /\ state' = [state EXCEPT ![i] = "pending"]
  /\ SetMark(i, e)
  /\ data' = [data EXCEPT ![e] = i]
  /\ UNCHANGED <<exec, unread, missed, box, lock, record, object, marked, tries,
                 harvestVars, killSeen>>

Ask(e) ==
  \E i \in Instances :
    NewInstance(e, i) /\ Goto(e, "ask", "remake") /\ UNCHANGED recreate

(* from _start_container_in_instance, which goes back to the loop *)
AskAgain(e) ==
  \E i \in Instances :
    /\ NewInstance(e, i)
    /\ Goto(e, "askAgain", "loop")
    /\ recreate' = recreate \cup {e}

(* _do_unearmark, where _set_tags writes to AWS and fails to read the tags *)
(* again: the earmark is gone, and the object shows it still               *)
UnmarkUnread(e) ==
  /\ CallsMayFail
  /\ SetMark(object[e], NoExec)
  /\ unread' = unread \cup ({object[e]} \ {NoInst})
  /\ UNCHANGED marked

(* the object shows the earmark of its execution, be it there or not       *)
ShowsMark(e) == e \in marked /\ object[e] # NoInst

(* mutant: whoever the instance is earmarked for *)
HardUnearmarkAnyone(e) ==
  \/ object[e] # NoInst /\ SetMark(object[e], NoExec)
  \/ object[e] = NoInst /\ UNCHANGED mark

(* hard_unearmark_for: no lock, and the cached earmark decides *)
HardUnearmark(e) ==
  \/ ShowsMark(e) /\ SetMark(object[e], NoExec)
  \/ ~ShowsMark(e) /\ UNCHANGED mark

Remake(e) ==
  /\ \/ /\ Goto(e, "remake", "make")
        /\ HardUnearmark(e) /\ marked' = marked \ {e} /\ UNCHANGED unread
     \/ Goto(e, "remake", "finish") /\ ShowsMark(e) /\ UnmarkUnread(e)
  /\ UNCHANGED <<state, exec, missed, box, lock, record, data, object, recreate,
                 tries, harvestVars, killSeen>>

(* _make_earmarked_instance_from_data up to earmark_for, which is done at  *)
(* once when the fresh tags already show the earmark; a pending instance   *)
(* may have no DNS name yet, and a terminated one has none any more        *)
Make(e) ==
  /\ pc[e] = "make"
  /\ \/ /\ state[data[e]] \in {"pending", "running"}
        /\ object' = [object EXCEPT ![e] = data[e]]
        /\ \/ /\ mark[data[e]] = e
              /\ marked' = marked \cup {e} /\ Goto(e, "make", "made")
           \/ /\ mark[data[e]] # e
              /\ marked' = marked \ {e} /\ Goto(e, "make", "mark")
     \/ /\ state[data[e]] # "running"
        /\ object' = [object EXCEPT ![e] = NoInst]
        /\ marked' = marked \ {e} /\ Goto(e, "make", "loop")
  /\ UNCHANGED <<awsVars, box, lock, record, data, recreate, tries,
                 harvestVars, killSeen>>

(* mutant: having the lock is taken for the instance being free *)
EarmarkUnchecked(e) ==
  /\ Goto(e, "mark", "marking")
  /\ Take(object[e], Runner(e))
  /\ UNCHANGED <<awsVars, box, record, data, object, marked, recreate, tries,
                 harvestVars, killSeen>>

(* earmark_for: the non-blocking lock, with the check, and then the tag *)
EarmarkGranted(e) ==
  /\ Goto(e, "mark", "marking")
  /\ FreeFor(object[e], {NoExec, e})
  /\ Take(object[e], Runner(e))
  /\ UNCHANGED <<awsVars, box, record, data, object, marked, recreate, tries,
                 harvestVars, killSeen>>

EarmarkRefused(e) ==
  /\ Goto(e, "mark", "loop")
  /\ lock[object[e]] # Free \/ ~FreeFor(object[e], {NoExec, e})
  /\ data' = [data EXCEPT ![e] = NoInst]
  /\ object' = [object EXCEPT ![e] = NoInst]
  /\ UNCHANGED <<awsVars, box, lock, record, marked, recreate, tries,
                 harvestVars, killSeen>>

Earmark(e) ==
  /\ Goto(e, "marking", "reread")
  /\ SetMark(object[e], e)
  /\ UNCHANGED <<state, exec, unread, missed, box, lock, record, data, object,
                 marked, recreate, tries, harvestVars, killSeen>>

(* the tags are read again: the earmark may have been emptied since *)
Reread(e) ==
  /\ Goto(e, "reread", "made")
  /\ marked' = IF mark[object[e]] = e THEN marked \cup {e} ELSE marked \ {e}
  /\ Give(object[e])
  /\ UNCHANGED <<awsVars, box, record, data, object, recreate, tries,
                 harvestVars, killSeen>>

(* the object is handed on to run_in_instance                              *)
HandOver(e) ==
  /\ Goto(e, "made", "probe")
  /\ UNCHANGED <<awsVars, box, lock, record, data, object, marked, recreate,
                 tries, harvestVars, killSeen>>

(* is_up: running, and its docker able to pull, which may take a while *)
Probe(e) ==
  /\ pc[e] = "probe"
  /\ \/ state[object[e]] = "running" /\ Goto(e, "probe", "enter")
     \/ Goto(e, "probe", "loop")
  /\ UNCHANGED <<awsVars, box, lock, record, data, object, marked, recreate,
                 tries, harvestVars, killSeen>>

(* EC2Instance.run: the sanity check, the lock, and the check under it.    *)
(* When the latter fails, the lock is given back at once                   *)
Available(e) ==
  /\ state[object[e]] = "running"
  /\ FreeFor(object[e], {e})

Enter(e) ==
  /\ Goto(e, "enter", "launch")
  /\ e \in marked
  /\ Available(e)
  /\ Take(object[e], Runner(e))
  /\ UNCHANGED <<awsVars, box, record, data, object, marked, recreate, tries,
                 harvestVars, killSeen>>

EnterRefused(e) ==
  /\ Goto(e, "enter", "unmark")
  /\ \/ e \notin marked
     \/ lock[object[e]] = Free /\ ~Available(e)
  /\ UNCHANGED <<awsVars, box, lock, record, data, object, marked, recreate,
                 tries, harvestVars, killSeen>>

(* the locals of run_in_instance go with its frame *)
Return(e) ==
  /\ data' = [data EXCEPT ![e] = NoInst]
  /\ object' = [object EXCEPT ![e] = NoInst]
  /\ marked' = marked \ {e}
  /\ recreate' = recreate \ {e}
  /\ tries' = [tries EXCEPT ![e] = 0]

(* the container, the Execution-Id tag, the earmark: one call each *)
Launch(e) ==
  /\ Goto(e, "launch", "tag")
  /\ state[object[e]] = "running"
  /\ SetBox(object[e], e, "running")
  /\ UNCHANGED <<awsVars, lock, record, data, object, marked, recreate, tries,
                 harvestVars, killSeen>>

TagExecution(e) ==
  /\ Goto(e, "tag", "untag")
  /\ SetExec(object[e], e)
  /\ UNCHANGED <<state, mark, unread, missed, box, lock, record, data, object, marked,
                 recreate, tries, harvestVars, killSeen>>

(* mutant: the return after the container was started is lost *)
UntagNoReturn(e) ==
  /\ Goto(e, "untag", "loop")
  /\ SetMark(object[e], NoExec) /\ marked' = marked \ {e}
  /\ Give(object[e])
  /\ data' = [data EXCEPT ![e] = NoInst]
  /\ object' = [object EXCEPT ![e] = NoInst]
  /\ UNCHANGED <<state, exec, unread, missed, box, record, recreate, tries,
                 harvestVars, killSeen>>

Untag(e) ==
  /\ \/ /\ Goto(e, "untag", "started")
        /\ SetMark(object[e], NoExec) /\ Return(e) /\ UNCHANGED unread
     \/ /\ Goto(e, "untag", "finish") /\ UnmarkUnread(e)
        /\ UNCHANGED <<data, object, recreate, tries>>
  /\ Give(object[e])
  /\ UNCHANGED <<state, exec, missed, box, record, harvestVars, killSeen>>

(* unearmark_for, after InstanceUnavailableException; what it raises is    *)
(* swallowed                                                               *)
Unearmark(e) ==
  /\ Goto(e, "unmark", "askAgain")
  /\ \/ /\ e \in marked
        /\ lock[object[e]] = Free
        /\ \/ UnmarkUnread(e)
           \/ /\ SetMark(object[e], NoExec) /\ marked' = marked \ {e}
              /\ UNCHANGED unread
     \/ (e \notin marked \/ CallsMayFail) /\ UNCHANGED <<mark, marked, unread>>
  /\ UNCHANGED <<state, exec, missed, box, lock, record, data, object, recreate,
                 tries, harvestVars, killSeen>>

(* the finally clause *)
Finish(e) ==
  /\ Goto(e, "finish", "failed")
  /\ HardUnearmark(e) \/ (CallsMayFail /\ UNCHANGED mark)
  /\ Return(e)
  /\ UNCHANGED <<state, exec, unread, missed, box, lock, record, harvestVars, killSeen>>

(* The generator is closed at a yield: the client went away, or a sibling  *)
(* of a composite execution failed.  At "made" run_in_instance has not got *)
(* the new object yet, so that its finally clause leaves the earmark.      *)
Abandon(e) ==
  /\ pc[e] \in Yielding
  /\ pc' = [pc EXCEPT ![e] = "finish"]
  /\ object' = IF pc[e] = "made" THEN [object EXCEPT ![e] = NoInst] ELSE object
  /\ UNCHANGED <<awsVars, box, lock, record, data, marked, recreate, tries,
                 harvestVars, killSeen>>

(* A call raises: the with and finally clauses give the lock back.  It may *)
(* happen at any time where CallsMayFail; it must when AWS has no more     *)
(* instances to give, or when the instance to launch on has gone.          *)
MustRaise(e) ==
  \/ pc[e] \in {"ask", "askAgain"} /\ \A i \in Instances : state[i] # "absent"
  \/ pc[e] = "launch" /\ state[object[e]] # "running"

RunnerRaises(e) ==
  /\ \/ MustRaise(e)
     \/ /\ CallsMayFail
        /\ pc[e] \in RunnerPc \ (Ended \cup {"loop", "made", "unmark", "finish"})
  /\ pc' = [pc EXCEPT ![e] = "finish"]
  /\ lock' = [i \in Instances |-> IF lock[i] = Runner(e) THEN Free ELSE lock[i]]
  /\ UNCHANGED <<awsVars, box, record, data, object, marked, recreate, tries,
                 harvestVars, killSeen>>

(* mutant: the lock expires with the death of its holder *)
RunnerDiesUnlocking(e) ==
  /\ WorkersMayDie /\ pc[e] \notin Ended
  /\ pc' = [pc EXCEPT ![e] = "dead"]
  /\ lock' = [i \in Instances |-> IF lock[i] = Runner(e) THEN Free ELSE lock[i]]
  /\ Return(e)
  /\ UNCHANGED <<awsVars, box, record, harvestVars, killSeen>>

RunnerDies(e) ==
  /\ WorkersMayDie /\ pc[e] \notin Ended
  /\ pc' = [pc EXCEPT ![e] = "dead"]
  /\ lock' = [i \in Instances |-> IF lock[i] = Runner(e) THEN Orphan ELSE lock[i]]
  /\ Return(e)
  /\ UNCHANGED <<awsVars, box, record, harvestVars, killSeen>>

RunnerStep(e) ==
  \/ Start(e) \/ Loop(e) \/ Query(e) \/ Ask(e) \/ AskAgain(e)
  \/ Remake(e) \/ Make(e) \/ EarmarkGranted(e) \/ EarmarkRefused(e) \/ Earmark(e)
  \/ Reread(e) \/ HandOver(e) \/ Probe(e) \/ Enter(e) \/ EnterRefused(e)
  \/ Launch(e) \/ TagExecution(e) \/ Untag(e)
  \/ Unearmark(e) \/ Finish(e) \/ RunnerRaises(e)

-----------------------------------------------------------------------------
(* Releasing an instance: EC2Instance.release around DockerInstance.release*)
(* for the harvester (r = Harvester) and for DELETE.  Both go by the       *)
(* Execution-Id their EC2Instance object was made with.                    *)

Cached(r) == IF r = Harvester THEN seen[at[r]] ELSE r[2]
Outside(r) == IF r = Harvester THEN "next" ELSE "idle"

(* the container can be talked to *)
Reachable(i, e) == state[i] = "running" /\ box[i][e] # "none"

FindInstance(e) ==
  /\ RGoto(Deleter(e), "idle", "enter")
  /\ e \in Deletable
  /\ \E i \in Listed :
       /\ {j \in Listed : exec[j] = e} = {i}
       /\ at' = [at EXCEPT ![Deleter(e)] = i]
  /\ UNCHANGED <<awsVars, box, lock, record, runnerVars, todo, seen, killSeen>>

EnterRelease(e) ==
  /\ RGoto(Deleter(e), "enter", "stop")
  /\ Take(at[Deleter(e)], Deleter(e))
  /\ UNCHANGED <<awsVars, box, record, runnerVars, at, todo, seen, killSeen>>

StopContainer(r) ==
  /\ RGoto(r, "stop", "publish")
  /\ Reachable(at[r], Cached(r))
  /\ SetBox(at[r], Cached(r), "exited")
  /\ UNCHANGED <<awsVars, lock, record, runnerVars, at, todo, seen, killSeen>>

(* mutant: a failure to publish is swallowed, and is_finished not asked *)
PublishSwallowing(r) ==
  /\ RGoto(r, "publish", "remove")
  /\ \/ record' = [record EXCEPT ![Cached(r)] = IF @ = "none" THEN "results" ELSE @]
     \/ UNCHANGED record
  /\ UNCHANGED <<awsVars, box, lock, runnerVars, at, todo, seen, killSeen>>

(* publish leaves what is finished alone, tombstones included *)
Publish(r) ==
  /\ RGoto(r, "publish", "remove")
  /\ Reachable(at[r], Cached(r))
  /\ record' = [record EXCEPT ![Cached(r)] = IF @ = "none" THEN "results" ELSE @]
  /\ UNCHANGED <<awsVars, box, lock, runnerVars, at, todo, seen, killSeen>>

RemoveContainer(r) ==
  /\ RGoto(r, "remove", "clear")
  /\ Reachable(at[r], Cached(r))
  /\ SetBox(at[r], Cached(r), "none")
  /\ UNCHANGED <<awsVars, lock, record, runnerVars, at, todo, seen, killSeen>>

ClearForDelete(e) ==
  /\ RGoto(Deleter(e), "clear", "idle")
  /\ SetExec(at[Deleter(e)], NoExec)
  /\ Give(at[Deleter(e)])
  /\ UNCHANGED <<state, mark, unread, missed, box, record, runnerVars, at, todo,
                 seen, killSeen>>

(* mutant: the lock is given back at the end, and not in a finally clause *)
ReleaseRaisesLocked(r) ==
  /\ rpc[r] \in Releasing /\ (CallsMayFail \/ ~Reachable(at[r], Cached(r)))
  /\ rpc' = [rpc EXCEPT ![r] = Outside(r)]
  /\ UNCHANGED <<awsVars, box, lock, record, runnerVars, at, todo, seen, killSeen>>

(* An exception, which also comes when the container is missing: it leaves *)
(* the tags as they are and gives the lock back.                           *)
ReleaseRaises(r) ==
  /\ \/ CallsMayFail /\ rpc[r] \in Releasing
     \/ rpc[r] \in Releasing \ {"clear"} /\ ~Reachable(at[r], Cached(r))
  /\ rpc' = [rpc EXCEPT ![r] = Outside(r)]
  /\ Give(at[r])
  /\ UNCHANGED <<awsVars, box, record, runnerVars, at, todo, seen, killSeen>>

ReleaserDies(r) ==
  /\ WorkersMayDie /\ rpc[r] # "idle"
  /\ rpc' = [rpc EXCEPT ![r] = "idle"]
  /\ todo' = IF r = Harvester THEN {} ELSE todo
  /\ lock' = [i \in Instances |-> IF lock[i] = r THEN Orphan ELSE lock[i]]
  /\ UNCHANGED <<awsVars, box, record, runnerVars, at, seen, killSeen>>

ReleaseStep(r) ==
  \/ StopContainer(r) \/ Publish(r) \/ RemoveContainer(r) \/ ReleaseRaises(r)

DeleterStep(e) ==
  \/ FindInstance(e) \/ EnterRelease(e) \/ ReleaseStep(Deleter(e))
  \/ ClearForDelete(e)

-----------------------------------------------------------------------------
(* A pass of the harvester (InstanceProvider.harvest, Instance.harvest).   *)

List ==
  /\ RGoto(Harvester, "idle", "next")
  /\ todo' = Listed
  /\ seen' = [i \in Instances |-> IF i \in Listed THEN exec[i] ELSE NoExec]
  /\ UNCHANGED <<awsVars, box, lock, record, runnerVars, at, killSeen>>

EndPass ==
  /\ todo = {}
  /\ RGoto(Harvester, "next", "idle")
  /\ seen' = [i \in Instances |-> NoExec]
  /\ UNCHANGED <<awsVars, box, lock, record, runnerVars, at, todo, killSeen>>

(* locked, and not for too long; or neither running nor terminated *)
PassOver(i) ==
  /\ rpc[Harvester] = "next" /\ i \in todo
  /\ lock[i] # Free \/ state[i] = "pending"
  /\ todo' = todo \ {i}
  /\ UNCHANGED <<awsVars, box, lock, record, runnerVars, rpc, at, seen, killSeen>>

(* locked for too long: InstanceLock shows that its owner is dead *)
KillLocked(i) ==
  /\ rpc[Harvester] = "next" /\ i \in todo
  /\ lock[i] = Orphan
  /\ todo' = todo \ {i}
  /\ Terminate(i)
  /\ UNCHANGED <<lock, record, runnerVars, rpc, at, seen, killSeen>>

(* the lock and a fresh look at the state of the instance *)
Visit(i) ==
  /\ i \in todo
  /\ todo' = todo \ {i}
  /\ Take(i, Harvester)
  /\ at' = [at EXCEPT ![Harvester] = i]
  /\ \/ state[i] = "terminated" /\ RGoto(Harvester, "next", "bury")
     \/ state[i] = "running" /\ RGoto(Harvester, "next", "inspect")
  /\ UNCHANGED <<awsVars, box, record, runnerVars, seen, killSeen>>

Mine == at[Harvester]
SeenExec == seen[at[Harvester]]
Unrecorded == {e \in Executions : record[e] = "none"}

(* mutant: only idle instances are looked after *)
InspectIdle ==
  /\ rpc[Harvester] = "inspect"
  /\ \/ SeenExec = NoExec /\ RGoto(Harvester, "inspect", "dispose") /\ UNCHANGED lock
     \/ SeenExec # NoExec /\ RGoto(Harvester, "inspect", "next") /\ Give(Mine)
  /\ UNCHANGED <<awsVars, box, record, runnerVars, at, todo, seen, killSeen>>

(* get_execution_info, and what harvest does upon it *)
Inspect ==
  /\ rpc[Harvester] = "inspect"
  /\ \/ /\ state[Mine] = "running"
        /\ \/ SeenExec = NoExec /\ RGoto(Harvester, "inspect", "dispose")
           \/ /\ SeenExec # NoExec
              /\ \/ /\ box[Mine][SeenExec] = "none"
                    /\ RGoto(Harvester, "inspect", "forget")
                 \/ /\ box[Mine][SeenExec] = "exited"
                    /\ RGoto(Harvester, "inspect", "stop")
        /\ UNCHANGED lock
     \/ /\ \/ state[Mine] # "running"
           \/ \E e \in Executions : SeenExec = e /\ box[Mine][e] = "running"
           \/ CallsMayFail
        /\ RGoto(Harvester, "inspect", "next") /\ Give(Mine)
  /\ UNCHANGED <<awsVars, box, record, runnerVars, at, todo, seen, killSeen>>

(* ContainerMissingException: release(release_container=False) *)
Forget ==
  /\ RGoto(Harvester, "forget", "next")
  /\ SetExec(Mine, NoExec) \/ (CallsMayFail /\ UNCHANGED exec)
  /\ Give(Mine)
  /\ UNCHANGED <<state, mark, unread, missed, box, record, runnerVars, at, todo,
                 seen, killSeen>>

(* the end of a full release; _set_tags reads the tags again *)
ClearForHarvest ==
  /\ RGoto(Harvester, "clear", "dispose")
  /\ SetExec(Mine, NoExec)
  /\ seen' = [seen EXCEPT ![Mine] = NoExec]
  /\ UNCHANGED <<state, mark, unread, missed, box, lock, record, runnerVars, at,
                 todo, killSeen>>

(* dispose_if_its_time: whether it is time is left open here.  The check   *)
(* that the instance is idle asks the cached Execution-Id, which is empty  *)
Dispose ==
  /\ RGoto(Harvester, "dispose", "next")
  /\ Terminate(Mine) \/ UNCHANGED <<awsVars, box>>
  /\ Give(Mine)
  /\ UNCHANGED <<record, runnerVars, at, todo, seen, killSeen>>

(* mutant: no tombstones *)
BuryAtOnce ==
  /\ RGoto(Harvester, "bury", "delist")
  /\ UNCHANGED <<awsVars, box, lock, record, runnerVars, at, todo, seen, killSeen>>

(* the branch of terminated instances; its finally clause delists whatever *)
(* was raised before                                                       *)
Bury ==
  /\ rpc[Harvester] = "bury"
  /\ \/ SeenExec \notin Unrecorded /\ RGoto(Harvester, "bury", "delist")
     \/ SeenExec \in Unrecorded /\ RGoto(Harvester, "bury", "tombstone")
  /\ UNCHANGED <<awsVars, box, lock, record, runnerVars, at, todo, seen, killSeen>>

WriteTombstone ==
  /\ RGoto(Harvester, "tombstone", "delist")
  /\ \/ record' = [record EXCEPT ![SeenExec] = IF @ = "none" THEN "tombstone" ELSE @]
     \/ CallsMayFail /\ UNCHANGED record
  /\ UNCHANGED <<awsVars, box, lock, runnerVars, at, todo, seen, killSeen>>

Delist ==
  /\ RGoto(Harvester, "delist", "next")
  /\ \/ /\ state' = [state EXCEPT ![Mine] = "delisted"]
        /\ missed' = missed \cup {e \in Executions : exec[Mine] = e /\ SeenExec # e}
     \/ CallsMayFail /\ UNCHANGED <<state, missed>>
  /\ Give(Mine)
  /\ UNCHANGED <<exec, mark, unread, box, record, runnerVars, at, todo, seen, killSeen>>

HarvesterStep ==
  \/ List \/ EndPass
  \/ \E i \in Instances : PassOver(i) \/ KillLocked(i) \/ Visit(i)
  \/ Inspect \/ Forget \/ ReleaseStep(Harvester) \/ ClearForHarvest \/ Dispose
  \/ Bury \/ WriteTombstone \/ Delist

-----------------------------------------------------------------------------
(* kill_instances without force, for idle instances.  No lock is taken,    *)
(* and idle means that the tag was empty when the instances were listed.   *)

KillList ==
  /\ KillRequests
  /\ killSeen' = {i \in Listed : exec[i] = NoExec}
  /\ UNCHANGED <<awsVars, box, lock, record, runnerVars, harvestVars>>

KillIdle(i) ==
  /\ i \in killSeen
  /\ killSeen' = killSeen \ {i}
  /\ state[i] \in {"pending", "running"}
  /\ Terminate(i)
  /\ UNCHANGED <<lock, record, runnerVars, harvestVars>>

-----------------------------------------------------------------------------
(* AWS and docker.                                                         *)

Boot(i) ==
  /\ state[i] = "pending"
  /\ state' = [state EXCEPT ![i] = "running"]
  /\ UNCHANGED <<exec, mark, unread, missed, box, lock, record, runnerVars,
                 harvestVars, killSeen>>

Interrupt(i) ==
  /\ Interruptions /\ state[i] \in {"pending", "running"}
  /\ Terminate(i)
  /\ UNCHANGED <<lock, record, runnerVars, harvestVars, killSeen>>

ContainerExits(i, e) ==
  /\ box[i][e] = "running"
  /\ SetBox(i, e, "exited")
  /\ UNCHANGED <<awsVars, lock, record, runnerVars, harvestVars, killSeen>>

-----------------------------------------------------------------------------
Next ==
  \/ \E e \in Executions :
       RunnerStep(e) \/ Abandon(e) \/ RunnerDies(e) \/ DeleterStep(e)
  \/ HarvesterStep
  \/ \E r \in Releasers : ReleaserDies(r)
  \/ KillList
  \/ \E i \in Instances : KillIdle(i) \/ Boot(i) \/ Interrupt(i)
  \/ \E i \in Instances, e \in Executions : ContainerExits(i, e)

Spec == Init /\ [][Next]_vars

(* Requests are served until they are answered; one that waits for a lock  *)
(* polls it ten times a second, while the harvester lets go of it for a    *)
(* minute between passes, so the wait is not for ever (hence SF).  The     *)
(* harvester's shell loop posts again after each answer, and AWS boots     *)
(* what it was asked for.                                                  *)
(* When a lock is orphaned, one of the passes finds it held for too long   *)
(* (OrphanLeadsToKill of InstanceLock).  Users, who may never ask for a    *)
(* run or a DELETE, interruptions and the end of an execution owe nobody   *)
(* anything.                                                               *)
Fairness ==
  /\ \A e \in Executions :
       /\ SF_vars(RunnerStep(e) /\ pc[e] # "new")
       /\ SF_vars(DeleterStep(e) /\ rpc[Deleter(e)] # "idle")
  /\ WF_vars(HarvesterStep)
  /\ \A i \in Instances : WF_vars(Boot(i)) /\ SF_vars(KillLocked(i))

FairSpec == Spec /\ Fairness

-----------------------------------------------------------------------------
Running(i) == {e \in Executions : box[i][e] = "running"}

(* An execution has at most one home: no two instances carry its           *)
(* Execution-Id or run its container, so instance_for never meets the      *)
(* ValueError `More than one instance for execution ID'.                   *)
OneInstancePerExecution ==
  \A i, j \in Instances, e \in Executions :
    /\ exec[i] = e \/ box[i][e] # "none"
    /\ exec[j] = e \/ box[j][e] # "none"
    => i = j

(* Once a runner has passed the check of EC2Instance.run nobody else gets  *)
(* the instance until it has tagged it: it stays without an execution, and *)
(* the earmark can at worst be emptied under the runner's hands, by an     *)
(* unearmarking without the lock (hard_unearmark_for) that went by what it *)
(* had read before; and not even that, as long as every call that emptied  *)
(* the earmark of this instance could read the tags again.                 *)
LaunchKeepsInstance ==
  \A e \in Executions :
    pc[e] \in {"launch", "tag"} =>
      /\ exec[object[e]] = NoExec
      /\ mark[object[e]] \in {NoExec, e}
      /\ mark[object[e]] = NoExec => object[e] \in unread

(* Who works on an instance under its lock. *)
InLock == {"marking", "reread"} \cup Launching
Inside == Releasing \cup HarvestLocked
RunnerIn(e, i) == pc[e] \in InLock /\ object[e] = i
ReleaserIn(r, i) == rpc[r] \in Inside /\ at[r] = i

(* Who works on an instance owns its lock, and who owns the lock works on  *)
(* that instance and no other: so runners, deleters and the harvester work *)
(* on it one at a time, and whatever way they leave it, they leave no lock *)
(* behind but by their death.                                              *)
InsidersOwn ==
  \A i \in Instances :
    /\ \A e \in Executions : RunnerIn(e, i) <=> lock[i] = Runner(e)
    /\ \A r \in Releasers : ReleaserIn(r, i) <=> lock[i] = r

(* So the locks of the instances are locks of Lease: nobody waits for one  *)
(* holding another, a step that raises gives back its own and nobody       *)
(* else's, and the lock of a dead worker stays taken.                      *)
Lock == INSTANCE Lease WITH
  Locks <- Instances,
  owner <- lock,
  inside <- [i \in Instances |->
               {Runner(e) : e \in {f \in Executions : RunnerIn(f, i)}}
                 \cup {r \in Releasers : ReleaserIn(r, i)}]

LocksAreLeases == Lock!Spec

(* What is found on an instance is what its tag says: a container runs     *)
(* there only for the execution in the tag, or under the launch of its     *)
(* runner, or under a lock whose holder died.                              *)
RunningIsTagged ==
  \A i \in Instances : \A e \in Running(i) :
    exec[i] = e \/ lock[i] \in {Runner(e), Orphan}

(* No DELETE has got hold of an instance yet: the instance of a deleter    *)
(* is set when it finds it, and never reset.                               *)
NothingDeleted == \A e \in Executions : at[Deleter(e)] = NoInst

(* As long as nothing is deleted, worker instances run one execution at a  *)
(* time, and what runs is what the tag says: neither dead workers, nor a   *)
(* pass of the harvester with tags it read long ago, nor an instance that  *)
(* comes and goes can separate a container from its tag.                   *)
TaggedUnlessDeleted ==
  NothingDeleted => /\ \A i \in Instances : Cardinality(Running(i)) <= 1
                    /\ RunningIsTagged

(* No earmark ever displaces another: it is emptied first.  And it is      *)
(* emptied by a step of the runner it belongs to; another runner, by the   *)
(* tags it had read before, does so only where a call emptied an earmark   *)
(* and could not read the tags again.                                      *)
EarmarksRespected ==
  [][\A i \in Instances :
       mark[i] # NoExec /\ mark'[i] # mark[i]
         => /\ mark'[i] = NoExec
            /\ pc'[mark[i]] # pc[mark[i]] \/ i \in unread]_vars

(* The group as those see it who ask what became of an execution: the     *)
(* tags, locks, retries and crashes implement Placement.                   *)
Abstract == INSTANCE Placement WITH
  waiting <- {e \in Executions : pc[e] \in Homeless},
  on <- [e \in Executions |-> {i \in Instances : box[i][e] # "none"}],
  alive <- {e \in Executions : \E i \in Instances : e \in Running(i)}

AbstractSpec == Abstract!Spec

(* An instance is forgotten (its group tag emptied) only when something is *)
(* recorded of the execution the harvester saw on it.                      *)
BuriedIfRecorded ==
  [][\A i \in Instances :
       /\ state[i] = "terminated" /\ state'[i] = "delisted"
       /\ seen[i] # NoExec
       => record[seen[i]] # "none"]_vars

(* Every request for an instance is answered: run_in_instance ends. *)
RunnerEnds == \A e \in Executions : pc[e] = "loop" ~> pc[e] \in Ended

(* An execution that started and runs no more gets its results or its      *)
(* tombstone, unless its instance was killed so soon that the harvester    *)
(* forgot it by a listing from before it was tagged.                       *)
StartedIsSettled ==
  \A e \in Executions :
    (pc[e] = "started" /\ \A i \in Instances : e \notin Running(i))
      ~> record[e] # "none" \/ e \in missed

=============================================================================
