---------------------------- MODULE ExecutionClient ----------------------------
(***************************************************************************)
(* What a user's client does about an execution that was started: it       *)
(* follows a run to its end (cli: run_execution_operation.py) or its logs  *)
(* (logs_operation.py), stops it (stop_execution_operation.py) or          *)
(* downloads its output (retrieve_output_operation.py), each a series of   *)
(* requests to the controller (controller_impl.py), while the harvester    *)
(* and AWS go on.                                                          *)
(*                                                                         *)
(* An execution is composed of sub-executions: `plz stop' goes through     *)
(* them, `plz output' through their indices, and `plz logs' has a thread   *)
(* for each, which shares a queue with the others.  What has become of a   *)
(* sub-execution on the controller's side is one variable here, its phase; *)
(* how it gets there is the subject of EC2InstanceGroup and                *)
(* ResultsStorage.                                                         *)
(* Requests take several steps of theirs, since a sub-execution may move   *)
(* on between them, and the next request finds it elsewhere.               *)
(***************************************************************************)
EXTENDS Naturals, FiniteSets

CONSTANTS
  Subs,           \* ids of atomic executions
  Compositions,   \* what the execution may be composed of: index -> id
  NoIndex,        \* the index of an atomic execution
  Nothing,        \* no item is worked on
  MaxCalls,       \* bound on how often the user calls the client
  CallsMayFail,   \* any request may raise, any stream may be cut short
  Interruptions   \* instances may be terminated

ASSUME ClientAssumption ==
  /\ \A c \in Compositions :
       /\ c \in [DOMAIN c -> Subs]
       /\ DOMAIN c # {} /\ (NoIndex \in DOMAIN c => DOMAIN c = {NoIndex})
  /\ MaxCalls \in Nat
  /\ {CallsMayFail, Interruptions} \subseteq BOOLEAN

VARIABLES
  phase,        \* of each sub-execution, see Phases
  keeper,       \* who has the lock of the instance of each
  composition,  \* of the execution
  op,           \* the operation of the client,
  force,        \*   its --force-if-running
  rewrite,      \*   and its --rewrite-subexecutions
  todo,         \* what the operation has still to go through
  item,         \* what it is at: an id (plz stop) or an index
  pc,           \* the request it waits for, or what it does
  stage,        \* where that request is in the controller
  reply,        \* what it was answered
  dirs,         \* the output directory of each index: see Contents
  told,         \* history: ids said to be stopped by this call
  warned,       \* history: indices said to be still running
  broken,       \* history: something raised or was cut during this call
  calls,        \* how often the client was called
  threads       \* of `plz logs', for each sub-execution

(* A container, with a record or without, on an instance; a record only;   *)
(* an instance that was terminated, with no record, or with one; a         *)
(* tombstone; or nothing at all any more.                                  *)
Phases == {"running", "exited", "published", "harvested", "terminated",
           "leftover", "buried", "forgotten"}
Reachable == {"running", "exited", "published"}
Listed == Reachable \cup {"terminated", "leftover"}
HasResults == {"published", "leftover", "harvested"}
Settled == HasResults \cup {"buried"}

Requests == {"delete", "logs", "measures", "status", "output"}
Releasing == {"halt", "publish", "clear"}
Ended == {"done", "error", "interrupted", "impossible"}
(* what comes back: "running" and "deleted" to a delete are the exceptions *)
(* of that name, every other exception is an "error"                       *)
Replies == {"none", "ok", "stored", "running", "ended", "deleted", "error"}

serverVars == <<phase, keeper>>
callVars == <<composition, op, force, rewrite, calls, threads>>
workVars == <<todo, item, dirs, told, warned>>
vars == <<serverVars, callVars, workVars, pc, stage, reply, broken>>

Indices == DOMAIN composition
Composite == Indices # {NoIndex}
Executions == {composition[i] : i \in Indices}
(* a directory that was cut short is torn; one of a process that still     *)
(* ran is early                                                            *)
Contents == {"none", "early", "torn", "final"}

TypeOK ==
  /\ phase \in [Subs -> Phases]
  /\ keeper \in [Subs -> {"nobody", "client", "harvester"}]
  /\ composition \in Compositions
  /\ op \in {"none", "run", "stop", "output", "logs"}
  /\ {force, rewrite, broken} \subseteq BOOLEAN
  /\ todo \subseteq IF op = "stop" THEN Executions ELSE Indices
  /\ item \in Indices \cup Executions \cup {Nothing}
  /\ pc \in Requests \cup Ended \cup {"idle", "visit", "stream", "drain", "mkdir", "untar"}
  /\ stage \in {"client", "look", "instance", "find", "again", "enter", "answered"}
                 \cup Releasing
  /\ reply \in Replies
  /\ dirs \in [Indices -> Contents]
  /\ told \subseteq Executions /\ warned \subseteq Indices
  /\ calls \in 0..MaxCalls
  /\ threads \in [Subs -> {"none", "look", "instance", "stored", "follow",
                           "over", "heard"}]
  /\ {s \in Subs : threads[s] # "none"} \subseteq
       IF op = "logs" /\ Composite THEN Executions ELSE {}

Init ==
  /\ composition \in Compositions
  /\ phase = [s \in Subs |-> "running"]
  /\ keeper = [s \in Subs |-> "nobody"]
  /\ op = "none" /\ force = FALSE /\ rewrite = FALSE
  /\ todo = {} /\ item = Nothing
  /\ pc = "idle" /\ stage = "client" /\ reply = "none"
  /\ dirs = [i \in Indices |-> "none"]
  /\ told = {} /\ warned = {}
  /\ broken = FALSE /\ calls = 0
  /\ threads = [s \in Subs |-> "none"]

(* the atomic execution the client is at *)
Sub == IF op = "stop" THEN item ELSE composition[item]

-----------------------------------------------------------------------------
(* The controller: Executions.get, which every request begins with.        *)

Answer(r) == stage' = "answered" /\ reply' = r
Proceed(to) == stage' = to /\ UNCHANGED reply

(* The results are looked at first; those of a tombstone raise. *)
Look ==
  /\ stage = "look"
  /\ \/ phase[Sub] \in HasResults
        /\ IF pc = "delete" THEN Proceed("find") ELSE Answer("stored")
     \/ phase[Sub] = "buried" /\ Answer("error")
     \/ phase[Sub] \notin Settled /\ Proceed("instance")
  /\ UNCHANGED <<serverVars, callVars, workVars, pc, broken>>

(* mutant: whoever asks to fail if it is running is not listened to *)
LookAtInstanceLax ==
  /\ stage = "instance"
  /\ \/ phase[Sub] \in Reachable
        /\ IF pc = "delete" THEN Proceed("find")
           ELSE Answer(IF phase[Sub] = "running" THEN "running" ELSE "ended")
     \/ phase[Sub] \notin Reachable /\ Answer("error")
  /\ UNCHANGED <<serverVars, callVars, workVars, pc, broken>>

(* Then the instance: it may be gone by now (not found), or be terminated  *)
(* (no state).  A delete refuses here, if asked to fail_if_running.        *)
LookAtInstance ==
  /\ stage = "instance"
  /\ \/ phase[Sub] = "running"
        /\ IF pc = "delete" /\ op = "stop" THEN Proceed("find") ELSE Answer("running")
     \/ phase[Sub] \in Reachable \ {"running"}
        /\ IF pc = "delete" THEN Proceed("find") ELSE Answer("ended")
     \/ phase[Sub] \notin Reachable /\ Answer("error")
  /\ UNCHANGED <<serverVars, callVars, workVars, pc, broken>>

-----------------------------------------------------------------------------
(* delete_execution, and the release of the instance.                      *)

(* mutant: an instance that was terminated counts as deleted *)
FindReachable ==
  /\ stage = "find"
  /\ IF phase[Sub] \notin Reachable /\ op = "stop" THEN Answer("deleted")
                                                   ELSE Proceed("again")
  /\ UNCHANGED <<serverVars, callVars, workVars, pc, broken>>

(* only plz stop asks to fail_if_deleted *)
Find ==
  /\ stage = "find"
  /\ IF phase[Sub] \notin Listed /\ op = "stop" THEN Answer("deleted")
                                                ELSE Proceed("again")
  /\ UNCHANGED <<serverVars, callVars, workVars, pc, broken>>

(* release_instance looks again, with fail_if_not_found=False *)
FindAgain ==
  /\ stage = "again"
  /\ IF phase[Sub] \in Listed THEN Proceed("enter") ELSE Answer("ok")
  /\ UNCHANGED <<serverVars, callVars, workVars, pc, broken>>

EnterRelease ==
  /\ stage = "enter" /\ Proceed("halt")
  /\ keeper[Sub] = "nobody" /\ keeper' = [keeper EXCEPT ![Sub] = "client"]
  /\ UNCHANGED <<phase, callVars, workVars, pc, broken>>

Halt ==
  /\ stage = "halt" /\ Proceed("publish")
  /\ phase[Sub] \in Reachable
  /\ IF phase[Sub] = "running"
     THEN phase' = [phase EXCEPT ![Sub] = "exited"] ELSE UNCHANGED phase
  /\ UNCHANGED <<keeper, callVars, workVars, pc, broken>>

Publish ==
  /\ stage = "publish" /\ Proceed("clear")
  /\ phase[Sub] \in Reachable
  /\ phase' = [phase EXCEPT ![Sub] = "published"]
  /\ UNCHANGED <<keeper, callVars, workVars, pc, broken>>

Clear ==
  /\ stage = "clear" /\ Answer("ok")
  /\ phase[Sub] \in Reachable
  /\ phase' = [phase EXCEPT ![Sub] = "harvested"]
  /\ keeper' = [keeper EXCEPT ![Sub] = "nobody"]
  /\ UNCHANGED <<callVars, workVars, pc, broken>>

(* mutant: the lock is kept *)
ReleaseRaisesLocked ==
  /\ stage \in Releasing /\ phase[Sub] \notin Reachable
  /\ Answer("error")
  /\ UNCHANGED <<serverVars, callVars, workVars, pc, broken>>

(* no container to talk to *)
ReleaseRaises ==
  /\ stage \in Releasing /\ phase[Sub] \notin Reachable
  /\ Answer("error")
  /\ keeper' = [keeper EXCEPT ![Sub] = "nobody"]
  /\ UNCHANGED <<phase, callVars, workVars, pc, broken>>

Raise ==
  /\ CallsMayFail
  /\ stage \notin {"client", "answered"} /\ Answer("error")
  /\ keeper' = [s \in Subs |-> IF keeper[s] = "client" THEN "nobody" ELSE keeper[s]]
  /\ broken' = TRUE
  /\ UNCHANGED <<phase, callVars, workVars, pc>>

Serve ==
  \/ Look \/ LookAtInstance \/ Find \/ FindAgain \/ EnterRelease \/ Halt
  \/ Publish \/ Clear \/ ReleaseRaises

-----------------------------------------------------------------------------
(* The client.                                                             *)

Ask(request) == pc' = request /\ stage' = "look" /\ reply' = "none"
Do(what) == pc' = what /\ stage' = "client" /\ reply' = "none"

Threads(S) == [s \in Subs |-> IF s \in S THEN "look" ELSE "none"]

BeginOn(o, items) ==
  /\ pc \in Ended \cup {"idle"}
  /\ calls < MaxCalls /\ calls' = calls + 1
  /\ op' = o /\ todo' = items
  /\ told' = {} /\ broken' = FALSE
  /\ UNCHANGED <<serverVars, composition, dirs, warned>>

(* follow_execution leaves parallel executions alone *)
BeginRun ==
  /\ BeginOn("run", {})
  /\ calls = 0 /\ ~Composite
  /\ item' = NoIndex /\ force' = FALSE /\ rewrite' = FALSE
  /\ threads' = Threads({})
  /\ Ask("logs")

(* display_logs *)
BeginLogs ==
  /\ BeginOn("logs", {})
  /\ force' = FALSE /\ rewrite' = FALSE
  /\ IF Composite
     THEN threads' = Threads(Executions) /\ item' = Nothing /\ Do("drain")
     ELSE threads' = Threads({}) /\ item' = NoIndex /\ Ask("logs")

(* get_all_atomic makes a set *)
BeginStop ==
  /\ BeginOn("stop", Executions)
  /\ item' = Nothing /\ force' = FALSE /\ rewrite' = FALSE
  /\ threads' = Threads({})
  /\ Do("visit")

(* --force-if-running makes no difference to a composition, nor does       *)
(* --rewrite-subexecutions to anything else                                *)
BeginOutput ==
  /\ BeginOn("output", Indices)
  /\ item' = Nothing
  /\ force' \in {FALSE, ~Composite} /\ rewrite' \in {FALSE, Composite}
  /\ threads' = Threads({})
  /\ Do("visit")

Visit ==
  /\ pc = "visit"
  /\ \/ todo = {} /\ Do("done") /\ UNCHANGED <<todo, item>>
     \/ \E i \in todo : item' = i /\ todo' = todo \ {i} /\ Ask("delete")
  /\ UNCHANGED <<serverVars, callVars, dirs, told, warned, broken>>

(* the loop of plz stop, which returns at the first id that was harvested *)
StopAnswered ==
  /\ pc = "delete" /\ op = "stop" /\ stage = "answered"
  /\ \/ reply = "ok" /\ told' = told \cup {item} /\ Do("visit")
     \/ reply = "deleted" /\ told' = told \cup {item} /\ Do("done")
     \/ reply = "error" /\ Do("error") /\ UNCHANGED told
  /\ UNCHANGED <<serverVars, callVars, todo, item, dirs, warned, broken>>

(* mutant: the warning does for everybody *)
HarvestAnsweredLax ==
  /\ pc = "delete" /\ op # "stop" /\ stage = "answered"
  /\ \/ reply = "error" /\ Do("error") /\ UNCHANGED warned
     \/ reply = "ok" /\ Ask(IF op = "run" THEN "measures" ELSE "output")
        /\ UNCHANGED warned
     \/ /\ reply = "running" /\ warned' = warned \cup {item}
        /\ Ask(IF op = "run" THEN "measures" ELSE "output")
  /\ UNCHANGED <<serverVars, callVars, todo, item, dirs, told, broken>>

(* RetrieveOutputOperation.harvest, and what comes after it: for what is   *)
(* still running an error, or only a warning if it was forced or is part   *)
(* of a composition                                                        *)
HarvestAnswered ==
  /\ pc = "delete" /\ op # "stop" /\ stage = "answered"
  /\ \/ reply = "error" /\ Do("error") /\ UNCHANGED warned
     \/ reply = "ok" /\ Ask(IF op = "run" THEN "measures" ELSE "output")
        /\ UNCHANGED warned
     \/ /\ reply = "running"
        /\ IF force \/ Composite
           THEN warned' = warned \cup {item} /\ Ask("output")
           ELSE Do("error") /\ UNCHANGED warned
  /\ UNCHANGED <<serverVars, callVars, todo, item, dirs, told, broken>>

(* the logs; they end when the process does, or are cut, or the user       *)
(* interrupts them and leaves                                              *)
LogsAnswered ==
  /\ pc = "logs" /\ stage = "answered"
  /\ IF reply = "error" THEN Do("error") ELSE Do("stream")
  /\ UNCHANGED <<serverVars, callVars, workVars, broken>>

StreamEnds ==
  /\ pc = "stream"
  /\ LET GoOn == IF op = "run" THEN Ask("delete") ELSE Do("done")
     IN \/ phase[Sub] # "running" /\ GoOn /\ UNCHANGED broken
        \/ CallsMayFail /\ broken' = TRUE /\ (GoOn \/ Do("error"))
  /\ UNCHANGED <<serverVars, callVars, workVars>>

KeyboardInterrupt ==
  /\ pc = "stream" /\ Do("interrupted")
  /\ UNCHANGED <<serverVars, callVars, workVars, broken>>

(* _queue_log_lines: the stored logs, or those of the container.  It is    *)
(* over with None, also after an exception, of which nothing is said.      *)
Turns(s, from, to) ==
  /\ threads[s] = from /\ threads' = [threads EXCEPT ![s] = to]
  /\ UNCHANGED <<serverVars, composition, op, force, rewrite, calls, workVars, pc,
                 stage, reply>>

ThreadAsks(s) ==
  /\ \/ /\ phase[s] \in HasResults /\ Turns(s, "look", "stored")
        /\ UNCHANGED broken
     \/ /\ phase[s] \notin Settled /\ Turns(s, "look", "instance")
        /\ UNCHANGED broken
     \/ /\ phase[s] \in Reachable /\ Turns(s, "instance", "follow")
        /\ UNCHANGED broken
     \/ /\ \/ phase[s] = "buried" /\ Turns(s, "look", "over")
           \/ phase[s] \notin Reachable /\ Turns(s, "instance", "over")
        /\ broken' = TRUE

ThreadEnds(s) ==
  \/ Turns(s, "stored", "over") /\ UNCHANGED broken
  \/ phase[s] # "running" /\ Turns(s, "follow", "over") /\ UNCHANGED broken
  \/ CallsMayFail /\ Turns(s, "follow", "over") /\ broken' = TRUE

ThreadStep(s) == ThreadAsks(s) \/ ThreadEnds(s)

(* mutant: the first end signal is taken for the last *)
HearFirst(s) ==
  /\ pc = "drain" /\ threads[s] = "over"
  /\ threads' = [threads EXCEPT ![s] = "heard"]
  /\ Do("done")
  /\ UNCHANGED <<serverVars, composition, op, force, rewrite, calls, workVars, broken>>

(* None is taken from the queue *)
Hear(s) ==
  /\ pc = "drain" /\ threads[s] = "over"
  /\ threads' = [threads EXCEPT ![s] = "heard"]
  /\ IF \A t \in Executions : threads'[t] = "heard"
     THEN Do("done") ELSE UNCHANGED <<pc, stage, reply>>
  /\ UNCHANGED <<serverVars, composition, op, force, rewrite, calls, workVars, broken>>

(* the threads read on, for nobody *)
InterruptLogs ==
  /\ pc = "drain" /\ Do("interrupted")
  /\ threads' = Threads({})
  /\ UNCHANGED <<serverVars, composition, op, force, rewrite, calls, workVars, broken>>

MeasuresAnswered ==
  /\ pc = "measures" /\ stage = "answered"
  /\ IF reply = "error" THEN Do("error") ELSE Ask("status")
  /\ UNCHANGED <<serverVars, callVars, workVars, broken>>

(* a process that failed ends the client with its exit status, which is    *)
(* left open here                                                          *)
StatusAnswered ==
  /\ pc = "status" /\ stage = "answered"
  /\ \/ reply \in {"stored", "ended"} /\ (Do("error") \/ Ask("output"))
     \/ /\ reply \notin {"stored", "ended"}
        /\ Do(IF reply = "running" THEN "impossible" ELSE "error")
  /\ UNCHANGED <<serverVars, callVars, workVars, broken>>

OutputAnswered ==
  /\ pc = "output" /\ stage = "answered"
  /\ IF reply = "error" THEN Do("error")
     ELSE pc' = "mkdir" /\ stage' = "client" /\ UNCHANGED reply
  /\ UNCHANGED <<serverVars, callVars, workVars, broken>>

(* mutant: the loop is left with the first index *)
NoNextItem == "done"

(* a run has no other index *)
NextItem == IF op = "run" THEN "done" ELSE "visit"

(* mutant: what is there already is kept, whatever it is *)
MakeDirKeeping ==
  /\ pc = "mkdir"
  /\ \/ /\ dirs[item] = "none" /\ dirs' = [dirs EXCEPT ![item] = "torn"]
        /\ pc' = "untar" /\ UNCHANGED <<stage, reply>>
     \/ dirs[item] # "none" /\ Do(NextItem) /\ UNCHANGED dirs
  /\ UNCHANGED <<serverVars, callVars, todo, item, told, warned, broken>>

(* what is there already is kept, or removed first, or an error *)
MakeDir ==
  /\ pc = "mkdir"
  /\ \/ /\ \/ dirs[item] = "none"
           \/ dirs[item] # "none" /\ IF Composite THEN rewrite ELSE force
        /\ dirs' = [dirs EXCEPT ![item] = "torn"]
        /\ pc' = "untar" /\ UNCHANGED <<stage, reply>>
     \/ /\ dirs[item] # "none" /\ ~(IF Composite THEN rewrite ELSE force)
        /\ IF Composite THEN Do("visit") ELSE Do("error")
        /\ UNCHANGED dirs
  /\ UNCHANGED <<serverVars, callVars, todo, item, told, warned, broken>>

(* The tarball is made while it is read: from the stored results or, if    *)
(* there were none, from the container as it is by now, if it still is.    *)
Untar ==
  /\ pc = "untar"
  /\ \/ /\ reply = "stored" \/ phase[Sub] \in Reachable
        /\ dirs' = [dirs EXCEPT ![item] =
                      IF phase[Sub] = "running" THEN "early" ELSE "final"]
        /\ Do(NextItem) /\ UNCHANGED broken
     \/ /\ reply # "stored" /\ phase[Sub] \notin Reachable
        /\ Do("error") /\ UNCHANGED <<dirs, broken>>
     \/ /\ CallsMayFail /\ broken' = TRUE
        /\ Do("error") /\ UNCHANGED dirs
  /\ UNCHANGED <<serverVars, callVars, todo, item, told, warned>>

Act ==
  \/ Visit \/ StopAnswered \/ HarvestAnswered \/ LogsAnswered \/ StreamEnds
  \/ MeasuresAnswered \/ StatusAnswered \/ OutputAnswered \/ MakeDir \/ Untar
  \/ \E s \in Subs : Hear(s)

-----------------------------------------------------------------------------
(* Everything else: the processes, the harvester, AWS.                     *)

Exit(s) ==
  /\ phase[s] = "running"
  /\ phase' = [phase EXCEPT ![s] = "exited"]
  /\ UNCHANGED <<keeper, callVars, workVars, pc, stage, reply, broken>>

HarvestPublish(s) ==
  /\ phase[s] \in {"exited", "published"} /\ keeper[s] = "nobody"
  /\ phase' = [phase EXCEPT ![s] = "published"]
  /\ keeper' = [keeper EXCEPT ![s] = "harvester"]
  /\ UNCHANGED <<callVars, workVars, pc, stage, reply, broken>>

(* the container is removed, unless something raises *)
HarvestEnd(s) ==
  /\ keeper[s] = "harvester" /\ keeper' = [keeper EXCEPT ![s] = "nobody"]
  /\ \/ phase[s] = "published" /\ phase' = [phase EXCEPT ![s] = "harvested"]
     \/ (phase[s] # "published" \/ CallsMayFail) /\ UNCHANGED phase
  /\ UNCHANGED <<callVars, workVars, pc, stage, reply, broken>>

Terminate(s) ==
  /\ Interruptions /\ phase[s] \in Reachable
  /\ phase' = [phase EXCEPT ![s] = IF @ = "published" THEN "leftover"
                                                     ELSE "terminated"]
  /\ UNCHANGED <<keeper, callVars, workVars, pc, stage, reply, broken>>

(* A terminated instance gets a tombstone, unless there are results, and   *)
(* is delisted, also when writing the tombstone raised.                    *)
Bury(s) ==
  /\ keeper[s] = "nobody"
  /\ \/ phase[s] = "leftover" /\ phase' = [phase EXCEPT ![s] = "harvested"]
     \/ phase[s] = "terminated" /\ phase' = [phase EXCEPT ![s] = "buried"]
     \/ /\ phase[s] = "terminated" /\ CallsMayFail
        /\ phase' = [phase EXCEPT ![s] = "forgotten"]
  /\ UNCHANGED <<keeper, callVars, workVars, pc, stage, reply, broken>>

Elsewhere ==
  \E s \in Subs : \/ Exit(s) \/ HarvestPublish(s) \/ HarvestEnd(s)
                  \/ Terminate(s) \/ Bury(s)

-----------------------------------------------------------------------------
Next ==
  \/ BeginRun \/ BeginLogs \/ BeginStop \/ BeginOutput
  \/ Act \/ KeyboardInterrupt \/ InterruptLogs
  \/ \E s \in Subs : ThreadStep(s)
  \/ Serve \/ Raise
  \/ Elsewhere

Spec == Init /\ [][Next]_vars

(* The client goes on with what it is told, requests are served, polling   *)
(* for the lock while the harvester holds it for one release at a time     *)
(* (hence SF), and the harvester ends what it began.                       *)
FairSpec ==
  /\ Spec
  /\ SF_vars(Serve) /\ WF_vars(Act)
  /\ \A s \in Subs : WF_vars(HarvestEnd(s)) /\ WF_vars(ThreadStep(s))

-----------------------------------------------------------------------------
(* run_execution_operation.py: "Execution has not finished. This should    *)
(* not happen. Please report it."  Once the harvest of a run was answered  *)
(* without an error the execution runs no more, also when the logs were    *)
(* cut while it ran; and logs that came to their end were those of an      *)
(* execution no part of which runs any more, unless a stream broke off.    *)
RunIsFinished ==
  /\ pc # "impossible"
  /\ op = "logs" /\ pc = "done" /\ ~broken =>
       \A s \in Executions : phase[s] # "running"

(* What plz stop says is stopped does not run, and there are results or a  *)
(* tombstone of it, even when it had ended by itself, was harvested or     *)
(* buried while it was being stopped, except that its instance may have    *)
(* been terminated and its burial raised; and whatever is not left to do   *)
(* when it ends without an error was said to be stopped.                   *)
ToldIsSettled ==
  op = "stop" =>
    /\ \A s \in told : \/ phase[s] \in Settled
                       \/ phase[s] = "forgotten" /\ CallsMayFail
    /\ pc = "done" => Executions \ todo \subseteq told

(* When plz run or plz output ends without an error, every index has its   *)
(* directory, with the whole output of a finished process, but for two     *)
(* cases: the process was said to be still running; or a sub-execution's   *)
(* directory was left as an earlier call had torn it.                      *)
OutputIsHonest ==
  op \in {"run", "output"} /\ pc = "done" =>
    \A i \in Indices :
      /\ dirs[i] # "none"
      /\ dirs[i] = "early" => i \in warned
      /\ dirs[i] = "torn" => Composite /\ ~rewrite

(* Only plz stop stops: a harvest, which refused processes that ran when   *)
(* it looked, never has one to stop by the time it has the lock.           *)
HarvestStopsNothing ==
  op # "stop" /\ stage \in {"find", "again", "enter"} \cup Releasing
    => phase[Sub] # "running"

(* The containers and records that requests are served from, the harvester *)
(* sees to and AWS takes away go as Placement lets those of executions     *)
(* go that were started, which is what EC2InstanceGroup implements: what   *)
(* is assumed of the controller here is something it does.                 *)
Server == INSTANCE Placement WITH
  Instances <- Subs,
  Executions <- Subs,
  waiting <- {},
  on <- [s \in Subs |-> {s} \cap {t \in Subs : phase[t] \in Reachable}],
  alive <- {s \in Subs : phase[s] = "running"},
  record <- [s \in Subs |-> IF phase[s] \in HasResults THEN "results"
                            ELSE IF phase[s] = "buried" THEN "tombstone" ELSE "none"]

ServerIsPlacement == [][Server!Next]_Server!vars

(* README.md: "Once your program has finished (or you've stopped it with   *)
(* `plz stop`) you can run `plz output`, and it will download the files".  *)
(* It does, once the execution was harvested, unless a request raises.     *)
OutputDelivered ==
  (/\ op = "output" /\ pc = "visit" /\ todo = Indices
   /\ \A s \in Executions : phase[s] = "harvested"
   /\ \A i \in Indices : dirs[i] = "none")
    ~> \/ broken
       \/ pc = "done" /\ \A i \in Indices : dirs[i] = "final"

(* plz stop and plz output end; so does plz logs, when no part of the      *)
(* execution runs any more.                                                *)
ClientEnds ==
  (\/ op \in {"stop", "output"}
   \/ op = "logs" /\ (\A s \in Executions : phase[s] # "running"))
    ~> pc \in Ended
=============================================================================
