------------------------- MODULE ExecutionClientProofs -------------------------
(***************************************************************************)
(* What the client is told is so: for any composition, any number of       *)
(* calls, and whatever of it fails.                                        *)
(*                                                                         *)
(* The argument needs no lock.  A process that does not run never runs     *)
(* again, and what has results or a tombstone keeps having one, and what   *)
(* was forgotten stays so (Onwards): so an answer of the controller that   *)
(* was true when it was given still is when the client comes to act on it. *)
(* What remains is to say, of each place the client can be at, which       *)
(* operation brought it there and what it was answered on the way.         *)
(***************************************************************************)
EXTENDS ExecutionClient, TLAPS

(* There is nothing left to wait for. *)
Over == Settled \cup {"forgotten"}

AtItem == {"logs", "stream", "delete", "measures", "status", "output", "mkdir", "untar"}
Harvested == {"measures", "status", "output", "mkdir", "untar"}

(* the places each operation goes through *)
Flow ==
  /\ stage = "client" <=> pc \notin Requests
  /\ stage \in {"find", "again", "enter"} \cup Releasing => pc = "delete"
  /\ op = "none" => pc = "idle"
  /\ op = "run" => /\ ~Composite /\ ~force
                   /\ todo = {} /\ item = NoIndex
                   /\ pc \in AtItem \cup Ended
  /\ op = "logs" => /\ pc \in {"logs", "stream", "drain"} \cup Ended
                    /\ pc \in {"logs", "stream"} => ~Composite /\ item = NoIndex
  /\ op = "stop" => /\ pc \in {"visit", "delete"} \cup Ended
                    /\ pc = "delete" => item \in Executions
  /\ op = "output" => /\ pc \in {"visit", "delete", "output", "mkdir", "untar"} \cup Ended
                      /\ pc \in AtItem => item \in Indices
                      /\ pc = "done" => todo = {}
  /\ pc # "impossible"

(* what a delete answers is so *)
Answered ==
  pc = "delete" /\ stage = "answered" =>
    /\ reply \in {"ok", "error", IF op = "stop" THEN "deleted" ELSE "running"}
    /\ reply \in {"ok", "deleted"} => phase[Sub] # "running"
    /\ reply \in {"ok", "deleted"} /\ op = "stop" => phase[Sub] \in Over

(* beyond its harvest the execution runs no more, or a warning was given *)
Warned ==
  /\ pc \in Harvested => \/ phase[Sub] # "running"
                         \/ op = "output" /\ item \in warned
  /\ pc = "status" => reply # "running"

(* the threads that have come to an end *)
Heard ==
  op = "logs" =>
    /\ ~broken => \A s \in Executions :
         threads[s] \in {"stored", "over", "heard"} => phase[s] # "running"
    /\ pc = "done" /\ ~broken =>
         \A s \in Executions : phase[s] # "running"

(* what plz stop has been through *)
Told ==
  op = "stop" =>
    /\ \A s \in told : phase[s] \in Over
    /\ \A s \in Executions :
         s \in todo \/ s \in told \/ (pc = "delete" /\ s = item)
                    \/ pc \in Ended \ {"done"}

(* what plz run and plz output have been through *)
Written ==
  /\ \A i \in Indices : dirs[i] = "early" => i \in warned
  /\ op \in {"run", "output"} => \A i \in Indices :
       \/ i \in todo
       \/ pc \in AtItem /\ i = item
       \/ pc \in Ended \ {"done"}
       \/ dirs[i] # "none" /\ (dirs[i] = "torn" => Composite /\ ~rewrite)

Inv ==
  /\ TypeOK /\ Flow /\ Answered /\ Warned /\ Heard /\ Told /\ Written
  /\ HarvestStopsNothing

-----------------------------------------------------------------------------
(* What the actions have in common.                                        *)

LEMMA Names ==
  ASSUME TypeOK
  PROVE  /\ Executions \subseteq Subs
         /\ \A i \in Indices : composition[i] \in Executions
         /\ Composite \/ (Indices = {NoIndex} /\ Executions = {composition[NoIndex]})
BY ClientAssumption DEF ClientAssumption, TypeOK, Executions, Indices, Composite

(* The item is one of the execution wherever the client is at one. *)
LEMMA ItemIsOurs ==
  ASSUME TypeOK, Flow, pc \in AtItem
  PROVE  /\ Sub \in Executions /\ Sub \in Subs
         /\ op # "stop" => item \in Indices /\ Sub = composition[item]
<1>1. op = "stop" => item \in Executions
  BY DEF Flow, AtItem, Ended
<1>2. op # "stop" => item \in Indices
  <2>1. op \in {"run", "logs"} => ~Composite /\ item = NoIndex
    BY DEF Flow, AtItem, Ended
  <2>2. op = "output" => item \in Indices
    BY DEF Flow
  <2>3. op # "none"
    BY DEF Flow, AtItem
  <2> QED
    BY <2>1, <2>2, <2>3, Names DEF TypeOK
<1> QED
  BY <1>1, <1>2, Names DEF Sub

(* No process comes back, nor does what has results lose them. *)
Onwards ==
  \A s \in Subs : /\ phase[s] # "running" => phase'[s] # "running"
                  /\ phase[s] \in Over => phase'[s] \in Over

LEMMA PhasesGoOn ==
  ASSUME TypeOK, UNCHANGED phase \/ Halt \/ Publish \/ Clear \/ Elsewhere
  PROVE  Onwards
<1>1. CASE UNCHANGED phase
  BY <1>1 DEF Onwards
<1>2. CASE Halt \/ Publish \/ Clear
  BY <1>2 DEF Onwards, TypeOK, Halt, Publish, Clear, Reachable, Over, Settled,
     HasResults
<1>3. CASE Elsewhere
  BY <1>3 DEF Onwards, TypeOK, Elsewhere, Exit, HarvestPublish, HarvestEnd, Terminate,
     Bury, Reachable, Over, Settled, HasResults
<1> QED
  BY <1>1, <1>2, <1>3

(* What stays so while the client waits. *)
LEMMA Waiting ==
  ASSUME Inv, Onwards, UNCHANGED <<callVars, workVars, pc>>, broken => broken'
  PROVE  /\ Heard' /\ Told' /\ Written'
         /\ pc \in Harvested => (phase[Sub] # "running")' \/ (op = "output" /\ item \in warned)
<1> USE DEF callVars, workVars, Inv
<1>1. UNCHANGED <<Executions, Indices, Composite, Sub>>
  BY DEF Executions, Indices, Composite, Sub
<1>2. Executions \subseteq Subs
  BY Names
<1>3. Heard'
  BY <1>1, <1>2 DEF Heard, Onwards
<1>4. Told'
  BY <1>1, <1>2 DEF Told, Onwards, TypeOK
<1>5. Written'
  BY <1>1 DEF Written
<1>6. pc \in Harvested => (phase[Sub] # "running")' \/ (op = "output" /\ item \in warned)
  <2>1. pc \in Harvested => Sub \in Subs
    BY ItemIsOurs DEF Harvested, AtItem
  <2>2. pc \in Harvested => phase[Sub] # "running" \/ (op = "output" /\ item \in warned)
    BY DEF Warned
  <2>3. Sub' = Sub
    BY <1>1
  <2>4. pc \in Harvested /\ phase[Sub] # "running" => phase'[Sub'] # "running"
    BY <2>1, <2>3 DEF Onwards
  <2> QED
    BY <2>2, <2>4
<1> QED
  BY <1>3, <1>4, <1>5, <1>6

-----------------------------------------------------------------------------
(* The controller, the harvester and AWS.                                  *)

LEMMA ServeInv ==
  ASSUME Inv, Serve
  PROVE  Inv'
<1> USE DEF Inv, callVars, workVars, serverVars
<1>0. UNCHANGED <<callVars, workVars, pc, broken>> /\ stage # "client"
  BY DEF Serve, Look, LookAtInstance, Find, FindAgain, EnterRelease, Halt, Publish,
         Clear, ReleaseRaises, Releasing
<1>1. UNCHANGED <<Executions, Indices, Composite, Sub>>
  BY <1>0 DEF Executions, Indices, Composite, Sub
<1>2. pc \in Requests /\ Sub \in Subs
  BY <1>0, ItemIsOurs DEF Flow, Requests, AtItem
<1>3. Onwards
  BY PhasesGoOn DEF Serve, Look, LookAtInstance, Find, FindAgain, EnterRelease,
     ReleaseRaises
<1>4. TypeOK'
  <2>1. phase' \in [Subs -> Phases]
    BY DEF Serve, Look, LookAtInstance, Find, FindAgain, EnterRelease, Halt, Publish,
           Clear, ReleaseRaises, TypeOK, Phases
  <2>2. keeper' \in [Subs -> {"nobody", "client", "harvester"}]
    BY DEF Serve, Look, LookAtInstance, Find, FindAgain, EnterRelease, Halt, Publish,
           Clear, ReleaseRaises, TypeOK
  <2>3. /\ stage' \in {"find", "again", "enter", "instance", "answered"} \cup Releasing
        /\ reply' \in Replies
    BY DEF Serve, Look, LookAtInstance, Find, FindAgain, EnterRelease, Halt, Publish,
           Clear, ReleaseRaises, TypeOK, Releasing, Answer, Proceed, Replies
  <2> QED
    BY <1>0, <1>1, <2>1, <2>2, <2>3 DEF TypeOK
<1>5. /\ stage' # "client"
      /\ stage' \in {"find", "again", "enter"} \cup Releasing => pc = "delete"
  BY DEF Serve, Look, LookAtInstance, Find, FindAgain, EnterRelease, Halt, Publish,
         Clear, ReleaseRaises, Releasing, Answer, Proceed, Flow
<1>6. Flow'
  BY <1>0, <1>1, <1>2, <1>5 DEF Flow
<1>7. ASSUME pc = "delete", stage' = "answered"
      PROVE  /\ reply' \in {"ok", "error", IF op = "stop" THEN "deleted" ELSE "running"}
             /\ reply' \in {"ok", "deleted"} => phase'[Sub] # "running"
             /\ reply' \in {"ok", "deleted"} /\ op = "stop" => phase'[Sub] \in Over
  <2>1. CASE Look \/ LookAtInstance \/ ReleaseRaises
    BY <1>7, <2>1 DEF Look, LookAtInstance, ReleaseRaises, Answer, Proceed, Reachable
  <2>2. CASE Find \/ FindAgain
    BY <1>2, <1>7, <2>2 DEF Find, FindAgain, Answer, Proceed, TypeOK, Phases, Listed,
       Reachable, Over, Settled, HasResults
  <2>3. CASE EnterRelease \/ Halt \/ Publish
    BY <1>7, <2>3 DEF EnterRelease, Halt, Publish, Proceed
  <2>4. CASE Clear
    BY <1>2, <1>7, <2>4 DEF Clear, Answer, TypeOK, Over, Settled, HasResults
  <2> QED
    BY <2>1, <2>2, <2>3, <2>4 DEF Serve
<1>8. Answered'
  BY <1>0, <1>1, <1>7 DEF Answered
<1>9. ASSUME pc = "status" PROVE reply' # "running"
  <2>1. stage = "look" \/ stage = "instance"
    BY <1>0, <1>9 DEF Serve, Look, LookAtInstance, Find, FindAgain, EnterRelease, Halt,
       Publish, Clear, ReleaseRaises, Flow, Releasing
  <2>2. phase[Sub] # "running"
    BY <1>9 DEF Warned, Flow, Harvested, AtItem, Ended
  <2> QED
    BY <1>9, <2>1, <2>2 DEF Serve, Look, LookAtInstance, Find, FindAgain, EnterRelease,
       Halt, Publish, Clear, ReleaseRaises, Releasing, Answer, Proceed, Warned, Reachable
<1>10. HarvestStopsNothing'
  <2>1. ASSUME op # "stop", stage' \in {"find", "again", "enter"} \cup Releasing
        PROVE  phase[Sub] # "running"
    BY <2>1 DEF Serve, Look, LookAtInstance, Find, FindAgain, EnterRelease, Halt,
       Publish, Clear, ReleaseRaises, Releasing, Answer, Proceed, HarvestStopsNothing,
       HasResults, Reachable
  <2>2. ASSUME op # "stop", stage' \in {"find", "again", "enter"} \cup Releasing
        PROVE  phase'[Sub'] # "running"
    BY <1>1, <1>2, <1>3, <2>1, <2>2 DEF Onwards
  <2> QED
    BY <1>0, <2>2 DEF HarvestStopsNothing
<1> QED
  BY <1>0, <1>1, <1>3, <1>4, <1>6, <1>8, <1>9, <1>10, Waiting DEF Warned

LEMMA RaiseInv ==
  ASSUME Inv, Raise
  PROVE  Inv'
<1> USE DEF Inv, callVars, workVars, Raise, Answer
<1>1. UNCHANGED <<Executions, Indices, Composite, Sub>>
  BY DEF Executions, Indices, Composite, Sub
<1>2. Onwards
  BY PhasesGoOn
<1>3. TypeOK'
  BY <1>1 DEF TypeOK, Replies
<1>4. Flow'
  BY <1>1 DEF Flow, Releasing
<1>5. Answered' /\ HarvestStopsNothing'
  BY DEF Answered, HarvestStopsNothing, Releasing
<1> QED
  BY <1>1, <1>2, <1>3, <1>4, <1>5, Waiting DEF Warned

LEMMA ElsewhereInv ==
  ASSUME Inv, Elsewhere
  PROVE  Inv'
<1> USE DEF Inv, callVars, workVars
<1>0. UNCHANGED <<callVars, workVars, pc, stage, reply, broken>>
  BY DEF Elsewhere, Exit, HarvestPublish, HarvestEnd, Terminate, Bury
<1>1. UNCHANGED <<Executions, Indices, Composite, Sub>>
  BY <1>0 DEF Executions, Indices, Composite, Sub
<1>2. Onwards
  BY PhasesGoOn
<1>3. TypeOK'
  <2>1. phase' \in [Subs -> Phases] /\ keeper' \in [Subs -> {"nobody", "client", "harvester"}]
    BY DEF Elsewhere, Exit, HarvestPublish, HarvestEnd, Terminate, Bury, TypeOK, Phases
  <2> QED
    BY <1>0, <1>1, <2>1 DEF TypeOK
<1>4. Flow'
  BY <1>0, <1>1 DEF Flow
<1>5. stage # "client" => Sub \in Subs
  BY ItemIsOurs DEF Flow, AtItem, Requests
<1>6. /\ phase[Sub] # "running" /\ stage # "client" => phase'[Sub'] # "running"
      /\ phase[Sub] \in Over /\ stage # "client" => phase'[Sub'] \in Over
  BY <1>1, <1>2, <1>5 DEF Onwards
<1>7. Answered'
  BY <1>0, <1>1, <1>6 DEF Answered
<1>8. HarvestStopsNothing'
  BY <1>0, <1>1, <1>6 DEF HarvestStopsNothing, Releasing
<1> QED
  BY <1>0, <1>1, <1>2, <1>3, <1>4, <1>7, <1>8, Waiting DEF Warned

-----------------------------------------------------------------------------
(* The threads of plz logs.                                                *)

LEMMA ThreadInv ==
  ASSUME Inv, NEW s \in Subs, ThreadStep(s)
  PROVE  Inv'
<1> USE DEF Inv, workVars
<1>0. /\ UNCHANGED <<serverVars, composition, op, force, rewrite, calls, workVars, pc,
                     stage, reply>>
      /\ broken' \in {broken, TRUE}
  <2>1. CASE ThreadAsks(s)
    BY <2>1 DEF ThreadAsks, Turns
  <2>2. CASE ThreadEnds(s)
    BY <2>2 DEF ThreadEnds, Turns
  <2> QED
    BY <2>1, <2>2 DEF ThreadStep
<1>1. UNCHANGED <<Executions, Indices, Composite, Sub>>
  BY <1>0 DEF Executions, Indices, Composite, Sub
<1>2. PICK to \in {"instance", "stored", "follow", "over"} :
        /\ threads[s] \in {"look", "instance", "stored", "follow"}
        /\ threads' = [threads EXCEPT ![s] = to]
        /\ to \in {"stored", "over"} =>
             broken' \/ phase[s] # "running" \/ threads[s] = "stored"
  BY DEF ThreadStep, ThreadAsks, ThreadEnds, Turns, HasResults
<1>3. TypeOK'
  <2>1. op = "logs" /\ Composite /\ s \in Executions
    BY <1>2 DEF TypeOK
  <2>2. broken' \in BOOLEAN
    BY <1>0 DEF TypeOK
  <2>3. threads' \in [Subs -> {"none", "look", "instance", "stored", "follow", "over",
                               "heard"}]
    BY <1>2 DEF TypeOK
  <2>4. {t \in Subs : threads'[t] # "none"} \subseteq Executions
    BY <1>2, <2>1 DEF TypeOK
  <2> QED
    BY <1>0, <1>1, <2>1, <2>2, <2>3, <2>4 DEF TypeOK, serverVars
<1>4. Heard'
  <2>1. ASSUME op = "logs", ~broken', NEW t \in Executions,
               threads'[t] \in {"stored", "over", "heard"}
        PROVE  phase[t] # "running"
    BY <1>0, <1>2, <2>1, Names DEF Heard, TypeOK
  <2> QED
    BY <1>0, <1>1, <2>1 DEF Heard, serverVars
<1>5. Flow' /\ Told' /\ Written'
  BY <1>0, <1>1 DEF Flow, Told, Written, serverVars
<1>6. Answered' /\ Warned' /\ HarvestStopsNothing'
  BY <1>0, <1>1 DEF Answered, Warned, HarvestStopsNothing, serverVars
<1> QED
  BY <1>3, <1>4, <1>5, <1>6

LEMMA HearInv ==
  ASSUME Inv, NEW s \in Subs, Hear(s)
  PROVE  Inv'
<1> USE DEF Inv, Hear, Do, workVars, serverVars
<1>1. UNCHANGED <<Executions, Indices, Composite>>
  BY DEF Executions, Indices, Composite
<1>2. op = "logs" /\ pc' \in {"drain", "done"} /\ stage' = "client"
  BY DEF TypeOK, Flow, AtItem, Ended, Requests
<1>3. TypeOK'
  <2>1. Composite /\ s \in Executions
    BY DEF TypeOK
  <2>2. threads' \in [Subs -> {"none", "look", "instance", "stored", "follow", "over",
                               "heard"}]
    BY DEF TypeOK
  <2>3. {t \in Subs : threads'[t] # "none"} \subseteq Executions
    BY <1>2, <2>1 DEF TypeOK
  <2>4. reply' \in Replies
    BY DEF TypeOK, Replies
  <2> QED
    BY <1>1, <1>2, <2>1, <2>2, <2>3, <2>4 DEF TypeOK, Ended
<1>4. Flow'
  BY <1>1, <1>2 DEF Flow, Requests, Ended, AtItem, Releasing
<1>5. Heard'
  <2>1. ASSUME ~broken, NEW t \in Executions, threads'[t] \in {"stored", "over", "heard"}
        PROVE  phase[t] # "running"
    BY <1>2, <2>1, Names DEF Heard, TypeOK
  <2>2. ASSUME pc' = "done", NEW t \in Executions PROVE threads'[t] = "heard"
    BY <2>2
  <2> QED
    BY <1>1, <2>1, <2>2 DEF Heard
<1>6. Told' /\ Written'
  BY <1>1, <1>2 DEF Told, Written
<1>7. Answered' /\ Warned' /\ HarvestStopsNothing'
  BY <1>2 DEF Answered, Warned, HarvestStopsNothing, Harvested, Releasing
<1> QED
  BY <1>3, <1>4, <1>5, <1>6, <1>7

-----------------------------------------------------------------------------
(* A call of the client begins, or is interrupted.                         *)

LEMMA BeginInv ==
  ASSUME Inv, BeginRun \/ BeginLogs \/ BeginStop \/ BeginOutput
  PROVE  Inv'
<1> USE DEF Inv, BeginOn, Ask, Do, Threads, serverVars
<1>0. /\ UNCHANGED <<phase, keeper, composition, dirs, warned>>
      /\ broken' = FALSE /\ told' = {} /\ calls' \in 0..MaxCalls
      /\ stage' = (IF pc' \in Requests THEN "look" ELSE "client")
      /\ reply' = "none"
  <2>1. calls \in Nat /\ calls < MaxCalls /\ calls' = calls + 1 => calls' \in 0..MaxCalls
    BY ClientAssumption DEF ClientAssumption
  <2>2. calls \in Nat
    BY ClientAssumption DEF ClientAssumption, TypeOK
  <2>3. CASE BeginRun \/ BeginLogs
    BY <2>1, <2>2, <2>3 DEF BeginRun, BeginLogs, Requests
  <2>4. CASE BeginStop \/ BeginOutput
    BY <2>1, <2>2, <2>4 DEF BeginStop, BeginOutput, Requests
  <2> QED
    BY <2>3, <2>4
<1>1. UNCHANGED <<Executions, Indices, Composite>>
  BY <1>0 DEF Executions, Indices, Composite
<1>2. CASE BeginRun
  <2>1. TypeOK'
    BY <1>0, <1>1, <1>2, Names DEF BeginRun, TypeOK, Requests, Replies
  <2>2. Flow' /\ Heard' /\ Told' /\ Written'
    BY <1>0, <1>1, <1>2, Names DEF BeginRun, Flow, Heard, Told, Written, Requests, AtItem,
       Releasing
  <2>3. Answered' /\ Warned' /\ HarvestStopsNothing'
    BY <1>0, <1>2 DEF BeginRun, Answered, Warned, HarvestStopsNothing, Harvested,
       Releasing
  <2> QED
    BY <2>1, <2>2, <2>3
<1>3. CASE BeginLogs
  <2>1. TypeOK'
    BY <1>0, <1>1, <1>3, Names DEF BeginLogs, TypeOK, Requests, Replies
  <2>2. Flow' /\ Heard' /\ Told' /\ Written'
    BY <1>0, <1>1, <1>3, Names DEF BeginLogs, Flow, Heard, Told, Written, Requests, AtItem,
       Releasing
  <2>3. Answered' /\ Warned' /\ HarvestStopsNothing'
    BY <1>0, <1>3 DEF BeginLogs, Answered, Warned, HarvestStopsNothing, Harvested,
       Releasing
  <2> QED
    BY <2>1, <2>2, <2>3
<1>4. CASE BeginStop
  <2>1. TypeOK'
    BY <1>0, <1>1, <1>4, Names DEF BeginStop, TypeOK, Requests, Replies
  <2>2. Flow' /\ Heard' /\ Told' /\ Written'
    BY <1>0, <1>1, <1>4, Names DEF BeginStop, Flow, Heard, Told, Written, Requests, AtItem,
       Releasing
  <2>3. Answered' /\ Warned' /\ HarvestStopsNothing'
    BY <1>0, <1>4 DEF BeginStop, Answered, Warned, HarvestStopsNothing, Harvested,
       Releasing
  <2> QED
    BY <2>1, <2>2, <2>3
<1>5. CASE BeginOutput
  <2>1. TypeOK'
    <3>1. force' \in BOOLEAN /\ rewrite' \in BOOLEAN
      BY <1>5 DEF BeginOutput, Composite
    <3> QED
      BY <1>0, <1>1, <1>5, <3>1 DEF BeginOutput, TypeOK, Requests, Replies
  <2>2. Flow' /\ Heard' /\ Told' /\ Written'
    BY <1>0, <1>1, <1>5, Names DEF BeginOutput, Flow, Heard, Told, Written, Requests,
       AtItem, Releasing
  <2>3. Answered' /\ Warned' /\ HarvestStopsNothing'
    BY <1>0, <1>5 DEF BeginOutput, Answered, Warned, HarvestStopsNothing, Harvested,
       Releasing
  <2> QED
    BY <2>1, <2>2, <2>3
<1> QED
  BY <1>2, <1>3, <1>4, <1>5

LEMMA InterruptInv ==
  ASSUME Inv, KeyboardInterrupt \/ InterruptLogs
  PROVE  Inv'
<1> USE DEF Inv, KeyboardInterrupt, InterruptLogs, Do, Threads, serverVars, callVars, workVars
<1>1. UNCHANGED <<Executions, Indices, Composite>>
  BY DEF Executions, Indices, Composite
<1>2. TypeOK'
  BY <1>1, Names DEF TypeOK, Ended, Replies
<1>3. Flow'
  BY <1>1 DEF Flow, Requests, AtItem, Ended, Releasing
<1>4. Heard' /\ Told' /\ Written'
  BY <1>1, Names DEF Heard, Told, Written, Ended, TypeOK
<1>5. Answered' /\ Warned' /\ HarvestStopsNothing'
  BY DEF Answered, Warned, HarvestStopsNothing, Harvested, Releasing
<1> QED
  BY <1>2, <1>3, <1>4, <1>5

-----------------------------------------------------------------------------
(* What the client does with an answer.                                    *)

(* Where the client goes, and what there is to prove of it. *)
LEMMA Going ==
  ASSUME Inv, UNCHANGED <<serverVars, callVars>>,
         pc' \in {"visit", "delete", "stream", "measures", "status", "output", "mkdir",
                 "untar"} \cup (Ended \ {"impossible"}),
         pc' \in Requests => stage' = "look" /\ reply' = "none",
         pc' \notin Requests => stage' = "client" /\ reply' \in Replies,
         todo' \subseteq todo, item' \in Executions \cup Indices \cup {Nothing},
         told' \subseteq Executions, warned' \subseteq Indices,
         dirs' \in [Indices -> Contents], broken' \in BOOLEAN
  PROVE  /\ TypeOK' /\ Answered' /\ HarvestStopsNothing'
         /\ stage' = "client" <=> pc' \notin Requests
         /\ stage' \in {"client", "look"}
<1> USE DEF Inv, callVars, serverVars
<1>1. UNCHANGED <<Executions, Indices, Composite>>
  BY DEF Executions, Indices, Composite
<1>2. stage' \in {"client", "look"} /\ reply' \in Replies
  BY DEF Replies
<1>3. todo' \subseteq IF op = "stop" THEN Executions ELSE Indices
  BY DEF TypeOK
<1>4. pc' \in Requests \cup Ended \cup {"idle", "visit", "stream", "drain", "mkdir", "untar"}
  BY DEF Requests
<1>5. TypeOK'
  BY <1>1, <1>2, <1>3, <1>4 DEF TypeOK
<1>6. Answered' /\ HarvestStopsNothing'
  BY <1>2 DEF Answered, HarvestStopsNothing, Releasing
<1> QED
  BY <1>2, <1>5, <1>6

LEMMA VisitInv ==
  ASSUME Inv, Visit
  PROVE  Inv'
<1> USE DEF Inv, Visit, Ask, Do, callVars, serverVars
<1>1. UNCHANGED <<Executions, Indices, Composite>>
  BY DEF Executions, Indices, Composite
<1>2. op \in {"stop", "output"}
  BY DEF TypeOK, Flow, AtItem, Ended
<1>3. /\ pc' \in {"done", "delete"}
      /\ pc' = "done" => todo = {} /\ todo' = {}
      /\ pc' = "delete" => item' \in todo /\ todo' = todo \ {item'}
  OBVIOUS
<1>4. item' \in Executions \cup Indices \cup {Nothing}
  BY DEF TypeOK
<1>5. TypeOK' /\ Answered' /\ HarvestStopsNothing'
  BY <1>3, <1>4, Going DEF TypeOK, Ended, Requests, Replies
<1>6. Flow'
  BY <1>1, <1>2, <1>3 DEF TypeOK, Flow, Requests, AtItem, Ended, Releasing
<1>7. Heard' /\ Warned'
  BY <1>2, <1>3 DEF Heard, Warned, Harvested
<1>8. Told'
  BY <1>1, <1>3 DEF Told, Ended
<1>9. Written'
  BY <1>1, <1>2, <1>3 DEF Written, AtItem, Ended
<1> QED
  BY <1>5, <1>6, <1>7, <1>8, <1>9

LEMMA StopAnsweredInv ==
  ASSUME Inv, StopAnswered
  PROVE  Inv'
<1> USE DEF Inv, StopAnswered, Do, callVars, serverVars
<1>1. UNCHANGED <<Executions, Indices, Composite>>
  BY DEF Executions, Indices, Composite
<1>2. item \in Executions /\ Sub = item
  BY ItemIsOurs DEF AtItem, Sub
<1>3. pc' \in {"visit", "done", "error"} /\ stage' = "client" /\ reply' = "none"
  OBVIOUS
<1>4. /\ told' \subseteq Executions
      /\ \A s \in told' : s \in told \/ (s = item /\ phase[s] \in Over)
      /\ pc' # "error" => told' = told \cup {item}
  BY <1>2 DEF TypeOK, Answered
<1>5. TypeOK' /\ Answered' /\ HarvestStopsNothing'
  BY <1>3, <1>4, Going DEF TypeOK, Ended, Requests, Replies
<1>6. Flow'
  BY <1>1, <1>3 DEF Flow, Requests, AtItem, Ended, Releasing
<1>7. Heard' /\ Warned' /\ Written'
  BY <1>1, <1>3 DEF Heard, Warned, Written, Harvested
<1>8. Told'
  BY <1>1, <1>3, <1>4 DEF Told, Ended
<1> QED
  BY <1>5, <1>6, <1>7, <1>8

LEMMA HarvestAnsweredInv ==
  ASSUME Inv, HarvestAnswered
  PROVE  Inv'
<1> USE DEF Inv, HarvestAnswered, Do, Ask, callVars, serverVars
<1>1. UNCHANGED <<Executions, Indices, Composite, Sub>>
  BY DEF Executions, Indices, Composite, Sub
<1>2. op \in {"run", "output"}
  BY DEF TypeOK, Flow, Ended
<1>3. item \in Indices
  BY ItemIsOurs DEF AtItem
<1>4. /\ pc' \in {"error", "measures", "output"}
      /\ pc' = "measures" => op = "run"
      /\ warned' \subseteq warned \cup {item} /\ warned \subseteq warned'
      /\ pc' # "error" =>
           reply = "ok" \/ (reply = "running" /\ item \in warned' /\ (force \/ Composite))
  OBVIOUS
<1>5. TypeOK' /\ Answered' /\ HarvestStopsNothing'
  BY <1>3, <1>4, Going DEF TypeOK, Ended, Requests, Replies
<1>6. Flow'
  BY <1>1, <1>2, <1>4 DEF Flow, Requests, AtItem, Ended, Releasing
<1>7. Warned'
  BY <1>1, <1>2, <1>4 DEF Warned, Harvested, Answered, Flow
<1>8. Heard' /\ Told'
  BY <1>2 DEF Heard, Told
<1>9. Written'
  BY <1>1, <1>2, <1>4 DEF Written, AtItem, Ended
<1> QED
  BY <1>5, <1>6, <1>7, <1>8, <1>9

LEMMA StreamInv ==
  ASSUME Inv, LogsAnswered \/ StreamEnds
  PROVE  Inv'
<1> USE DEF Inv, Do, Ask, callVars, serverVars, workVars
<1>0. /\ UNCHANGED <<serverVars, callVars, workVars>>
      /\ broken' \in {broken, TRUE}
      /\ pc \in {"logs", "stream"}
      /\ pc' \in {"error", "stream", "delete", "done"}
      /\ pc' = "delete" <=> stage' = "look"
      /\ stage' \in {"look", "client"} /\ reply' = "none"
      /\ pc' = "delete" => op = "run"
      /\ pc' = "done" => op # "run" /\ (phase[Sub] # "running" \/ broken')
  BY DEF LogsAnswered, StreamEnds
<1>1. UNCHANGED <<Executions, Indices, Composite>>
  BY <1>0 DEF Executions, Indices, Composite
<1>2. op \in {"run", "logs"} /\ ~Composite /\ item = NoIndex
  BY <1>0 DEF TypeOK, Flow, Ended
<1>3. TypeOK' /\ Answered' /\ HarvestStopsNothing'
  <2>1. broken' \in BOOLEAN
    BY <1>0 DEF TypeOK
  <2> QED
    BY <1>0, <2>1, Going DEF TypeOK, Ended, Requests, Replies
<1>4. Flow'
  BY <1>0, <1>1, <1>2 DEF Flow, Requests, AtItem, Ended, Releasing
<1>5. Warned' /\ Told'
  BY <1>0, <1>2 DEF Warned, Told, Harvested
<1>6. Heard'
  <2>1. op = "logs" => Executions = {Sub}
    BY <1>2, Names DEF Sub
  <2>2. ~broken' => ~broken
    BY <1>0
  <2>3. ASSUME op = "logs", ~broken', NEW s \in Executions,
               threads[s] \in {"stored", "over", "heard"}
        PROVE  phase[s] # "running"
    BY <2>2, <2>3 DEF Heard
  <2>4. ASSUME op = "logs", ~broken', pc' = "done", NEW s \in Executions
        PROVE  phase[s] # "running"
    BY <1>0, <2>1, <2>4
  <2> QED
    BY <1>0, <1>1, <2>3, <2>4 DEF Heard
<1>7. Written'
  BY <1>0, <1>1, <1>2, Names DEF Written, AtItem, Ended
<1> QED
  BY <1>3, <1>4, <1>5, <1>6, <1>7

(* a run that was harvested is not told to be running *)
LEMMA AfterHarvestInv ==
  ASSUME Inv, MeasuresAnswered \/ StatusAnswered \/ OutputAnswered
  PROVE  Inv'
<1> USE DEF Inv, callVars, serverVars, workVars
<1>0. /\ UNCHANGED <<serverVars, callVars, workVars, broken>>
      /\ pc \in {"measures", "status", "output"}
      /\ pc' \in {"error", "status", "output", "mkdir"}
      /\ pc' \in Requests => stage' = "look" /\ reply' = "none"
      /\ pc' \notin Requests => stage' = "client" /\ reply' \in {"none", reply}
      /\ pc' = "status" => pc = "measures"
  BY DEF MeasuresAnswered, StatusAnswered, OutputAnswered, Do, Ask, Requests, Warned
<1>1. UNCHANGED <<Executions, Indices, Composite, Sub>>
  BY <1>0 DEF Executions, Indices, Composite, Sub
<1>2. op \in {"run", "output"} /\ (pc' = "status" => op = "run")
  BY <1>0 DEF TypeOK, Flow, Ended
<1>3. TypeOK' /\ Answered' /\ HarvestStopsNothing'
  <2>1. reply' \in Replies
    BY <1>0 DEF TypeOK, Replies
  <2> QED
    BY <1>0, <2>1, Going DEF TypeOK, Ended
<1>4. Flow'
  <2>1. pc \in AtItem /\ pc' \in AtItem \cup {"error"}
    BY <1>0 DEF AtItem
  <2>2. stage' = "client" <=> pc' \notin Requests
    BY <1>0
  <2>3. stage' \in {"client", "look"}
    BY <1>0
  <2> QED
    BY <1>0, <1>1, <1>2, <2>1, <2>2, <2>3 DEF Flow, AtItem, Ended, Releasing
<1>5. Warned'
  BY <1>0, <1>1 DEF Warned, Harvested, Requests
<1>6. Heard' /\ Told'
  BY <1>2, <1>0 DEF Heard, Told
<1>7. Written'
  BY <1>0, <1>1 DEF Written, AtItem, Ended
<1> QED
  BY <1>3, <1>4, <1>5, <1>6, <1>7

LEMMA MakeDirInv ==
  ASSUME Inv, MakeDir
  PROVE  Inv'
<1> USE DEF Inv, MakeDir, Do, callVars, serverVars
<1>1. UNCHANGED <<Executions, Indices, Composite, Sub>>
  BY DEF Executions, Indices, Composite, Sub
<1>2. op \in {"run", "output"} /\ item \in Indices
  BY ItemIsOurs DEF TypeOK, Flow, Ended, AtItem
<1>3. /\ pc' \in {"untar", "visit", "error"}
      /\ pc' = "visit" => op = "output" /\ dirs[item] # "none" /\ Composite /\ ~rewrite
      /\ stage' = "client" /\ reply' \in {"none", reply}
      /\ pc' = "untar" => dirs' = [dirs EXCEPT ![item] = "torn"]
      /\ pc' # "untar" => dirs' = dirs
  BY <1>2 DEF Flow, Requests
<1>4. TypeOK' /\ Answered' /\ HarvestStopsNothing'
  <2>1. dirs' \in [Indices -> Contents]
    BY <1>3 DEF TypeOK, Contents
  <2>2. reply' \in Replies
    BY <1>3 DEF TypeOK, Replies
  <2> QED
    BY <1>2, <1>3, <2>1, <2>2, Going DEF TypeOK, Ended, Requests
<1>5. Flow'
  BY <1>1, <1>2, <1>3 DEF Flow, Requests, AtItem, Ended, Releasing
<1>6. Warned'
  BY <1>1, <1>3 DEF Warned, Harvested
<1>7. Heard' /\ Told'
  BY <1>2 DEF Heard, Told
<1>8. Written'
  BY <1>1, <1>2, <1>3 DEF Written, AtItem, Ended, TypeOK
<1> QED
  BY <1>4, <1>5, <1>6, <1>7, <1>8

LEMMA UntarInv ==
  ASSUME Inv, Untar
  PROVE  Inv'
<1> USE DEF Inv, Untar, NextItem, Do, callVars, serverVars
<1>1. UNCHANGED <<Executions, Indices, Composite, Sub>>
  BY DEF Executions, Indices, Composite, Sub
<1>2. /\ op \in {"run", "output"} /\ item \in Indices /\ Sub = composition[item]
      /\ op = "run" => Indices = {item}
  BY ItemIsOurs, Names DEF TypeOK, Flow, Ended, AtItem
<1>3. /\ pc' \in {"done", "visit", "error"}
      /\ pc' = "done" => op = "run"
      /\ pc' = "visit" => op = "output"
      /\ stage' = "client" /\ reply' = "none"
  BY <1>2 DEF Flow, Requests
<1>4. ASSUME pc' # "error"
      PROVE  \E what \in {"early", "final"} :
               /\ dirs' = [dirs EXCEPT ![item] = what]
               /\ what = "early" => item \in warned
  <2>1. phase[Sub] = "running" => item \in warned
    BY DEF Warned, Harvested
  <2> QED
    BY <1>4, <2>1
<1>5. pc' = "error" => dirs' = dirs
  BY DEF Flow
<1>6. TypeOK' /\ Answered' /\ HarvestStopsNothing'
  <2>1. dirs' \in [Indices -> Contents]
    BY <1>4, <1>5 DEF TypeOK, Contents
  <2>2. broken' \in BOOLEAN
    BY DEF TypeOK
  <2> QED
    BY <1>2, <1>3, <2>1, <2>2, Going DEF TypeOK, Ended, Requests, Replies
<1>7. Flow'
  BY <1>1, <1>2, <1>3 DEF Flow, Requests, AtItem, Ended, Releasing
<1>8. Warned'
  BY <1>3 DEF Warned, Harvested
<1>9. Heard' /\ Told'
  BY <1>2 DEF Heard, Told
<1>10. Written'
  BY <1>1, <1>2, <1>3, <1>4, <1>5 DEF Written, AtItem, Ended, TypeOK
<1> QED
  BY <1>6, <1>7, <1>8, <1>9, <1>10

-----------------------------------------------------------------------------
(* The theorems.                                                           *)

LEMMA InitInv == Init => Inv
<1> SUFFICES ASSUME Init PROVE Inv
  OBVIOUS
<1>1. TypeOK
  <2>1. {s \in Subs : threads[s] # "none"} = {}
    BY DEF Init
  <2>2. dirs \in [Indices -> Contents] /\ phase \in [Subs -> Phases]
    BY DEF Init, Contents, Phases
  <2>3. calls \in 0..MaxCalls
    BY ClientAssumption DEF ClientAssumption, Init
  <2> QED
    BY <2>1, <2>2, <2>3 DEF Init, TypeOK, Replies
<1>2. Flow /\ Answered /\ Warned /\ Heard /\ Told /\ Written
  BY DEF Init, Flow, Answered, Warned, Heard, Told, Written, Requests, AtItem, Harvested,
     Releasing, Ended
<1>3. HarvestStopsNothing
  BY DEF Init, HarvestStopsNothing, Releasing
<1> QED
  BY <1>1, <1>2, <1>3 DEF Inv

LEMMA NextInv == Inv /\ [Next]_vars => Inv'
<1> SUFFICES ASSUME Inv, [Next]_vars PROVE Inv'
  OBVIOUS
<1>1. CASE Serve
  BY <1>1, ServeInv
<1>2. CASE Raise
  BY <1>2, RaiseInv
<1>3. CASE Elsewhere
  BY <1>3, ElsewhereInv
<1>4. CASE \E s \in Subs : ThreadStep(s)
  BY <1>4, ThreadInv
<1>5. CASE BeginRun \/ BeginLogs \/ BeginStop \/ BeginOutput
  BY <1>5, BeginInv
<1>6. CASE KeyboardInterrupt \/ InterruptLogs
  BY <1>6, InterruptInv
<1>7. CASE Act
  BY <1>7, HearInv, VisitInv, StopAnsweredInv, HarvestAnsweredInv, StreamInv,
     AfterHarvestInv, MakeDirInv, UntarInv DEF Act
<1>8. CASE UNCHANGED vars
  <2>1. UNCHANGED <<Executions, Indices, Composite, Sub>>
    BY <1>8 DEF vars, serverVars, callVars, workVars, Executions, Indices, Composite, Sub
  <2> QED
    BY <1>8, <2>1 DEF Inv, TypeOK, Flow, Answered, Warned, Heard, Told, Written,
       HarvestStopsNothing, vars, serverVars, callVars, workVars
<1> QED
  BY <1>1, <1>2, <1>3, <1>4, <1>5, <1>6, <1>7, <1>8 DEF Next

LEMMA Invariant == Spec => []Inv
<1> QED
  BY InitInv, NextInv, PTL DEF Spec

(* Every variable keeps its type, for any composition and any number of    *)
(* calls of the client.                                                    *)
THEOREM TypeCorrect == Spec => []TypeOK
<1>1. Inv => TypeOK
  BY DEF Inv
<1> QED
  BY <1>1, Invariant, PTL

(* "This should not happen" does not: once its harvest was answered        *)
(* without an error a run is over, and so is everything whose logs came    *)
(* to their end.                                                           *)
THEOREM FollowedToTheEnd == Spec => []RunIsFinished
<1>1. Inv => RunIsFinished
  BY DEF Inv, RunIsFinished, Flow, Heard
<1> QED
  BY <1>1, Invariant, PTL

(* What changes a phase. *)
LEMMA Moves ==
  [Next]_vars => UNCHANGED phase \/ Halt \/ Publish \/ Clear \/ Elsewhere
BY DEF Next, Serve, Look, LookAtInstance, Find, FindAgain, EnterRelease,
       ReleaseRaises, Raise, Act, Visit, StopAnswered, HarvestAnswered, LogsAnswered,
       StreamEnds, MeasuresAnswered, StatusAnswered, OutputAnswered, MakeDir, Untar,
       BeginRun, BeginLogs, BeginStop, BeginOutput, BeginOn, KeyboardInterrupt,
       InterruptLogs, ThreadStep, ThreadAsks, ThreadEnds, Turns, Hear, serverVars, vars

(* Only a burial that raised leaves nothing behind.                        *)
Forgotten == \A s \in Subs : phase[s] = "forgotten" => CallsMayFail

LEMMA ForgottenInv == Inv /\ Forgotten /\ [Next]_vars => Forgotten'
<1> SUFFICES ASSUME Inv, Forgotten, [Next]_vars,
                    NEW s \in Subs, phase'[s] = "forgotten", ~CallsMayFail
             PROVE  FALSE
  BY DEF Forgotten
<1> USE DEF Inv, TypeOK
<1>1. phase[s] # "forgotten"
  BY DEF Forgotten
<1>2. CASE UNCHANGED phase \/ Halt \/ Publish \/ Clear
  BY <1>1, <1>2 DEF Halt, Publish, Clear
<1>3. CASE Elsewhere
  BY <1>1, <1>3 DEF Elsewhere, Exit, HarvestPublish, HarvestEnd, Terminate, Bury
<1> QED
  BY <1>2, <1>3, Moves

(* What plz stop says is stopped is, with results or a tombstone unless    *)
(* its burial raised, and it passes nothing over before it ends.           *)
THEOREM StoppedAsTold == Spec => []ToldIsSettled
<1>1. ASSUME Inv, Forgotten, op = "stop" PROVE ToldIsSettled
  <2>1. pc = "done" => \A s \in Executions \ todo : s \in told
    BY <1>1 DEF Inv, Told
  <2>2. \A s \in told : s \in Subs /\ phase[s] \in Over
    BY <1>1, Names DEF Inv, TypeOK, Told
  <2>3. \A s \in told : phase[s] \in Settled \/ (phase[s] = "forgotten" /\ CallsMayFail)
    BY <1>1, <2>2 DEF Forgotten, Over
  <2> QED
    BY <2>1, <2>3 DEF ToldIsSettled
<1>2. Inv /\ Forgotten => ToldIsSettled
  BY <1>1 DEF ToldIsSettled
<1>3. Init => Forgotten
  BY DEF Init, Forgotten
<1> QED
  BY <1>2, <1>3, Invariant, ForgottenInv, PTL DEF Spec

(* The output plz run and plz output leave behind is whole and final,      *)
(* unless a warning says otherwise or an earlier call's was kept.          *)
THEOREM OutputAsTold == Spec => []OutputIsHonest
<1>1. ASSUME Inv, op \in {"run", "output"}, pc = "done" PROVE OutputIsHonest
  <2>1. todo = {}
    BY <1>1 DEF Inv, Flow
  <2> QED
    BY <1>1, <2>1 DEF Inv, Written, OutputIsHonest, AtItem, Ended
<1>2. Inv => OutputIsHonest
  BY <1>1 DEF OutputIsHonest
<1> QED
  BY <1>2, Invariant, PTL

(* No harvest stops a process, whenever it gets to the instance.           *)
THEOREM OnlyStopStops == Spec => []HarvestStopsNothing
<1>1. Inv => HarvestStopsNothing
  BY DEF Inv
<1> QED
  BY <1>1, Invariant, PTL

-----------------------------------------------------------------------------
(* The controller's side.                                                  *)

(* A release is past the stop, and past the publication.                   *)
Released ==
  /\ stage \in {"publish", "clear"} => phase[Sub] # "running"
  /\ stage = "clear" => phase[Sub] \in HasResults

(* It stays so: the phases only go on, and the client waits meanwhile.     *)
LEMMA ReleasedInv == Inv /\ Released /\ [Next]_vars => Released'
<1> SUFFICES ASSUME Inv, Released, [Next]_vars,
                    stage' \in {"publish", "clear"}
             PROVE  /\ (phase[Sub] # "running")'
                    /\ stage' = "clear" => (phase[Sub] \in HasResults)'
  BY DEF Released
<1> USE DEF callVars, workVars, serverVars
<1>1. \/ UNCHANGED <<callVars, workVars, pc>> /\ (Halt \/ Publish)
      \/ UNCHANGED <<composition, op, item, stage>> /\ (UNCHANGED phase \/ Elsewhere)
  <2>1. CASE Serve
    BY <2>1 DEF Serve, Look, LookAtInstance, Find, FindAgain, EnterRelease, Halt,
                Publish, Clear, ReleaseRaises, Answer, Proceed
  <2>2. ASSUME NEW s \in Subs, ThreadStep(s) \/ Hear(s)
        PROVE  UNCHANGED <<composition, op, item, stage, phase>>
    BY <2>2 DEF ThreadStep, ThreadAsks, ThreadEnds, Turns, Hear, Do
  <2>3. CASE Act
    BY <2>2, <2>3 DEF Act, Visit, StopAnswered, HarvestAnswered, LogsAnswered, StreamEnds,
       MeasuresAnswered, StatusAnswered, OutputAnswered, MakeDir, Untar, Do, Ask
  <2>4. CASE \/ BeginRun \/ BeginLogs \/ BeginStop \/ BeginOutput
             \/ KeyboardInterrupt \/ InterruptLogs \/ Raise
    BY <2>4 DEF BeginRun, BeginLogs, BeginStop, BeginOutput, KeyboardInterrupt,
       InterruptLogs, Raise, Do, Ask, Answer
  <2>5. CASE Elsewhere
    BY <2>5 DEF Elsewhere, Exit, HarvestPublish, HarvestEnd, Terminate, Bury
  <2>6. CASE UNCHANGED vars
    BY <2>6 DEF vars
  <2> QED
    BY <2>1, <2>2, <2>3, <2>4, <2>5, <2>6 DEF Next
<1>2. Sub' = Sub /\ Sub \in Subs
  <2>1. pc = "delete"
    BY <1>1 DEF Inv, Flow, Releasing, Halt, Publish
  <2> QED
    BY <1>1, <2>1, ItemIsOurs DEF Inv, AtItem, Sub
<1>3. CASE Halt \/ Publish
  BY <1>2, <1>3 DEF Halt, Publish, Proceed, Inv, TypeOK, Reachable, HasResults
<1>4. CASE UNCHANGED phase /\ stage' = stage
  BY <1>2, <1>4 DEF Released
<1>5. CASE Elsewhere /\ stage' = stage
  BY <1>2, <1>5 DEF Released, Elsewhere, Exit, HarvestPublish, HarvestEnd, Terminate,
     Bury, Inv, TypeOK, Reachable, HasResults
<1> QED
  BY <1>1, <1>3, <1>4, <1>5

(* Clients, harvester and AWS do with the containers of an execution what  *)
(* Placement allows: results are published of what has ended, and only     *)
(* what has results is removed.                                            *)
THEOREM ServedFromPlacement == Spec => ServerIsPlacement
<1> DEFINE On == [s \in Subs |-> {s} \cap {t \in Subs : phase[t] \in Reachable}]
           Alive == {s \in Subs : phase[s] = "running"}
           Record == [s \in Subs |-> IF phase[s] \in HasResults THEN "results"
                        ELSE IF phase[s] = "buried" THEN "tombstone" ELSE "none"]
<1>1. ASSUME NEW s \in Subs, NEW to \in Phases, phase \in [Subs -> Phases],
             phase' = [phase EXCEPT ![s] = to]
      PROVE  /\ On' = [On EXCEPT ![s] = IF to \in Reachable THEN {s} ELSE {}]
             /\ Alive' = IF to = "running" THEN Alive \cup {s} ELSE Alive \ {s}
             /\ Record' = [Record EXCEPT ![s] =
                  IF to \in HasResults THEN "results"
                  ELSE IF to = "buried" THEN "tombstone" ELSE "none"]
  <2>1. \A t \in Subs : {t} \cap {u \in Subs : phase'[u] \in Reachable}
          = IF t = s THEN (IF to \in Reachable THEN {s} ELSE {})
            ELSE {t} \cap {u \in Subs : phase[u] \in Reachable}
    BY <1>1
  <2>2. Alive' = IF to = "running" THEN Alive \cup {s} ELSE Alive \ {s}
    BY <1>1
  <2>3. Record' = [Record EXCEPT ![s] = IF to \in HasResults THEN "results"
                                   ELSE IF to = "buried" THEN "tombstone" ELSE "none"]
    BY <1>1
  <2> QED
    BY <2>1, <2>2, <2>3
<1>2. /\ On \in [Subs -> SUBSET Subs]
      /\ Alive \subseteq Subs
      /\ Record \in [Subs -> {"none", "results", "tombstone"}]
      /\ \A s \in Subs :
        /\ On[s] = IF phase[s] \in Reachable THEN {s} ELSE {}
        /\ s \in Alive <=> phase[s] = "running"
        /\ Record[s] = IF phase[s] \in HasResults THEN "results"
                       ELSE IF phase[s] = "buried" THEN "tombstone" ELSE "none"
  OBVIOUS
<1> HIDE DEF On, Alive, Record
<1>3. ASSUME NEW s \in Subs, NEW to \in Phases, phase \in [Subs -> Phases],
             phase' = [phase EXCEPT ![s] = to]
      PROVE  /\ phase[s] \in Reachable /\ to \in Reachable => On' = On
             /\ phase[s] \notin Reachable /\ to \notin Reachable => On' = On
             /\ phase[s] # "running" /\ to # "running" => Alive' = Alive
             /\ phase[s] \notin Settled /\ to \notin Settled => Record' = Record
             /\ phase[s] \in HasResults /\ to \in HasResults => Record' = Record
  <2>0. /\ On' = [On EXCEPT ![s] = IF to \in Reachable THEN {s} ELSE {}]
        /\ Alive' = IF to = "running" THEN Alive \cup {s} ELSE Alive \ {s}
        /\ Record' = [Record EXCEPT ![s] =
                  IF to \in HasResults THEN "results"
                  ELSE IF to = "buried" THEN "tombstone" ELSE "none"]
    BY <1>1, <1>3
  <2>1. phase[s] \in Reachable /\ to \in Reachable => On' = On
    BY <2>0, <1>2
  <2>2. phase[s] \notin Reachable /\ to \notin Reachable => On' = On
    BY <2>0, <1>2
  <2>3. phase[s] # "running" /\ to # "running" => Alive' = Alive
    BY <2>0, <1>2
  <2>4. phase[s] \notin Settled /\ to \notin Settled => Record' = Record
    BY <2>0, <1>2 DEF Settled
  <2>5. phase[s] \in HasResults /\ to \in HasResults => Record' = Record
    BY <2>0, <1>2
  <2> QED
    BY <2>1, <2>2, <2>3, <2>4, <2>5
<1>4. UNCHANGED phase => UNCHANGED Server!vars
  BY DEF Server!vars, On, Alive, Record
<1>5. ASSUME NEW s \in Subs, phase \in [Subs -> Phases],
             \/ phase[s] = "running" /\ phase' = [phase EXCEPT ![s] = "exited"]
             \/ phase[s] = "exited" /\ phase' = [phase EXCEPT ![s] = "published"]
             \/ phase[s] = "published" /\ phase' = [phase EXCEPT ![s] = "harvested"]
             \/ phase[s] \in {"running", "exited"}
                  /\ phase' = [phase EXCEPT ![s] = "terminated"]
             \/ phase[s] = "published" /\ phase' = [phase EXCEPT ![s] = "leftover"]
             \/ phase[s] = "terminated" /\ phase' = [phase EXCEPT ![s] = "buried"]
             \/ phase[s] = "terminated" /\ phase' = [phase EXCEPT ![s] = "forgotten"]
             \/ phase[s] = "leftover" /\ phase' = [phase EXCEPT ![s] = "harvested"]
      PROVE  [Server!Next]_Server!vars
  <2> USE DEF Phases, Reachable, Settled, HasResults
  <2> DEFINE Goes(from, to) == phase[s] = from /\ phase' = [phase EXCEPT ![s] = to]
  <2>1. CASE Goes("running", "exited")
    <3>1. On' = On /\ Alive' = Alive \ {s} /\ Record' = Record
      BY <1>1, <1>2, <1>3, <1>5, <2>1
    <3>2. Server!End(s)
      BY <3>1 DEF Server!End, On, Alive, Record
    <3> QED
      BY <3>2 DEF Server!Next
  <2>2. CASE Goes("exited", "published")
    <3>1. /\ On' = On /\ Alive' = Alive /\ Record' = [Record EXCEPT ![s] = "results"]
      BY <1>1, <1>3, <1>5, <2>2
    <3>2. On[s] # {} /\ s \notin Alive /\ Record[s] = "none"
      BY <1>2, <2>2
    <3>3. Server!Publish(s)
      BY <3>1, <3>2 DEF Server!Publish, On, Alive, Record
    <3> QED
      BY <3>3 DEF Server!Next
  <2>3. CASE Goes("published", "harvested")
    <3>1. /\ On' = [On EXCEPT ![s] = {}] /\ Alive' = Alive /\ Record' = Record
          /\ s \notin Alive /\ Record[s] = "results"
      BY <1>1, <1>2, <1>3, <1>5, <2>3
    <3>2. Server!Remove(s)
      BY <3>1 DEF Server!Remove, On, Alive, Record
    <3> QED
      BY <3>2 DEF Server!Next
  <2>4. CASE Goes("running", "terminated") \/ Goes("exited", "terminated")
             \/ Goes("published", "leftover")
    <3>1. On' = [On EXCEPT ![s] = {}] /\ Alive' = Alive \ {s} /\ Record' = Record
      BY <1>1, <1>2, <1>3, <1>5, <2>4
    <3>2. On' = [t \in Subs |-> On[t] \ {s}]
      <4>1. \A t \in Subs : On[t] \ {s} = IF t = s THEN {} ELSE On[t]
        BY <1>2
      <4> QED
        BY <1>2, <3>1, <4>1
    <3>3. Alive' = {t \in Alive : On'[t] # {}}
      <4>1. \A t \in Alive : On'[t] # {} <=> t # s
        BY <1>2, <3>1
      <4> QED
        BY <3>1, <4>1
    <3>4. Server!Lose(s)
      BY <3>1, <3>2, <3>3 DEF Server!Lose, On, Alive, Record
    <3> QED
      BY <3>4 DEF Server!Next
  <2>5. CASE Goes("terminated", "buried")
    <3>1. /\ On' = On /\ Alive' = Alive /\ Record' = [Record EXCEPT ![s] = "tombstone"]
          /\ On[s] = {} /\ Record[s] = "none"
      BY <1>1, <1>2, <1>3, <1>5, <2>5
    <3>2. Server!Bury(s)
      BY <3>1 DEF Server!Bury, On, Alive, Record
    <3> QED
      BY <3>2 DEF Server!Next
  <2>6. CASE Goes("leftover", "harvested") \/ Goes("terminated", "forgotten")
    <3>1. On' = On /\ Alive' = Alive /\ Record' = Record
      BY <1>1, <1>2, <1>3, <1>5, <2>6
    <3> QED
      BY <3>1 DEF Server!vars, On, Alive, Record
  <2> QED
    BY <1>5, <2>1, <2>2, <2>3, <2>4, <2>5, <2>6
<1>6. Init => Released
  BY DEF Init, Released
<1>7. Spec => []Released
  BY <1>6, Invariant, ReleasedInv, PTL DEF Spec
<1>8. ASSUME Inv, Released, [Next]_vars
      PROVE  [Server!Next]_Server!vars
  <2> USE DEF Inv, TypeOK
  <2>1. CASE UNCHANGED phase
    BY <1>4, <2>1
  <2>2. CASE Halt \/ Publish \/ Clear
    <3>1. stage \in Releasing /\ Sub \in Subs
      BY <1>8, <2>2, ItemIsOurs DEF Halt, Publish, Clear, Releasing, Flow, AtItem
    <3>2. \/ UNCHANGED phase
          \/ phase[Sub] = "running" /\ phase' = [phase EXCEPT ![Sub] = "exited"]
          \/ phase[Sub] = "exited" /\ phase' = [phase EXCEPT ![Sub] = "published"]
          \/ phase[Sub] = "published" /\ phase' = [phase EXCEPT ![Sub] = "harvested"]
      BY <1>8, <2>2, <3>1 DEF Halt, Publish, Clear, Released, Reachable, HasResults
    <3> QED
      BY <1>5, <1>8, <2>1, <3>1, <3>2
  <2>3. ASSUME NEW s \in Subs,
               Exit(s) \/ HarvestPublish(s) \/ HarvestEnd(s) \/ Terminate(s) \/ Bury(s)
        PROVE  [Server!Next]_Server!vars
    <3>1. CASE Exit(s)
      BY <1>5, <1>8, <3>1 DEF Exit
    <3>2. CASE HarvestPublish(s)
      BY <1>5, <1>8, <2>1, <3>2 DEF HarvestPublish
    <3>3. CASE HarvestEnd(s)
      BY <1>5, <1>8, <2>1, <3>3 DEF HarvestEnd
    <3>4. CASE Terminate(s)
      BY <1>5, <1>8, <3>4 DEF Terminate, Reachable
    <3>5. CASE Bury(s)
      BY <1>5, <1>8, <3>5 DEF Bury
    <3> QED
      BY <2>3, <3>1, <3>2, <3>3, <3>4, <3>5
  <2> QED
    BY <1>8, <2>1, <2>2, <2>3, Moves DEF Elsewhere
<1> QED
  BY <1>7, <1>8, Invariant, PTL DEF Spec, ServerIsPlacement
=============================================================================
