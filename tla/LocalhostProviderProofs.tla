----------------------- MODULE LocalhostProviderProofs -----------------------
(***************************************************************************)
(* Proofs about LocalhostProvider: type correctness, that a container      *)
(* without results is removed only by a kill that had the right to, and    *)
(* that a kill request is told of what it has not killed.                  *)
(***************************************************************************)
EXTENDS LocalhostProvider, TLAPS

-----------------------------------------------------------------------------
(* The inductive invariant.                                                *)

Locked == {"inspect"} \cup Releasing
Working == {"enter"} \cup Locked \cup Killing

(* Who works, works on an execution. *)
Busy == \A p \in Procs : pc[p] \in Working => at[p] \in Executions

(* Who inspects or releases an instance has its lock, so that no other     *)
(* releaser comes between the publication and the removal.                 *)
Held == \A p \in Releasers : pc[p] \in Locked => lock[at[p]] = p

(* A release removes what it has published. *)
Recorded == \A p \in Releasers : pc[p] = "remove" => record[at[p]] = "results"

(* The harvester kills where the lock is nobody's. *)
Condemned == pc[Harvester] \in Killing => lock[at[Harvester]] = Orphan

(* A request kills what it may, and only with force. *)
Entitled ==
  \A k \in KillRequests :
    pc[k] \in Killing => ask[k].force /\ Theirs(k, at[k])

(* A request that has not begun has no messages. *)
Silent == \A k \in KillRequests : pc[k] = "idle" => told[k] = {}

Inv == TypeOK /\ Busy /\ Held /\ Recorded /\ Condemned /\ Entitled /\ Silent

(* The processes are told apart by the first component of their names. *)
LEMMA ProcFacts ==
  /\ Harvester \in Releasers
  /\ Procs = Releasers \cup KillRequests
  /\ \A p \in Releasers : p \notin KillRequests /\ p # Free /\ p # Orphan
  /\ \A p \in KillRequests : p # Free /\ p # Orphan
  /\ \A e \in Deletable : Deleter(e) \in Releasers /\ Deleter(e) # Harvester
  /\ Free # Orphan
  /\ Deletable \subseteq Executions
  /\ NoExec \notin Executions
BY LocalAssumption, SMTT(30)
   DEF LocalAssumption, Harvester, Releasers, Procs, KillRequests, Free, Orphan,
       Deleter, Killer

LEMMA InitInv == Init => Inv
BY ProcFacts, LocalAssumption, SMTT(30)
   DEF LocalAssumption, Init, Inv, TypeOK, Busy, Held, Recorded, Condemned,
       Entitled, Silent, Working, Locked, Releasing, Killing, Answered

LEMMA RunnerInv ==
  ASSUME Inv, NEW e \in Executions,
         Create(e) \/ StartContainer(e) \/ RunnerDies(e) \/ ContainerExits(e)
  PROVE  Inv'
<1>1. UNCHANGED <<record, lock, pc, at, todo, ask, listed, left, told, hit>>
  BY DEF Create, StartContainer, RunnerDies, ContainerExits, passVars, killVars
<1>2. Busy' /\ Held' /\ Recorded' /\ Condemned' /\ Entitled' /\ Silent'
  BY <1>1 DEF Inv, Busy, Held, Recorded, Condemned, Entitled, Silent, Theirs
<1>3. TypeOK'
  BY <1>1, LocalAssumption, SMT
  DEF LocalAssumption, Inv, TypeOK, Create, StartContainer, RunnerDies,
      ContainerExits, SetBox, Fault
<1> QED
  BY <1>2, <1>3 DEF Inv

LEMMA ReleaseInv ==
  ASSUME Inv, NEW p \in Releasers, ReleaseStep(p)
  PROVE  Inv'
<1> USE ProcFacts DEF Goto, TurnTo, TurnAway, SetBox, passVars, killVars
<1>1. pc[p] \in Releasing /\ at[p] \in Executions /\ lock[at[p]] = p
  BY SMT DEF Inv, Busy, Held, Working, Locked, Releasing, ReleaseStep,
             StopContainer, Publish, Remove, ReleaseRaises
<1>2. Outside(p) \in {"idle", "next"}
  BY DEF Outside
<1>3. UNCHANGED <<run, ask, listed, left, told, hit, todo>>
  BY DEF ReleaseStep, StopContainer, Publish, Remove, ReleaseRaises
<1>4. CASE StopContainer(p)
  BY <1>1, <1>3, <1>4, SMTT(30)
  DEF StopContainer, Inv, TypeOK, Busy, Held, Recorded, Condemned, Entitled, Silent,
      Theirs, Working, Locked, Releasing, Killing, Answered
<1>5. CASE Publish(p)
  BY <1>1, <1>3, <1>5, SMTT(30)
  DEF Publish, Inv, TypeOK, Busy, Held, Recorded, Condemned, Entitled, Silent,
      Theirs, Working, Locked, Releasing, Killing, Answered
<1>6. CASE Remove(p)
  BY <1>1, <1>2, <1>3, <1>6, SMTT(30)
  DEF Remove, Inv, TypeOK, Busy, Held, Recorded, Condemned, Entitled, Silent,
      Theirs, Working, Locked, Releasing, Killing, Answered
<1>7. CASE ReleaseRaises(p)
  BY <1>1, <1>2, <1>3, <1>7, LocalAssumption, SMTT(30)
  DEF ReleaseRaises, Fault, Inv, TypeOK, Busy, Held, Recorded, Condemned, Entitled,
      Silent, Theirs, Working, Locked, Releasing, Killing, Answered, LocalAssumption
<1> QED
  BY <1>4, <1>5, <1>6, <1>7 DEF ReleaseStep

LEMMA DeleterInv ==
  ASSUME Inv, NEW e \in Deletable, FindInstance(e) \/ EnterRelease(Deleter(e))
  PROVE  Inv'
<1> DEFINE d == Deleter(e)
<1> USE ProcFacts DEF Goto, TurnTo, There, passVars, killVars
<1>1. d \in Releasers /\ d # Harvester /\ d \in Procs /\ d \notin KillRequests
  OBVIOUS
<1>2. UNCHANGED <<box, record, run, todo, ask, listed, left, told, hit, faults>>
  BY DEF FindInstance, EnterRelease
<1>3. CASE FindInstance(e)
  <2>1. /\ pc[d] = "idle" /\ pc' = [pc EXCEPT ![d] = "enter"]
        /\ at' = [at EXCEPT ![d] = e] /\ UNCHANGED lock
    BY <1>3 DEF FindInstance
  <2> HIDE DEF d
  <2> QED
    BY <1>1, <1>2, <2>1, SMTT(30)
    DEF Inv, TypeOK, Busy, Held, Recorded, Condemned, Entitled, Silent,
        Theirs, Working, Locked, Releasing, Killing, Answered
<1>4. CASE EnterRelease(d)
  <2>1. /\ pc[d] = "enter" /\ pc' = [pc EXCEPT ![d] = "stop"]
        /\ at' = at /\ lock[at[d]] = Free /\ lock' = [lock EXCEPT ![at[d]] = d]
    BY <1>4 DEF EnterRelease
  <2>2. at[d] \in Executions
    BY <1>1, <2>1 DEF Inv, Busy, Working
  <2> HIDE DEF d
  <2> QED
    BY <1>1, <1>2, <2>1, <2>2, SMTT(30)
    DEF Inv, TypeOK, Busy, Held, Recorded, Condemned, Entitled, Silent,
        Theirs, Working, Locked, Releasing, Killing, Answered
<1> QED
  BY <1>3, <1>4

LEMMA KillStepInv ==
  ASSUME Inv, NEW p \in KillRequests \cup {Harvester}, KillStep(p)
  PROVE  Inv'
<1> USE ProcFacts DEF Goto, TurnTo, TurnAway, There, SetBox
<1>1. /\ UNCHANGED <<record, lock, run, todo, ask, listed, hit, faults>>
      /\ p \in Procs /\ (p \in Releasers => p = Harvester)
  BY DEF KillStep
<1>2. pc[p] \in Killing /\ at[p] \in Executions
  BY SMT DEF Inv, Busy, Working, Killing, KillStep, GetState, KillContainer, Rm,
             KillRaises
<1>3. CASE GetState(p)
  BY <1>1, <1>2, <1>3, SMTT(30)
  DEF GetState, Inv, TypeOK, Busy, Held, Recorded, Condemned, Entitled, Silent,
      Theirs, Working, Locked, Releasing, Killing, Answered
<1>4. CASE KillContainer(p)
  BY <1>1, <1>2, <1>4, SMTT(30)
  DEF KillContainer, Inv, TypeOK, Busy, Held, Recorded, Condemned, Entitled, Silent,
      Theirs, Working, Locked, Releasing, Killing, Answered
<1>5. CASE Rm(p)
  <2>1. /\ pc' = [pc EXCEPT ![p] = "next"] /\ at' = [at EXCEPT ![p] = NoExec]
        /\ box' = [box EXCEPT ![at[p]] = "none"]
    BY <1>5 DEF Rm
  <2>2. Busy' /\ Held' /\ Recorded' /\ Condemned' /\ Entitled'
    BY <1>1, <2>1, SMT
    DEF Inv, TypeOK, Busy, Held, Recorded, Condemned, Entitled, Theirs, Working,
        Locked, Releasing, Killing
  <2>3. CASE p = Harvester
    <3>1. UNCHANGED <<left, told>>
      BY <1>5, <2>3 DEF Rm, Processed
    <3> QED
      BY <1>1, <1>2, <2>1, <2>2, <2>3, <3>1, SMT DEF Inv, TypeOK, Silent
  <2>4. CASE p \in KillRequests
    <3>1. /\ left' = [left EXCEPT ![p] = left[p] \ {at[p]}]
          /\ told' = [told EXCEPT ![p] = told[p] \cup {}]
      BY <1>5, <2>4 DEF Rm, Processed
    <3>2. TypeOK' /\ Silent'
      BY <1>1, <1>2, <2>1, <2>4, <3>1, SMT DEF Inv, TypeOK, Silent
    <3> QED
      BY <2>2, <3>2 DEF Inv
  <2> QED
    BY <2>3, <2>4
<1>6. CASE KillRaises(p)
  <2>1. /\ pc' = [pc EXCEPT ![p] = "next"] /\ at' = [at EXCEPT ![p] = NoExec]
        /\ UNCHANGED box
    BY <1>6 DEF KillRaises
  <2>2. Busy' /\ Held' /\ Recorded' /\ Condemned' /\ Entitled'
    BY <1>1, <2>1, SMTT(30)
    DEF Inv, TypeOK, Busy, Held, Recorded, Condemned, Entitled, Theirs, Working,
        Locked, Releasing, Killing
  <2>3. CASE p = Harvester
    <3>1. UNCHANGED <<left, told>>
      BY <1>6, <2>3 DEF KillRaises, Processed
    <3> QED
      BY <1>1, <1>2, <2>1, <2>2, <2>3, <3>1, SMTT(30) DEF Inv, TypeOK, Silent
  <2>4. CASE p \in KillRequests
    <3>1. /\ left' = [left EXCEPT ![p] = left[p] \ {at[p]}]
          /\ told' = [told EXCEPT ![p] = told[p] \cup {at[p]}]
      BY <1>6, <2>4 DEF KillRaises, Processed
    <3>2. TypeOK' /\ Silent'
      BY <1>1, <1>2, <2>1, <2>4, <3>1, SMTT(30) DEF Inv, TypeOK, Silent
    <3> QED
      BY <2>2, <3>2 DEF Inv
  <2> QED
    BY <2>3, <2>4
<1> QED
  BY <1>3, <1>4, <1>5, <1>6 DEF KillStep

LEMMA HarvesterInv ==
  ASSUME Inv,
         \/ HarvestPass \/ Inspect
         \/ \E e \in Executions : PassOver(e) \/ KillLocked(e) \/ Visit(e)
  PROVE  Inv'
<1> USE ProcFacts DEF Goto, TurnTo, TurnAway, There, passVars, killVars
<1>1. UNCHANGED <<box, record, run, ask, listed, left, told, hit, faults>>
  BY DEF HarvestPass, Inspect, PassOver, KillLocked, Visit
<1>2. CASE HarvestPass
  BY <1>1, <1>2, SMTT(30)
  DEF HarvestPass, List, Present, Vanished, Inv, TypeOK, Busy, Held, Recorded,
      Condemned, Entitled, Silent, Theirs, Working, Locked, Releasing, Killing, Answered
<1>3. CASE Inspect
  <2>1. at[Harvester] \in Executions
    BY <1>3 DEF Inspect, Inv, Busy, Working, Locked
  <2> QED
    BY <1>1, <1>3, <2>1, SMTT(30)
    DEF Inspect, Inv, TypeOK, Busy, Held, Recorded, Condemned, Entitled, Silent,
        Theirs, Working, Locked, Releasing, Killing, Answered
<1>4. ASSUME NEW e \in Executions, PassOver(e) PROVE Inv'
  BY <1>1, <1>4, SMTT(30)
  DEF PassOver, Facing, Past, Inv, TypeOK, Busy, Held, Recorded, Condemned, Entitled,
      Silent, Theirs, Working, Locked, Releasing, Killing, Answered
<1>5. ASSUME NEW e \in Executions, KillLocked(e) PROVE Inv'
  BY <1>1, <1>5, SMTT(30)
  DEF KillLocked, Facing, Past, Inv, TypeOK, Busy, Held, Recorded, Condemned,
      Entitled, Silent, Theirs, Working, Locked, Releasing, Killing, Answered
<1>6. ASSUME NEW e \in Executions, Visit(e) PROVE Inv'
  BY <1>1, <1>6, SMTT(30)
  DEF Visit, Facing, Past, Inv, TypeOK, Busy, Held, Recorded, Condemned, Entitled,
      Silent, Theirs, Working, Locked, Releasing, Killing, Answered
<1> QED
  BY <1>2, <1>3, <1>4, <1>5, <1>6

LEMMA DeathInv ==
  ASSUME Inv, NEW p \in Procs, WorkerDies(p)
  PROVE  Inv'
<1> USE ProcFacts DEF TurnTo, TurnAway
<1>1. /\ pc' = [pc EXCEPT ![p] = IF p \in KillRequests THEN "crashed" ELSE "idle"]
      /\ at' = [at EXCEPT ![p] = NoExec]
      /\ todo' = [todo EXCEPT ![p] = {}]
      /\ lock' = [e \in Executions |-> IF lock[e] = p THEN Orphan ELSE lock[e]]
      /\ faults > 0 /\ faults' = faults - 1
      /\ UNCHANGED <<box, record, run>>
  BY DEF WorkerDies, Fault
<1>2. faults' \in 0..MaxFaults
  BY <1>1, LocalAssumption, SMT DEF Inv, TypeOK, LocalAssumption
<1>3. Busy'
  BY <1>1, SMT DEF Inv, TypeOK, Busy, Working, Locked, Releasing, Killing
<1>4. Held' /\ Recorded'
  BY <1>1, SMT DEF Inv, TypeOK, Busy, Held, Recorded, Working, Locked, Releasing,
                   Killing
<1>5. Condemned'
  BY <1>1, SMT DEF Inv, TypeOK, Busy, Condemned, Working, Killing
<1>6. CASE p \in KillRequests
  <2>1. /\ ask' = [ask EXCEPT ![p] = NoRequest]
        /\ listed' = [listed EXCEPT ![p] = {}]
        /\ left' = [left EXCEPT ![p] = {}]
        /\ hit' = hit \ {p}
        /\ told' = [told EXCEPT ![p] = {}]
    BY <1>6 DEF WorkerDies, DropRequest, ForgetRequest
  <2>2. Entitled' /\ Silent'
    BY <1>1, <1>6, <2>1, SMTT(30)
    DEF Inv, TypeOK, Entitled, Silent, Theirs, Killing
  <2>3. TypeOK'
    BY <1>1, <1>2, <1>6, <2>1, SMT DEF Inv, TypeOK, Answered
  <2> QED
    BY <1>3, <1>4, <1>5, <2>2, <2>3 DEF Inv
<1>7. CASE p \notin KillRequests
  <2>1. UNCHANGED <<ask, listed, left, told, hit>>
    BY <1>7 DEF WorkerDies, DropRequest, killVars
  <2>2. Entitled' /\ Silent'
    BY <1>1, <1>7, <2>1, SMTT(30)
    DEF Inv, TypeOK, Entitled, Silent, Theirs, Killing
  <2>3. TypeOK'
    BY <1>1, <1>2, <1>7, <2>1, SMT DEF Inv, TypeOK
  <2> QED
    BY <1>3, <1>4, <1>5, <2>2, <2>3 DEF Inv
<1> QED
  BY <1>6, <1>7

LEMMA RequestInv ==
  ASSUME Inv, NEW k \in KillRequests,
         \/ BeginKill(k) \/ Answer(k)
         \/ \E e \in Executions : KillVanished(k, e) \/ Spare(k, e) \/ BeginToKill(k, e)
  PROVE  Inv'
<1> USE ProcFacts DEF Goto, TurnTo, There, passVars, killVars
<1>1. UNCHANGED <<box, record, run, lock, faults>> /\ k \in Procs /\ k \notin Releasers
  BY DEF BeginKill, Answer, Close, KillVanished, Spare, BeginToKill
<1>2. CASE BeginKill(k)
  <2>1. PICK r \in Asks : /\ ask' = [ask EXCEPT ![k] = r]
                          /\ left' = [left EXCEPT ![k] = r.ids]
    BY <1>2 DEF BeginKill
  <2>2. r.ids \subseteq Executions
    BY LocalAssumption DEF LocalAssumption, Requests
  <2>3. /\ pc[k] = "idle" /\ pc' = [pc EXCEPT ![k] = "next"]
        /\ todo' = [todo EXCEPT ![k] = Present]
        /\ listed' = [listed EXCEPT ![k] = Present]
        /\ UNCHANGED <<at, told, hit>>
    BY <1>2 DEF BeginKill, List
  <2>4. Present \subseteq Executions
    BY DEF Present
  <2>5. told[k] = {}
    BY <2>3 DEF Inv, Silent
  <2>6. TypeOK'
    BY <1>1, <2>1, <2>2, <2>3, <2>4, <2>5, SMT DEF Inv, TypeOK
  <2>7. Busy' /\ Held' /\ Recorded' /\ Condemned' /\ Entitled' /\ Silent'
    BY <1>1, <2>1, <2>3, SMTT(30)
    DEF Inv, TypeOK, Busy, Held, Recorded, Condemned, Entitled, Silent, Theirs,
        Working, Locked, Releasing, Killing
  <2> QED
    BY <2>6, <2>7 DEF Inv
<1>3. CASE Answer(k)
  BY <1>1, <1>3, SMTT(30)
  DEF Answer, Close, ForgetRequest, Inv, TypeOK, Busy, Held, Recorded, Condemned,
      Entitled, Silent, Theirs, Working, Locked, Releasing, Killing, Answered
<1>4. ASSUME NEW e \in Executions, KillVanished(k, e) PROVE Inv'
  <2>1. /\ pc[k] = "next" /\ pc' = [pc EXCEPT ![k] = "crashed"]
        /\ todo' = [todo EXCEPT ![k] = {}]
        /\ ask' = [ask EXCEPT ![k] = NoRequest]
        /\ listed' = [listed EXCEPT ![k] = {}]
        /\ left' = [left EXCEPT ![k] = {}]
        /\ hit' = hit \ {k}
        /\ told' = [told EXCEPT ![k] = {}]
        /\ UNCHANGED at
    BY <1>1, <1>4 DEF KillVanished, Facing, Vanished, DropRequest, ForgetRequest
  <2>2. TypeOK'
    BY <1>1, <2>1, SMT DEF Inv, TypeOK, Answered
  <2>3. Busy' /\ Held' /\ Recorded' /\ Condemned' /\ Entitled' /\ Silent'
    BY <1>1, <2>1, SMTT(30)
    DEF Inv, TypeOK, Busy, Held, Recorded, Condemned, Entitled, Silent, Theirs,
        Working, Locked, Releasing, Killing
  <2> QED
    BY <2>2, <2>3 DEF Inv
<1>5. ASSUME NEW e \in Executions, Spare(k, e) PROVE Inv'
  BY <1>1, <1>5, SMTT(30)
  DEF Spare, Facing, Past, Inv, TypeOK, Busy, Held, Recorded, Condemned, Entitled,
      Silent, Theirs, Working, Locked, Releasing, Killing, Answered
<1>6. ASSUME NEW e \in Executions, BeginToKill(k, e) PROVE Inv'
  <2>1. /\ pc[k] = "next" /\ Theirs(k, e)
        /\ hit' = hit \cup {k}
        /\ todo' = [todo EXCEPT ![k] = todo[k] \ {e}]
        /\ UNCHANGED <<ask, listed>>
    BY <1>6 DEF BeginToKill, Facing, Past
  <2>2. CASE ask[k].force
    <3>1. /\ pc' = [pc EXCEPT ![k] = "state"] /\ at' = [at EXCEPT ![k] = e]
          /\ UNCHANGED <<left, told>>
      BY <1>6, <2>2 DEF BeginToKill
    <3>2. TypeOK'
      BY <1>1, <2>1, <3>1, SMT DEF Inv, TypeOK, Killing
    <3>3. Busy' /\ Held' /\ Recorded' /\ Condemned' /\ Entitled' /\ Silent'
      BY <1>1, <2>1, <2>2, <3>1, SMTT(30)
      DEF Inv, TypeOK, Busy, Held, Recorded, Condemned, Entitled, Silent, Theirs,
          Working, Locked, Releasing, Killing
    <3> QED
      BY <3>2, <3>3 DEF Inv
  <2>3. CASE ~ask[k].force
    <3>1. /\ left' = [left EXCEPT ![k] = left[k] \ {e}]
          /\ told' = [told EXCEPT ![k] = told[k] \cup {e}]
          /\ UNCHANGED <<pc, at>>
      BY <1>1, <1>6, <2>3 DEF BeginToKill, Processed
    <3>2. TypeOK'
      BY <1>1, <2>1, <3>1, SMT DEF Inv, TypeOK
    <3>3. Busy' /\ Held' /\ Recorded' /\ Condemned' /\ Entitled' /\ Silent'
      BY <1>1, <2>1, <3>1, SMTT(30)
      DEF Inv, TypeOK, Busy, Held, Recorded, Condemned, Entitled, Silent, Theirs
    <3> QED
      BY <3>2, <3>3 DEF Inv
  <2> QED
    BY <2>2, <2>3
<1> QED
  BY <1>2, <1>3, <1>4, <1>5, <1>6

LEMMA StutterInv == Inv /\ UNCHANGED vars => Inv'
BY DEF vars, passVars, killVars, Inv, TypeOK, Busy, Held, Recorded, Condemned,
       Entitled, Silent, Theirs

LEMMA NextInv == Inv /\ [Next]_vars => Inv'
<1> SUFFICES ASSUME Inv, Next PROVE Inv'
  BY StutterInv
<1>1. ASSUME NEW e \in Executions,
             Create(e) \/ StartContainer(e) \/ RunnerDies(e) \/ ContainerExits(e)
      PROVE  Inv'
  BY <1>1, RunnerInv
<1>2. ASSUME NEW e \in Deletable, DeleterStep(e) PROVE Inv'
  BY <1>2, ProcFacts, DeleterInv, ReleaseInv DEF DeleterStep
<1>3. CASE HarvesterStep
  BY <1>3, ProcFacts, HarvesterInv, ReleaseInv, KillStepInv DEF HarvesterStep
<1>4. ASSUME NEW p \in Procs, WorkerDies(p) PROVE Inv'
  BY <1>4, DeathInv
<1>5. ASSUME NEW p \in KillRequests, KillRequestStep(p) PROVE Inv'
  BY <1>5, RequestInv, KillStepInv DEF KillRequestStep
<1> QED
  BY <1>1, <1>2, <1>3, <1>4, <1>5 DEF Next

LEMMA InvHolds == Spec => []Inv
BY InitInv, NextInv, PTL DEF Spec

-----------------------------------------------------------------------------
(* Type correctness, and that a name is left only while nothing is told    *)
(* about it.                                                               *)
THEOREM TypeCorrect == Spec => []TypeOK
<1>1. Inv => TypeOK
  BY DEF Inv
<1> QED
  BY <1>1, InvHolds, PTL

(* What a step has to do with a container it takes away.                   *)
LEMMA TakenAway ==
  ASSUME Inv, [Next]_vars, NEW e \in Executions, There(e), box'[e] = "none"
  PROVE  \/ \E p \in Releasers : Remove(p) /\ at[p] = e
         \/ \E p \in KillRequests \cup {Harvester} : Rm(p) /\ at[p] = e
<1> USE ProcFacts DEF There, SetBox
<1> DEFINE Goal == \/ \E p \in Releasers : Remove(p) /\ at[p] = e
                   \/ \E p \in KillRequests \cup {Harvester} : Rm(p) /\ at[p] = e
<1> SUFFICES Goal OBVIOUS
<1>1. box'[e] # box[e]
  OBVIOUS
<1>2. ASSUME NEW f \in Executions,
             Create(f) \/ StartContainer(f) \/ RunnerDies(f) \/ ContainerExits(f)
      PROVE  FALSE
  BY <1>1, <1>2, SMT
  DEF Create, StartContainer, RunnerDies, ContainerExits, Inv, TypeOK
<1>3. ASSUME NEW p \in Releasers, ReleaseStep(p) PROVE Goal
  <2>1. CASE Remove(p)
    BY <1>1, <1>3, <2>1 DEF Remove, Inv, TypeOK
  <2>2. CASE StopContainer(p)
    BY <1>1, <2>2 DEF StopContainer, Inv, TypeOK
  <2>3. CASE Publish(p) \/ ReleaseRaises(p)
    BY <1>1, <2>3 DEF Publish, ReleaseRaises
  <2> QED
    BY <1>3, <2>1, <2>2, <2>3 DEF ReleaseStep
<1>4. ASSUME NEW p \in KillRequests \cup {Harvester}, KillStep(p) PROVE Goal
  <2>1. CASE Rm(p)
    BY <1>1, <2>1 DEF Rm, Inv, TypeOK
  <2>2. CASE KillContainer(p)
    BY <1>1, <2>2 DEF KillContainer, Inv, TypeOK
  <2>3. CASE GetState(p) \/ KillRaises(p)
    BY <1>1, <2>3 DEF GetState, KillRaises
  <2> QED
    BY <1>4, <2>1, <2>2, <2>3 DEF KillStep
<1>5. ASSUME NEW d \in Deletable, DeleterStep(d) PROVE Goal
  BY <1>1, <1>3, <1>5 DEF DeleterStep, FindInstance, EnterRelease
<1>6. CASE HarvesterStep
  <2>1. UNCHANGED box \/ ReleaseStep(Harvester) \/ KillStep(Harvester)
    BY <1>6 DEF HarvesterStep, HarvestPass, Inspect, PassOver, KillLocked, Visit
  <2> QED
    BY <1>1, <1>3, <1>4, <2>1
<1>7. ASSUME NEW p \in KillRequests, KillRequestStep(p) PROVE Goal
  <2>1. UNCHANGED box \/ KillStep(p)
    BY <1>7 DEF KillRequestStep, BeginKill, Answer, Close, KillVanished, Spare,
                BeginToKill
  <2> QED
    BY <1>1, <1>4, <2>1
<1>8. ASSUME NEW p \in Procs, WorkerDies(p) PROVE FALSE
  BY <1>1, <1>8 DEF WorkerDies
<1>9. CASE UNCHANGED vars
  BY <1>1, <1>9 DEF vars
<1> QED
  BY <1>2, <1>5, <1>6, <1>7, <1>8, <1>9 DEF Next

(* A container goes away without results only by being killed, by a        *)
(* request with force of its owner or of one who ignores ownership, or     *)
(* because a worker died in the middle of its release.                     *)
THEOREM OnlyKilled == Spec => OnlyTheKilledAreLost
<1> DEFINE Lost(e) == There(e) /\ box'[e] = "none" /\ record[e] = "none"
           Buried(e) == lock[e] = Orphan /\ pc[Harvester] = "rm" /\ at[Harvester] = e
           Shot(p, e) == /\ pc[p] = "rm" /\ at[p] = e /\ pc'[p] # "rm"
                         /\ ask[p].force
                         /\ ask[p].berserk \/ ask[p].user = Owner[e]
<1>1. ASSUME Inv, [Next]_vars, NEW e \in Executions, Lost(e)
      PROVE  Buried(e) \/ \E p \in KillRequests : Shot(p, e)
  <2>1. ASSUME NEW p \in Releasers, Remove(p), at[p] = e PROVE FALSE
    BY <1>1, <2>1 DEF Remove, Goto, Inv, Recorded
  <2>2. ASSUME Rm(Harvester), at[Harvester] = e PROVE Buried(e)
    BY <1>1, <2>2 DEF Rm, Goto, Inv, Condemned, Killing
  <2>3. ASSUME NEW p \in KillRequests, Rm(p), at[p] = e PROVE Shot(p, e)
    <3>1. pc[p] = "rm" /\ pc'[p] = "next"
      BY <1>1, <2>3, ProcFacts DEF Rm, Goto, Inv, TypeOK
    <3>2. ask[p].force /\ Theirs(p, e)
      BY <1>1, <2>3, <3>1 DEF Inv, Entitled, Killing
    <3> QED
      BY <2>3, <3>1, <3>2 DEF Theirs
  <2> QED
    BY <1>1, <2>1, <2>2, <2>3, TakenAway
<1>2. Inv /\ [Next]_vars =>
        [\A e \in Executions :
           There(e) /\ box'[e] = "none" /\ record[e] = "none"
             => \/ lock[e] = Orphan /\ pc[Harvester] = "rm" /\ at[Harvester] = e
                \/ \E p \in KillRequests :
                     /\ pc[p] = "rm" /\ at[p] = e /\ pc'[p] # "rm"
                     /\ ask[p].force
                     /\ ask[p].berserk \/ ask[p].user = Owner[e]]_vars
  BY <1>1
<1> QED
  BY <1>2, InvHolds, PTL DEF Spec, OnlyTheKilledAreLost

-----------------------------------------------------------------------------
(* What becomes of the instances a request is to kill.                     *)

Gone(e) == ~There(e) /\ run[e] # "new"
Made == \A e \in Executions : There(e) => run[e] # "new"

Goal(k) == IF ask[k].all THEN {f \in listed[k] : Theirs(k, f)} ELSE ask[k].ids

(* Each has a message, is gone, is still to come, or will not be found.    *)
Handled(k, e) ==
  \/ e \in told[k] \/ Gone(e)
  \/ ask[k].all /\ (e \in todo[k] \/ (pc[k] \in Killing /\ at[k] = e))
  \/ ~ask[k].all /\ e \in left[k]
Tracked ==
  \A k \in KillRequests :
    pc[k] \in {"next"} \cup Killing =>
      ask[k] \in Asks /\ \A e \in Goal(k) : Handled(k, e)

(* A container is made once, and only then.                                *)
LEMMA RunFacts ==
  ASSUME Inv, [Next]_vars, NEW e \in Executions
  PROVE  /\ There(e)' => There(e) \/ (run[e] = "new" /\ run'[e] # "new")
         /\ run[e] # "new" => run'[e] # "new"
<1> USE ProcFacts DEF There, SetBox
<1> DEFINE Fact == /\ There(e)' => There(e) \/ (run[e] = "new" /\ run'[e] # "new")
                   /\ run[e] # "new" => run'[e] # "new"
<1> SUFFICES Fact OBVIOUS
<1>1. ASSUME NEW f \in Executions,
             Create(f) \/ StartContainer(f) \/ RunnerDies(f) \/ ContainerExits(f)
      PROVE  Fact
  BY <1>1 DEF Create, StartContainer, RunnerDies, ContainerExits, Inv, TypeOK
<1>2. ASSUME NEW p \in Releasers, ReleaseStep(p) PROVE Fact
  BY <1>2 DEF ReleaseStep, StopContainer, Publish, Remove, ReleaseRaises, Inv, TypeOK
<1>3. ASSUME NEW p \in KillRequests \cup {Harvester}, KillStep(p) PROVE Fact
  BY <1>3 DEF KillStep, GetState, KillContainer, Rm, KillRaises, Inv, TypeOK
<1>4. ASSUME NEW d \in Deletable, DeleterStep(d) PROVE Fact
  BY <1>2, <1>4 DEF DeleterStep, FindInstance, EnterRelease
<1>5. CASE HarvesterStep
  BY <1>2, <1>3, <1>5
  DEF HarvesterStep, HarvestPass, Inspect, PassOver, KillLocked, Visit
<1>6. ASSUME NEW p \in KillRequests, KillRequestStep(p) PROVE Fact
  BY <1>3, <1>6
  DEF KillRequestStep, BeginKill, Answer, Close, KillVanished, Spare, BeginToKill
<1>7. ASSUME NEW p \in Procs, WorkerDies(p) PROVE Fact
  BY <1>7 DEF WorkerDies
<1>8. CASE UNCHANGED vars
  BY <1>8 DEF vars
<1> QED
  BY <1>1, <1>4, <1>5, <1>6, <1>7, <1>8 DEF Next

(* Nobody but a request itself touches what it keeps.                      *)
LEMMA OthersKeep ==
  ASSUME Inv, [Next]_vars, NEW k \in KillRequests,
         ~KillRequestStep(k), ~WorkerDies(k)
  PROVE  /\ pc'[k] = pc[k] /\ at'[k] = at[k] /\ todo'[k] = todo[k]
         /\ ask'[k] = ask[k] /\ listed'[k] = listed[k]
         /\ left'[k] = left[k] /\ told'[k] = told[k]
<1> USE ProcFacts DEF Goto, TurnTo, TurnAway, passVars, killVars
<1> DEFINE Same == /\ pc'[k] = pc[k] /\ at'[k] = at[k] /\ todo'[k] = todo[k]
                   /\ ask'[k] = ask[k] /\ listed'[k] = listed[k]
                   /\ left'[k] = left[k] /\ told'[k] = told[k]
<1> SUFFICES Same OBVIOUS
<1>1. ASSUME NEW f \in Executions,
             Create(f) \/ StartContainer(f) \/ RunnerDies(f) \/ ContainerExits(f)
      PROVE  Same
  BY <1>1 DEF Create, StartContainer, RunnerDies, ContainerExits
<1>2. ASSUME NEW p \in Releasers, ReleaseStep(p) PROVE Same
  BY <1>2 DEF ReleaseStep, StopContainer, Publish, Remove, ReleaseRaises, Inv, TypeOK
<1>3. ASSUME NEW p \in KillRequests \cup {Harvester}, p # k, KillStep(p) PROVE Same
  BY <1>3
  DEF KillStep, GetState, KillContainer, Rm, KillRaises, Processed, Inv, TypeOK
<1>4. ASSUME NEW d \in Deletable, DeleterStep(d) PROVE Same
  BY <1>2, <1>4 DEF DeleterStep, FindInstance, EnterRelease, Inv, TypeOK
<1>5. CASE HarvesterStep
  <2>1. ASSUME HarvestPass \/ Inspect
               \/ \E e \in Executions : PassOver(e) \/ KillLocked(e) \/ Visit(e)
        PROVE  Same
    BY <2>1
    DEF HarvestPass, List, Vanished, Inspect, PassOver, KillLocked, Visit, Past, Inv,
        TypeOK
  <2> QED
    BY <1>2, <1>3, <1>5, <2>1 DEF HarvesterStep
<1>6. ASSUME NEW p \in KillRequests, p # k, KillRequestStep(p) PROVE Same
  <2>1. ASSUME BeginKill(p) \/ Answer(p)
               \/ \E e \in Executions :
                    KillVanished(p, e) \/ Spare(p, e) \/ BeginToKill(p, e)
        PROVE  Same
    BY <1>6, <2>1
    DEF BeginKill, List, Answer, Close, ForgetRequest, KillVanished, Vanished,
        DropRequest, Spare, BeginToKill, Processed, Past, Inv, TypeOK
  <2> QED
    BY <1>3, <1>6, <2>1 DEF KillRequestStep
<1>7. ASSUME NEW p \in Procs, p # k, WorkerDies(p) PROVE Same
  BY <1>7 DEF WorkerDies, DropRequest, ForgetRequest, Inv, TypeOK
<1>8. CASE UNCHANGED vars
  BY <1>8 DEF vars
<1> QED
  BY <1>1, <1>4, <1>5, <1>6, <1>7, <1>8 DEF Next

LEMMA TrackedInv ==
  ASSUME Inv, Made, Tracked, [Next]_vars
  PROVE  Made' /\ Tracked'
<1>1. Made'
  BY RunFacts DEF Made, There
<1>2. \A e \in Executions : Gone(e) => Gone(e)'
  BY RunFacts DEF Gone, There
<1> SUFFICES ASSUME NEW k \in KillRequests, pc'[k] \in {"next"} \cup Killing
             PROVE  ask'[k] \in Asks /\ \A e \in Goal(k)' : Handled(k, e)'
  BY <1>1 DEF Tracked, Killing
<1> USE ProcFacts DEF Goto, TurnTo, TurnAway
<1>3. ASSUME ask[k] \in Asks, UNCHANGED <<ask[k], listed[k]>>
      PROVE  Goal(k)' = Goal(k) /\ Goal(k) \subseteq Executions
  <2>1. ask[k].ids \subseteq Executions
    BY <1>3, LocalAssumption DEF LocalAssumption, Requests
  <2> QED
    BY <1>3, <2>1 DEF Goal, Theirs, Inv, TypeOK
<1>4. CASE ~KillRequestStep(k) /\ ~WorkerDies(k)
  <2>1. /\ pc'[k] = pc[k] /\ at'[k] = at[k] /\ todo'[k] = todo[k]
        /\ ask'[k] = ask[k] /\ listed'[k] = listed[k]
        /\ left'[k] = left[k] /\ told'[k] = told[k]
    BY <1>4, OthersKeep
  <2>2. ask[k] \in Asks /\ \A e \in Goal(k) : Handled(k, e)
    BY <2>1 DEF Tracked
  <2>3. Goal(k)' = Goal(k) /\ Goal(k) \subseteq Executions
    BY <1>3, <2>1, <2>2
  <2> QED
    BY <1>2, <2>1, <2>2, <2>3 DEF Handled
<1>5. CASE WorkerDies(k)
  BY <1>5 DEF WorkerDies, Inv, TypeOK, Killing
<1>6. CASE BeginKill(k)
  <2>1. PICK r \in Asks : ask' = [ask EXCEPT ![k] = r] /\ left' = [left EXCEPT ![k] = r.ids]
    BY <1>6 DEF BeginKill
  <2>2. /\ todo' = [todo EXCEPT ![k] = Present] /\ listed' = [listed EXCEPT ![k] = Present]
    BY <1>6 DEF BeginKill, List
  <2>3. ask'[k] = r /\ left'[k] = r.ids /\ todo'[k] = listed'[k]
    BY <2>1, <2>2 DEF Inv, TypeOK
  <2>4. ASSUME NEW e \in Goal(k)' PROVE Handled(k, e)'
    BY <2>3, <2>4 DEF Goal, Handled
  <2> QED
    BY <2>3, <2>4
<1>7. ASSUME pc[k] \in {"next"} \cup Killing, UNCHANGED <<ask, listed>>,
             \A e \in Goal(k) : Handled(k, e) => Handled(k, e)'
      PROVE  ask'[k] \in Asks /\ \A e \in Goal(k)' : Handled(k, e)'
  <2>1. ask[k] \in Asks /\ \A e \in Goal(k) : Handled(k, e)
    BY <1>7 DEF Tracked
  <2> QED
    BY <1>3, <1>7, <2>1
<1>8. CASE KillStep(k)
  <2>1. UNCHANGED <<ask, listed, todo, run>> /\ pc[k] \in Killing
    BY <1>8 DEF KillStep, GetState, KillContainer, Rm, KillRaises, Killing
  <2>2. ask[k] \in Asks /\ Goal(k) \subseteq Executions
    BY <1>3, <2>1 DEF Tracked
  <2>3. CASE GetState(k) \/ KillContainer(k)
    <3>1. UNCHANGED <<at, left, told>> /\ pc'[k] \in Killing
      BY <2>3 DEF GetState, KillContainer, Killing, Inv, TypeOK
    <3> QED
      BY <1>2, <1>7, <2>1, <2>2, <3>1 DEF Handled
  <2>4. CASE Rm(k) \/ KillRaises(k)
    <3>1. /\ left' = [left EXCEPT ![k] = left[k] \ {at[k]}]
          /\ \/ told' = [told EXCEPT ![k] = told[k] \cup {}] /\ Rm(k)
             \/ told' = [told EXCEPT ![k] = told[k] \cup {at[k]}]
      BY <2>4 DEF Rm, KillRaises, Processed
    <3>2. /\ left'[k] = left[k] \ {at[k]}
          /\ \/ told'[k] = told[k] /\ Rm(k)
             \/ told'[k] = told[k] \cup {at[k]}
      BY <3>1 DEF Inv, TypeOK
    <3>3. PICK x \in Executions : x = at[k]
      BY <2>1 DEF Inv, Busy, Working
    <3>4. ASSUME Rm(k) PROVE Gone(x)'
      <4>1. box[x] # "none" /\ box'[x] = "none"
        BY <3>3, <3>4 DEF Rm, SetBox, There, Inv, TypeOK
      <4> QED
        BY <2>1, <4>1 DEF There, Gone, Made
    <3>5. x \in told'[k] \/ Gone(x)'
      BY <3>2, <3>3, <3>4
    <3>6. ASSUME NEW e \in Goal(k), Handled(k, e) PROVE Handled(k, e)'
      <4>1. CASE e = x
        BY <3>5, <4>1 DEF Handled
      <4>2. CASE e # x
        BY <1>2, <2>1, <2>2, <3>2, <3>3, <3>6, <4>2 DEF Handled
      <4> QED
        BY <4>1, <4>2
    <3> QED
      BY <1>7, <2>1, <3>6
  <2> QED
    BY <1>8, <2>3, <2>4 DEF KillStep
<1>9. CASE Answer(k)
  BY <1>9 DEF Answer, Close, Inv, TypeOK, Killing
<1>10. ASSUME NEW e \in Executions, KillVanished(k, e) PROVE FALSE
  BY <1>10 DEF KillVanished, Vanished, Inv, TypeOK, Killing
<1>11. ASSUME NEW e \in Executions, Spare(k, e)
       PROVE  ask'[k] \in Asks /\ \A f \in Goal(k)' : Handled(k, f)'
  <2>1. /\ pc[k] = "next" /\ UNCHANGED <<ask, listed, pc, at>>
        /\ todo'[k] = todo[k] \ {e}
    BY <1>11 DEF Spare, Facing, Past, Inv, TypeOK
  <2>2. ask[k] \in Asks /\ Goal(k) \subseteq Executions
    BY <1>3, <2>1 DEF Tracked
  <2>3. /\ \/ left'[k] = left[k] /\ told'[k] = told[k]
           \/ /\ left'[k] = left[k] \ {e}
              /\ told'[k] = IF ask[k].all THEN told[k] ELSE told[k] \cup {e}
        /\ ask[k].all => ~Theirs(k, e)
    BY <1>11 DEF Spare, Asked, Inv, TypeOK
  <2>4. ASSUME NEW f \in Goal(k), Handled(k, f) PROVE Handled(k, f)'
    <3>1. ask[k].all => f # e
      BY <2>3, <2>4 DEF Goal
    <3> QED
      BY <1>2, <2>1, <2>2, <2>3, <2>4, <3>1 DEF Handled
  <2> QED
    BY <1>7, <2>1, <2>4
<1>12. ASSUME NEW e \in Executions, BeginToKill(k, e)
       PROVE  ask'[k] \in Asks /\ \A f \in Goal(k)' : Handled(k, f)'
  <2>1. /\ pc[k] = "next" /\ UNCHANGED <<ask, listed>>
        /\ todo'[k] = todo[k] \ {e}
    BY <1>12 DEF BeginToKill, Facing, Past, Inv, TypeOK
  <2>2. ask[k] \in Asks /\ Goal(k) \subseteq Executions
    BY <1>3, <2>1 DEF Tracked
  <2>3. \/ pc'[k] = "state" /\ at'[k] = e /\ UNCHANGED <<left, told>>
        \/ /\ UNCHANGED <<pc, at>>
           /\ left'[k] = left[k] \ {e} /\ told'[k] = told[k] \cup {e}
    BY <1>12 DEF BeginToKill, Processed, Inv, TypeOK
  <2>4. ASSUME NEW f \in Goal(k), Handled(k, f) PROVE Handled(k, f)'
    BY <1>2, <2>1, <2>2, <2>3, <2>4 DEF Handled, Killing
  <2> QED
    BY <1>7, <2>1, <2>4
<1> QED
  BY <1>4, <1>5, <1>6, <1>8, <1>9, <1>10, <1>11, <1>12 DEF KillRequestStep

(* A kill request that is answered has killed what it was to kill, or has  *)
(* a message about it, whatever else went on.                              *)
THEOREM KillsAreTold == Spec => KillIsDone
<1>1. Init => Made /\ Tracked
  BY ProcFacts DEF Init, Made, Tracked, There, Killing
<1>2. ASSUME Inv, Tracked, [Next]_vars, NEW k \in KillRequests, pc[k] = "next",
             pc'[k] \in {"ok", "failed", "noInstances"}, NEW e \in Goal(k)
      PROVE  e \in told'[k] \/ ~There(e)
  <2> USE ProcFacts DEF Goto
  <2>1. Answer(k)
    <3>1. KillRequestStep(k) \/ WorkerDies(k)
      BY <1>2, OthersKeep
    <3>2. ~WorkerDies(k) /\ ~BeginKill(k)
      BY <1>2 DEF WorkerDies, BeginKill, List, Inv, TypeOK
    <3>3. ~KillStep(k)
      BY <1>2 DEF KillStep, GetState, KillContainer, Rm, KillRaises, Killing
    <3>4. ASSUME NEW f \in Executions,
                 KillVanished(k, f) \/ Spare(k, f) \/ BeginToKill(k, f)
          PROVE  FALSE
      <4>1. pc'[k] \in {"crashed", "next", "state"}
        <5>1. \/ pc' = [pc EXCEPT ![k] = "crashed"]
              \/ pc' = [pc EXCEPT ![k] = "state"]
              \/ UNCHANGED pc
          BY <3>4 DEF KillVanished, Vanished, Spare, BeginToKill
        <5> QED
          BY <1>2, <5>1 DEF Inv, TypeOK
      <4> QED
        BY <1>2, <4>1
    <3> QED
      BY <3>1, <3>2, <3>3, <3>4 DEF KillRequestStep
  <2>2. todo[k] = {} /\ told'[k] = told[k] \cup left[k]
    <3>1. /\ todo[k] = {}
          /\ told' = [told EXCEPT ![k] = told[k] \cup left[k]]
      BY <2>1 DEF Answer, Close
    <3>2. told \in [KillRequests -> SUBSET Executions]
      BY <1>2 DEF Inv, TypeOK
    <3> QED
      BY <3>1, <3>2
  <2>3. Handled(k, e)
    BY <1>2 DEF Tracked
  <2> QED
    BY <1>2, <2>2, <2>3 DEF Handled, Gone, Killing
<1>3. Inv /\ Tracked /\ [Next]_vars =>
        [\A p \in KillRequests :
           pc[p] = "next" /\ pc'[p] \in {"ok", "failed", "noInstances"} =>
             \A e \in IF ask[p].all THEN {f \in listed[p] : Theirs(p, f)} ELSE ask[p].ids :
               e \in told'[p] \/ ~There(e)]_vars
  BY <1>2 DEF Goal
<1> QED
  BY <1>1, <1>3, InvHolds, TrackedInv, PTL DEF Spec, KillIsDone
-----------------------------------------------------------------------------
(* The locks as leases.                                                    *)

(* The converse of Held: who owns a lock works under it. *)
Owning ==
  \A p \in Releasers, e \in Executions :
    lock[e] = p => pc[p] \in Locked /\ at[p] = e

(* A releaser that is not inside takes a free lock, and the owner gives it *)
(* back or dies.                                                           *)
Taken(e, p) ==
  /\ lock[e] = Free /\ lock' = [lock EXCEPT ![e] = p]
  /\ pc[p] \notin Locked /\ pc'[p] \in Locked /\ at'[p] = e
Left(e, p) ==
  lock[e] = p /\ \E to \in {Free, Orphan} : lock' = [lock EXCEPT ![e] = to]

(* A step does one of these to one lock at most. *)
LEMMA LockMoves ==
  ASSUME Inv, Owning, [Next]_vars
  PROVE  \/ lock' = lock
         \/ \E p \in Releasers, e \in Executions : Taken(e, p) \/ Left(e, p)
<1> USE ProcFacts DEF Goto, TurnTo, TurnAway, Taken, Left
<1> DEFINE Moves == \/ lock' = lock
                    \/ \E p \in Releasers, e \in Executions : Taken(e, p) \/ Left(e, p)
<1> SUFFICES Moves OBVIOUS
<1>1. ASSUME NEW p \in Releasers, pc[p] \in Locked,
             lock' = [lock EXCEPT ![at[p]] = Free]
      PROVE  Moves
  BY <1>1 DEF Inv, Busy, Held, Working
<1>2. ASSUME NEW p \in Releasers, ReleaseStep(p) PROVE Moves
  BY <1>1, <1>2 DEF ReleaseStep, StopContainer, Publish, Remove, ReleaseRaises,
                    Locked, Releasing
<1>3. ASSUME NEW d \in Deletable, DeleterStep(d) PROVE Moves
  <2>1. CASE EnterRelease(Deleter(d))
    <3> DEFINE q == Deleter(d)
    <3>1. /\ pc[q] = "enter" /\ pc' = [pc EXCEPT ![q] = "stop"] /\ at' = at
          /\ lock[at[q]] = Free /\ lock' = [lock EXCEPT ![at[q]] = q]
      BY <2>1 DEF EnterRelease, passVars
    <3>2. q \in Releasers /\ at[q] \in Executions
      BY <3>1 DEF Inv, Busy, Working
    <3> HIDE DEF q
    <3>3. Taken(at[q], q)
      BY <3>1, <3>2 DEF Inv, TypeOK, Locked, Releasing
    <3> QED
      BY <3>2, <3>3
  <2> QED
    BY <1>2, <1>3, <2>1 DEF DeleterStep, FindInstance
<1>4. CASE HarvesterStep
  <2>1. ASSUME NEW e \in Executions, Visit(e) PROVE Taken(e, Harvester)
    BY <2>1 DEF Visit, Inv, TypeOK, Locked, Releasing
  <2>2. CASE Inspect
    BY <1>1, <2>2 DEF Inspect, Locked
  <2> QED
    BY <1>2, <1>4, <2>1, <2>2
    DEF HarvesterStep, HarvestPass, KillStep, PassOver, KillLocked
<1>5. ASSUME NEW p \in Procs, WorkerDies(p) PROVE Moves
  <2>1. lock' = [e \in Executions |-> IF lock[e] = p THEN Orphan ELSE lock[e]]
    BY <1>5 DEF WorkerDies
  <2>2. ASSUME NEW e \in Executions, lock[e] = p PROVE Left(e, p) /\ p \in Releasers
    <3>1. p \in Releasers
      BY <2>2 DEF Inv, TypeOK
    <3>2. \A f \in Executions : lock[f] = p => f = e
      BY <2>2, <3>1 DEF Owning
    <3>3. lock' = [lock EXCEPT ![e] = Orphan]
      BY <2>1, <2>2, <3>2 DEF Inv, TypeOK
    <3> QED
      BY <2>2, <3>1, <3>3
  <2>3. CASE \A e \in Executions : lock[e] # p
    BY <2>1, <2>3 DEF Inv, TypeOK
  <2> QED
    BY <2>2, <2>3
<1>6. CASE \/ \E e \in Executions : Create(e) \/ StartContainer(e) \/ RunnerDies(e)
                                       \/ ContainerExits(e)
           \/ \E p \in KillRequests : KillRequestStep(p)
           \/ UNCHANGED vars
  BY <1>6 DEF Create, StartContainer, RunnerDies, ContainerExits, KillRequestStep,
              BeginKill, KillStep, Answer, Close, KillVanished, Spare, BeginToKill, vars
<1> QED
  BY <1>3, <1>4, <1>5, <1>6 DEF Next

(* A releaser that goes out of the section leaves its lock. *)
LEMMA ReleaserLeaves ==
  ASSUME Inv, [Next]_vars, NEW p \in Releasers, pc[p] \in Locked
  PROVE  \/ pc'[p] \in Locked /\ at'[p] = at[p]
         \/ lock'[at[p]] \in {Free, Orphan}
<1> USE ProcFacts DEF Goto, TurnTo, TurnAway, Locked, Releasing
<1>1. at[p] \in Executions /\ lock[at[p]] = p
  BY DEF Inv, Busy, Held, Working
<1> DEFINE Stays == pc'[p] \in Locked /\ at'[p] = at[p]
           Leaves == lock'[at[p]] \in {Free, Orphan}
<1> SUFFICES Stays \/ Leaves OBVIOUS
<1>2. ASSUME UNCHANGED <<pc, at>> PROVE Stays
  BY <1>2
<1>3. ASSUME NEW q \in Releasers, ReleaseStep(q) PROVE Stays \/ Leaves
  BY <1>1, <1>3 DEF ReleaseStep, StopContainer, Publish, Remove, ReleaseRaises, Inv,
                    TypeOK, passVars
<1>4. ASSUME NEW d \in Deletable, DeleterStep(d) PROVE Stays \/ Leaves
  <2>1. ASSUME FindInstance(d) \/ EnterRelease(Deleter(d)) PROVE p # Deleter(d)
    BY <2>1 DEF FindInstance, EnterRelease
  <2> QED
    BY <1>3, <1>4, <2>1 DEF DeleterStep, FindInstance, EnterRelease, Inv, TypeOK, passVars
<1>5. CASE HarvesterStep
  <2>1. ASSUME \/ HarvestPass
               \/ KillStep(Harvester)
               \/ \E e \in Executions : PassOver(e) \/ KillLocked(e) \/ Visit(e)
        PROVE  Stays
    BY <2>1 DEF HarvestPass, List, Vanished, KillStep, GetState, KillContainer, Rm,
                KillRaises, Killing, PassOver, KillLocked, Visit, Facing, Inv, TypeOK
  <2>2. CASE Inspect
    BY <1>1, <2>2 DEF Inspect, Inv, TypeOK
  <2> QED
    BY <1>3, <1>5, <2>1, <2>2 DEF HarvesterStep
<1>6. ASSUME NEW q \in Procs, WorkerDies(q) PROVE Stays \/ Leaves
  BY <1>1, <1>6 DEF WorkerDies, Inv, TypeOK
<1>7. ASSUME NEW q \in KillRequests, KillRequestStep(q) PROVE Stays
  <2>1. \/ UNCHANGED pc
        \/ \E s \in {"next", "crashed", "failed", "noInstances", "ok", "state",
                    "rm", "kill"} : pc' = [pc EXCEPT ![q] = s]
    BY <1>7 DEF KillRequestStep, BeginKill, List, KillStep, GetState, KillContainer, Rm,
                KillRaises, Answer, Close, KillVanished, Vanished, Spare, BeginToKill
  <2>2. UNCHANGED at \/ \E e : at' = [at EXCEPT ![q] = e]
    BY <1>7 DEF KillRequestStep, BeginKill, List, KillStep, GetState, KillContainer, Rm,
                KillRaises, Answer, Close, KillVanished, Spare, BeginToKill, passVars
  <2> QED
    BY <2>1, <2>2 DEF Inv, TypeOK
<1>8. CASE \/ \E e \in Executions : Create(e) \/ StartContainer(e) \/ RunnerDies(e)
                                       \/ ContainerExits(e)
           \/ UNCHANGED vars
  BY <1>2, <1>8 DEF Create, StartContainer, RunnerDies, ContainerExits, passVars, vars
<1> QED
  BY <1>4, <1>5, <1>6, <1>7, <1>8 DEF Next

(* Owning is kept. *)
LEMMA OwningInv == Inv /\ Owning /\ [Next]_vars => Owning'
<1> SUFFICES ASSUME Inv, Owning, [Next]_vars, NEW p \in Releasers,
                    NEW e \in Executions, lock'[e] = p
             PROVE  pc'[p] \in Locked /\ at'[p] = e
  BY DEF Owning
<1>1. CASE lock[e] = p
  BY <1>1, ReleaserLeaves, ProcFacts DEF Owning
<1>2. CASE lock[e] # p
  BY <1>2, LockMoves, ProcFacts DEF Taken, Left, Inv, TypeOK
<1> QED
  BY <1>1, <1>2

(* The locks of the instances are locks of Lease.                          *)
THEOREM LockRefinement == Spec => LocksAreLeases
<1> DEFINE In == [e \in Executions |->
                    {p \in Releasers : pc[p] \in {"inspect"} \cup Releasing /\ at[p] = e}]
<1>1. Init => Owning /\ Lock!Init
  BY ProcFacts DEF Init, Owning, Lock!Init, Releasing
<1>2. Spec => [](Inv /\ Owning)
  BY <1>1, InvHolds, OwningInv, PTL DEF Spec
<1>3. ASSUME Inv, Owning, Inv', Owning', [Next]_vars
      PROVE  [Lock!Next]_Lock!vars
  <2>1. /\ In = [e \in Executions |-> {p \in Releasers : lock[e] = p}]
        /\ In' = [e \in Executions |-> {p \in Releasers : lock'[e] = p}]
    BY <1>3 DEF Inv, Held, Owning, Locked
  <2>2. lock \in [Executions -> Releasers \cup {Free, Orphan}]
    BY <1>3 DEF Inv, TypeOK
  <2> HIDE DEF In
  <2>3. ASSUME lock' = lock
        PROVE  UNCHANGED Lock!vars
    BY <2>1, <2>3 DEF Lock!vars, In
  <2>4. ASSUME NEW e \in Executions, NEW p \in Releasers, Taken(e, p)
        PROVE  Lock!Take(e, p)
    <3>1. \A f \in Executions : lock[f] # p
      BY <1>3, <2>4 DEF Owning, Taken
    <3>2. \A f \in Executions : {q \in Releasers : lock'[f] = q}
                        = IF f = e THEN {p} ELSE {q \in Releasers : lock[f] = q}
      BY <2>2, <2>4 DEF Taken
    <3>3. In' = [In EXCEPT ![e] = {p}]
      BY <2>1, <3>2
    <3> QED
      BY <2>4, <3>1, <3>3 DEF Taken, Lock!Take, In
  <2>5. ASSUME NEW e \in Executions, NEW p \in Releasers, Left(e, p)
        PROVE  Lock!Leave(e, p, Free) \/ Lock!Leave(e, p, Orphan)
    <3>1. \A f \in Executions : {q \in Releasers : lock'[f] = q}
                        = IF f = e THEN {} ELSE {q \in Releasers : lock[f] = q}
      BY <2>2, <2>5, ProcFacts DEF Left
    <3>2. In' = [In EXCEPT ![e] = {}]
      BY <2>1, <3>1
    <3> QED
      BY <2>5, <3>2 DEF Left, Lock!Leave, In
  <2> QED
    BY <1>3, <2>3, <2>4, <2>5, LockMoves DEF Lock!Next
<1> QED
  BY <1>1, <1>2, <1>3, PTL DEF Spec, LocksAreLeases, Lock!Spec

-----------------------------------------------------------------------------
(* The containers and the records of the executions go as Placement says.  *)

(* Containers come only from Create, and records from Publish; runs begin  *)
(* only in Create.                                                         *)
LEMMA PlacementMoves ==
  ASSUME Inv, [Next]_vars
  PROVE  \/ \E e \in Executions : Create(e)
         \/ \E p \in Releasers : Publish(p) \/ Remove(p)
         \/ /\ \E p \in KillRequests \cup {Harvester} : Rm(p)
            /\ UNCHANGED <<record, run>>
         \/ /\ record' = record
            /\ \A e \in Executions : /\ There(e)' = There(e)
                                     /\ (run'[e] = "new") = (run[e] = "new")
<1> USE ProcFacts DEF There, SetBox
<1> DEFINE Still == /\ record' = record
                    /\ \A e \in Executions : /\ There(e)' = There(e)
                                             /\ (run'[e] = "new") = (run[e] = "new")
           Moved == \/ \E e \in Executions : Create(e)
                    \/ \E p \in Releasers : Publish(p) \/ Remove(p)
                    \/ /\ \E p \in KillRequests \cup {Harvester} : Rm(p)
                       /\ UNCHANGED <<record, run>>
<1> SUFFICES Moved \/ Still OBVIOUS
<1>1. ASSUME NEW e \in Executions, StartContainer(e) \/ RunnerDies(e) \/ ContainerExits(e)
      PROVE  Still
  BY <1>1 DEF StartContainer, RunnerDies, ContainerExits, Inv, TypeOK
<1>2. ASSUME NEW p \in Releasers, StopContainer(p) \/ ReleaseRaises(p) PROVE Still
  BY <1>2 DEF StopContainer, ReleaseRaises, Inv, TypeOK
<1>3. ASSUME NEW p \in Releasers, ReleaseStep(p) PROVE Moved \/ Still
  BY <1>2, <1>3 DEF ReleaseStep
<1>4. ASSUME NEW p \in KillRequests \cup {Harvester}, KillStep(p) PROVE Moved \/ Still
  BY <1>4 DEF KillStep, GetState, KillContainer, KillRaises, Inv, TypeOK
<1>5. ASSUME NEW d \in Deletable, DeleterStep(d) PROVE Moved \/ Still
  BY <1>3, <1>5 DEF DeleterStep, FindInstance, EnterRelease
<1>6. CASE HarvesterStep
  BY <1>3, <1>4, <1>6
  DEF HarvesterStep, HarvestPass, Inspect, PassOver, KillLocked, Visit
<1>7. ASSUME NEW p \in KillRequests, KillRequestStep(p) PROVE Moved \/ Still
  BY <1>4, <1>7
  DEF KillRequestStep, BeginKill, Answer, Close, KillVanished, Spare, BeginToKill
<1>8. CASE UNCHANGED vars \/ \E p \in Procs : WorkerDies(p)
  BY <1>8 DEF WorkerDies, vars
<1> QED
  BY <1>1, <1>5, <1>6, <1>7, <1>8 DEF Next

(* A container that goes away was removed after its results, or killed;    *)
(* it comes once, and what was recorded of it stays.                       *)
THEOREM Refinement == Spec => AbstractSpec
<1> DEFINE W == {e \in Executions : run[e] = "new"}
           On == [e \in Executions |-> {e} \cap Present]
<1>1. Init => Abstract!Init
  BY DEF Init, There, Present, Abstract!Init
<1>2. ASSUME Inv, [Next]_vars
      PROVE  [Abstract!Next]_Abstract!vars
  <2> USE ProcFacts DEF Goto, There
  <2>1. ASSUME record' = record,
               \A e \in Executions : /\ There(e)' = There(e)
                                    /\ (run'[e] = "new") = (run[e] = "new")
        PROVE  UNCHANGED Abstract!vars
    <3>1. W' = W /\ On' = On
      BY <2>1 DEF Present
    <3> QED
      BY <2>1, <3>1 DEF Abstract!vars
  <2>2. ASSUME NEW e \in Executions, Create(e)
        PROVE  Abstract!Place(e, e)
    <3>1. /\ e \in W /\ record' = record
          /\ W' = W \ {e}
          /\ On' = [On EXCEPT ![e] = {e}]
      <4>1. /\ run[e] = "new" /\ run' = [run EXCEPT ![e] = "start"]
            /\ box' = [box EXCEPT ![e] = "created"] /\ record' = record
        BY <2>2 DEF Create, SetBox
      <4>2. W' = W \ {e} /\ e \in W
        BY <1>2, <4>1 DEF Inv, TypeOK
      <4>3. \A f \in Executions : {f} \cap Present' = IF f = e THEN {e} ELSE {f} \cap Present
        BY <1>2, <4>1 DEF Inv, TypeOK, Present
      <4> QED
        BY <4>1, <4>2, <4>3
    <3> QED
      BY <3>1 DEF Abstract!Place
  <2>3. ASSUME NEW e \in Executions, box'[e] = "none", run' = run,
               \A f \in Executions \ {e} : box'[f] = box[f]
        PROVE  W' = W /\ On' = [On EXCEPT ![e] = {}]
    BY <2>3 DEF Present
  <2>4. ASSUME NEW p \in Releasers, Publish(p)
        PROVE  \/ \E e \in Executions : Abstract!Publish(e)
               \/ UNCHANGED Abstract!vars
    <3>1. at[p] \in Executions /\ at[p] \in On[at[p]]
      BY <1>2, <2>4 DEF Publish, Inv, Busy, Working, Locked, Releasing, Present
    <3>2. /\ UNCHANGED <<box, run>>
          /\ record' = [record EXCEPT ![at[p]] = "results"]
      BY <2>4 DEF Publish
    <3>3. W' = W /\ On' = On
      BY <3>2 DEF Present
    <3>4. CASE record[at[p]] = "none"
      BY <3>1, <3>2, <3>3, <3>4 DEF Abstract!Publish
    <3>5. CASE record[at[p]] # "none"
      <4>1. record' = record
        BY <1>2, <3>1, <3>2, <3>5 DEF Inv, TypeOK
      <4> QED
        BY <3>3, <4>1 DEF Abstract!vars
    <3> QED
      BY <3>4, <3>5
  <2>5. ASSUME NEW p \in Releasers, Remove(p)
        PROVE  \E e \in Executions : Abstract!Remove(e)
    <3>1. at[p] \in Executions /\ record[at[p]] = "results"
      BY <1>2, <2>5 DEF Remove, Inv, Busy, Recorded, Working, Locked, Releasing
    <3>2. W' = W /\ On' = [On EXCEPT ![at[p]] = {}] /\ record' = record
      BY <1>2, <2>3, <2>5, <3>1 DEF Remove, SetBox, Inv, TypeOK
    <3> QED
      BY <3>1, <3>2 DEF Abstract!Remove
  <2>6. ASSUME NEW p \in KillRequests \cup {Harvester}, Rm(p),
               UNCHANGED <<record, run>>
        PROVE  \E e \in Executions : Abstract!Lose(e)
    <3>1. at[p] \in Executions
      BY <1>2, <2>6 DEF Rm, Inv, Busy, Working, Killing
    <3>2. W' = W /\ On' = [On EXCEPT ![at[p]] = {}]
      BY <1>2, <2>3, <2>6, <3>1 DEF Rm, SetBox, Inv, TypeOK
    <3>3. On' = [e \in Executions |-> On[e] \ {at[p]}]
      BY <3>1, <3>2
    <3> QED
      BY <2>6, <3>1, <3>2, <3>3 DEF Abstract!Lose
  <2>7. CASE \E e \in Executions : Create(e)
    BY <2>2, <2>7 DEF Abstract!Next
  <2>8. CASE \E p \in Releasers : Publish(p) \/ Remove(p)
    BY <2>4, <2>5, <2>8 DEF Abstract!Next
  <2>9. CASE /\ \E p \in KillRequests \cup {Harvester} : Rm(p)
             /\ UNCHANGED <<record, run>>
    BY <2>6, <2>9 DEF Abstract!Next
  <2> QED
    BY <1>2, <2>1, <2>7, <2>8, <2>9, PlacementMoves
<1> QED
  BY <1>1, <1>2, InvHolds, PTL DEF Spec, AbstractSpec, Abstract!Spec
=============================================================================
