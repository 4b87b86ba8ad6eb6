----------------------- MODULE EC2InstanceGroupProofs -----------------------
(***************************************************************************)
(* What EC2InstanceGroup guarantees for any number of instances and        *)
(* executions, any number of tries, and whatever fails, dies, is deleted   *)
(* or interrupted; that it implements Placement; and at last, that what    *)
(* runs is what the tag says as long as nothing is deleted.                *)
(***************************************************************************)
EXTENDS EC2InstanceGroup, FiniteSetTheorems, TLAPS

(* The type invariant, one part for each kind of variable. *)
TagsOK ==
  /\ state \in [Instances ->
                  {"absent", "pending", "running", "terminated", "delisted"}]
  /\ exec \in [Instances -> Tags]
  /\ mark \in [Instances -> Tags]
  /\ seen \in [Instances -> Tags]
  /\ killSeen \subseteq Instances
  /\ unread \subseteq Instances
  /\ missed \subseteq Executions

BoxOK == box \in [Instances -> [Executions -> {"none", "running", "exited"}]]

LockOK == lock \in [Instances -> Procs \cup {Free, Orphan}]

RecordOK == record \in [Executions -> {"none", "results", "tombstone"}]

LocalsOK ==
  /\ data \in [Executions -> Instances \cup {NoInst}]
  /\ object \in [Executions -> Instances \cup {NoInst}]
  /\ marked \subseteq Executions
  /\ recreate \subseteq Executions
  /\ tries \in [Executions -> 0..MaxTries]

PcOK == pc \in [Executions -> RunnerPc]

ReleaseOK ==
  /\ rpc \in [Releasers -> ReleaserPc]
  /\ at \in [Releasers -> Instances \cup {NoInst}]
  /\ todo \subseteq Instances

(* The parts are the whole. *)
LEMMA TypeParts ==
  TypeOK <=> /\ TagsOK /\ BoxOK /\ LockOK /\ RecordOK /\ LocalsOK /\ PcOK
             /\ ReleaseOK
BY DEF TypeOK, TagsOK, BoxOK, LockOK, RecordOK, LocalsOK, PcOK, ReleaseOK

(* A runner has somewhere to work: which of its locals are set, and how.   *)
HasObject ==
  {"mark", "marking", "reread", "made", "probe", "enter", "unmark"} \cup Launching
HasData == {"make", "remake"}

PlaceInv ==
  \A e \in Executions :
    /\ pc[e] \in HasObject => object[e] \in Instances
    /\ pc[e] \in HasData => data[e] \in Instances
    /\ object[e] \in Instances => state[object[e]] # "absent"
    /\ data[e] \in Instances => state[data[e]] # "absent"

(* Every process in a section that needs the lock owns it, and a runner    *)
(* owns no other.                                                          *)
LockInv ==
  /\ \A e \in Executions : pc[e] \in InLock => lock[object[e]] = Runner(e)
  /\ \A e \in Executions, i \in Instances :
       lock[i] = Runner(e) => pc[e] \in InLock /\ object[e] = i
  /\ \A r \in Releasers :
       /\ rpc[r] = "enter" => at[r] \in Instances
       /\ rpc[r] \in Releasing \cup HarvestLocked =>
            at[r] \in Instances /\ lock[at[r]] = r

(* The earmark a runner's object shows is the earmark AWS has, unless some *)
(* call could not read the tags again; and nobody else sets the earmark    *)
(* under the lock, though it may be emptied there.                         *)
MarkInv ==
  /\ \A i \in Instances : state[i] = "absent" => mark[i] = NoExec
  /\ \A e \in Executions :
       /\ object[e] \in Instances \ unread /\ (e \in marked \/ pc[e] = "reread")
            => mark[object[e]] = e
       /\ pc[e] \in InLock => mark[object[e]] \in {NoExec, e}
       /\ pc[e] \in Launching => e \in marked
       /\ pc[e] \in {"launch", "tag"} => exec[object[e]] = NoExec

(* Where an execution can be found, and when.                              *)
Home(i, e) == exec[i] = e \/ box[i][e] # "none"

HomeInv ==
  \A e \in Executions, i \in Instances :
    /\ pc[e] \in Homeless => ~Home(i, e)
    /\ pc[e] \in {"tag", "untag"} /\ Home(i, e) => i = object[e]
    /\ \A j \in Instances : Home(i, e) /\ Home(j, e) => i = j

(* What a release or a burial has recorded by the time it goes on. *)
RecordInv ==
  /\ rpc[Harvester] \in Releasing \ {"clear"} => SeenExec \in Executions
  /\ \A r \in Releasers : rpc[r] = "remove" => record[Cached(r)] # "none"
  /\ rpc[Harvester] = "tombstone" => SeenExec \in Executions
  /\ rpc[Harvester] = "delist" /\ SeenExec # NoExec =>
       record[SeenExec] # "none" \/ CallsMayFail

-----------------------------------------------------------------------------
(* The identities of the processes are distinct. *)
LEMMA Identities ==
  /\ \A e, f \in Executions : Runner(e) = Runner(f) => e = f
  /\ \A e \in Executions : /\ Runner(e) \notin Releasers \cup {Free, Orphan}
                            /\ Deleter(e) # Harvester
  /\ \A r \in Releasers : r \notin {Free, Orphan}
  /\ \A e \in Executions : Runner(e) \in Procs /\ Deleter(e) \in Releasers
  /\ Harvester \in Releasers /\ Releasers \subseteq Procs
BY DEF Runner, Deleter, Harvester, Free, Orphan, Releasers, Procs

(* A step, by what it is for. *)
RunnerLocal(e) ==
  Start(e) \/ Loop(e) \/ Query(e) \/ Make(e) \/ EarmarkRefused(e) \/ HandOver(e)
    \/ Probe(e) \/ EnterRefused(e) \/ Abandon(e)

RunnerTags(e) ==
  Ask(e) \/ AskAgain(e) \/ Remake(e) \/ Unearmark(e) \/ Finish(e)

RunnerLocks(e) ==
  EarmarkGranted(e) \/ Earmark(e) \/ Reread(e) \/ Enter(e) \/ Launch(e)
    \/ TagExecution(e) \/ Untag(e) \/ RunnerRaises(e) \/ RunnerDies(e)

HarvestLocal ==
  List \/ EndPass \/ (\E i \in Instances : PassOver(i)) \/ Bury

HarvestLocks ==
  (\E i \in Instances : Visit(i)) \/ Inspect \/ Forget \/ ClearForHarvest
    \/ Dispose \/ WriteTombstone \/ Delist

DeleterOwn(e) == FindInstance(e) \/ EnterRelease(e) \/ ClearForDelete(e)

Elsewhere ==
  \/ KillList
  \/ \E i \in Instances : KillLocked(i) \/ KillIdle(i) \/ Boot(i) \/ Interrupt(i)
  \/ \E i \in Instances, e \in Executions : ContainerExits(i, e)

(* Every step is one of these. *)
LEMMA Steps ==
  ASSUME [Next]_vars
  PROVE  \/ \E e \in Executions : RunnerLocal(e) \/ RunnerTags(e) \/ RunnerLocks(e)
         \/ \E e \in Executions : DeleterOwn(e)
         \/ \E r \in Releasers : ReleaseStep(r) \/ ReleaserDies(r)
         \/ HarvestLocal \/ HarvestLocks \/ Elsewhere
         \/ UNCHANGED vars
BY Identities
   DEF Next, RunnerStep, DeleterStep, HarvesterStep, RunnerLocal, RunnerTags,
       RunnerLocks, DeleterOwn, HarvestLocal, HarvestLocks, Elsewhere

(* The places the actions name. *)
LEMMA Places ==
  /\ {"loop", "ask", "remake", "made", "probe", "enter", "unmark", "launch", "tag",
      "untag", "new", "started", "failed", "dead", "query", "make", "mark",
      "marking", "reread", "askAgain", "finish"} \subseteq RunnerPc
  /\ {"idle", "next", "enter", "stop", "publish", "remove", "clear", "inspect",
      "bury", "tombstone", "delist", "forget", "dispose"} \subseteq ReleaserPc
BY DEF RunnerPc, Launching, Yielding, Ended, ReleaserPc, Releasing, HarvestLocked

-----------------------------------------------------------------------------
(* Frames: which steps touch which part of the state.                      *)

(* The earmarks are the business of the runners. *)
LEMMA MarkFrame ==
  ASSUME [Next]_vars, mark' # mark
  PROVE  \E e \in Executions :
           RunnerTags(e) \/ Earmark(e) \/ Untag(e)
BY Steps
   DEF RunnerLocal, Start, Loop, Query, Make, EarmarkRefused, HandOver, Probe,
       EnterRefused, Abandon, RunnerLocks, EarmarkGranted, Reread, Enter, Launch,
       TagExecution, RunnerRaises, RunnerDies, DeleterOwn, FindInstance,
       EnterRelease, ClearForDelete, ReleaseStep, StopContainer, Publish,
       RemoveContainer, ReleaseRaises, ReleaserDies, HarvestLocal, List,
       EndPass, PassOver, Bury, HarvestLocks, Visit, Inspect, Forget,
       ClearForHarvest, Dispose, WriteTombstone, Delist, Elsewhere, KillList,
       KillLocked, KillIdle, Boot, Interrupt, ContainerExits, Terminate,
       awsVars, runnerVars, harvestVars, vars

(* What could not be read again stays noted. *)
LEMMA UnreadFrame ==
  ASSUME [Next]_vars
  PROVE  unread \subseteq unread'
<1>1. ASSUME NEW e \in Executions, RunnerLocal(e)
      PROVE  unread' = unread
  BY <1>1
     DEF RunnerLocal, Start, Loop, Query, Make, EarmarkRefused, HandOver, Probe,
         EnterRefused, Abandon, awsVars
<1>2. ASSUME NEW e \in Executions, RunnerTags(e) \/ RunnerLocks(e)
      PROVE  unread \subseteq unread'
  BY <1>2
     DEF RunnerTags, Ask, AskAgain, NewInstance, Remake, Unearmark, Finish,
         UnmarkUnread, RunnerLocks, EarmarkGranted, Earmark, Reread, Enter,
         Launch, TagExecution, Untag, RunnerRaises, RunnerDies, awsVars
<1>3. CASE \/ \E e \in Executions : DeleterOwn(e)
           \/ \E r \in Releasers : ReleaseStep(r) \/ ReleaserDies(r)
           \/ HarvestLocal \/ HarvestLocks
  BY <1>3
     DEF DeleterOwn, FindInstance, EnterRelease, ClearForDelete, ReleaseStep,
         StopContainer, Publish, RemoveContainer, ReleaseRaises, ReleaserDies,
         HarvestLocal, List, EndPass, PassOver, Bury, HarvestLocks, Visit,
         Inspect, Forget, ClearForHarvest, Dispose, WriteTombstone, Delist,
         Terminate, awsVars
<1>4. CASE Elsewhere \/ UNCHANGED vars
  BY <1>4
     DEF Elsewhere, KillList, KillLocked, KillIdle, Boot, Interrupt,
         ContainerExits, Terminate, awsVars, vars
<1>5. QED
  BY <1>1, <1>2, <1>3, <1>4, Steps

(* One step sets the Execution-Id tag, and three clear it. *)
LEMMA ExecFrame ==
  ASSUME [Next]_vars, exec' # exec
  PROVE  \/ \E e \in Executions : TagExecution(e) \/ ClearForDelete(e)
         \/ Forget \/ ClearForHarvest
BY Steps
   DEF RunnerLocal, Start, Loop, Query, Make, EarmarkRefused, HandOver, Probe,
       EnterRefused, Abandon, RunnerTags, Ask, AskAgain, NewInstance, Remake,
       Unearmark, Finish, HardUnearmark, UnmarkUnread, RunnerLocks, EarmarkGranted,
       Earmark, Reread, Enter, Launch, Untag, RunnerRaises, RunnerDies, DeleterOwn,
       FindInstance, EnterRelease, ReleaseStep, StopContainer, Publish,
       RemoveContainer, ReleaseRaises, ReleaserDies, HarvestLocal, List,
       EndPass, PassOver, Bury, HarvestLocks, Visit, Inspect, Dispose,
       WriteTombstone, Delist, Elsewhere, KillList, KillLocked, KillIdle,
       Boot, Interrupt, ContainerExits, Terminate, awsVars, runnerVars,
       harvestVars, vars

(* Containers. *)
LEMMA BoxFrame ==
  ASSUME [Next]_vars, box' # box
  PROVE  \/ \E e \in Executions : Launch(e)
         \/ \E r \in Releasers : StopContainer(r) \/ RemoveContainer(r)
         \/ \E i \in Instances, e \in Executions : ContainerExits(i, e)
         \/ \E i \in Instances \cup {Mine} : Terminate(i)
BY Steps
   DEF RunnerLocal, Start, Loop, Query, Make, EarmarkRefused, HandOver, Probe,
       EnterRefused, Abandon, RunnerTags, Ask, AskAgain, NewInstance, Remake,
       Unearmark, Finish, HardUnearmark, UnmarkUnread, RunnerLocks, EarmarkGranted,
       Earmark, Reread, Enter, TagExecution, Untag, RunnerRaises, RunnerDies,
       DeleterOwn, FindInstance, EnterRelease, ClearForDelete, ReleaseStep,
       Publish, ReleaseRaises, ReleaserDies, HarvestLocal, List, EndPass,
       PassOver, Bury, HarvestLocks, Visit, Inspect, Forget, ClearForHarvest,
       Dispose, WriteTombstone, Delist, Elsewhere, KillList, KillLocked,
       KillIdle, Boot, Interrupt, awsVars, runnerVars, harvestVars, vars

(* Records. *)
LEMMA RecordFrame ==
  ASSUME [Next]_vars, record' # record
  PROVE  (\E r \in Releasers : Publish(r)) \/ WriteTombstone
BY Steps
   DEF RunnerLocal, Start, Loop, Query, Make, EarmarkRefused, HandOver, Probe,
       EnterRefused, Abandon, RunnerTags, Ask, AskAgain, NewInstance, Remake,
       Unearmark, Finish, HardUnearmark, UnmarkUnread, RunnerLocks, EarmarkGranted,
       Earmark, Reread, Enter, Launch, TagExecution, Untag, RunnerRaises, RunnerDies,
       DeleterOwn, FindInstance, EnterRelease, ClearForDelete, ReleaseStep,
       StopContainer, RemoveContainer, ReleaseRaises, ReleaserDies,
       HarvestLocal, List, EndPass, PassOver, Bury, HarvestLocks, Visit,
       Inspect, Forget, ClearForHarvest, Dispose, Delist, Elsewhere,
       KillList, KillLocked, KillIdle, Boot, Interrupt, ContainerExits,
       Terminate, awsVars, runnerVars, harvestVars, vars

(* What the harvester listed. *)
LEMMA SeenFrame ==
  ASSUME [Next]_vars, seen' # seen
  PROVE  List \/ EndPass \/ ClearForHarvest
BY Steps
   DEF RunnerLocal, Start, Loop, Query, Make, EarmarkRefused, HandOver, Probe,
       EnterRefused, Abandon, RunnerTags, Ask, AskAgain, NewInstance, Remake,
       Unearmark, Finish, HardUnearmark, UnmarkUnread, RunnerLocks, EarmarkGranted,
       Earmark, Reread, Enter, Launch, TagExecution, Untag, RunnerRaises, RunnerDies,
       DeleterOwn, FindInstance, EnterRelease, ClearForDelete, ReleaseStep,
       StopContainer, Publish, RemoveContainer, ReleaseRaises, ReleaserDies,
       HarvestLocal, PassOver, Bury, HarvestLocks, Visit, Inspect, Forget,
       Dispose, WriteTombstone, Delist, Elsewhere, KillList, KillLocked,
       KillIdle, Boot, Interrupt, ContainerExits, Terminate, awsVars,
       runnerVars, harvestVars, vars

(* Runners keep their places in their type. *)
LEMMA PcStep == PcOK /\ [Next]_vars => PcOK'
<1> SUFFICES ASSUME PcOK, [Next]_vars
             PROVE  PcOK'
  OBVIOUS
<1>1. \/ UNCHANGED pc
      \/ \E e \in Executions, x \in RunnerPc : pc' = [pc EXCEPT ![e] = x]
  <2>1. ASSUME NEW e \in Executions, RunnerLocal(e)
        PROVE  \E x \in RunnerPc : pc' = [pc EXCEPT ![e] = x]
    BY <2>1, Places
       DEF RunnerLocal, Start, Loop, Query, Make, EarmarkRefused,
           HandOver, Probe,
           EnterRefused, Abandon, Goto
  <2>2. ASSUME NEW e \in Executions, RunnerTags(e)
        PROVE  \E x \in RunnerPc : pc' = [pc EXCEPT ![e] = x]
    BY <2>2, Places
       DEF RunnerTags, Ask, AskAgain, Remake, Unearmark, Finish, Goto
  <2>3. ASSUME NEW e \in Executions, RunnerLocks(e)
        PROVE  \E x \in RunnerPc : pc' = [pc EXCEPT ![e] = x]
    BY <2>3, Places
       DEF RunnerLocks, EarmarkGranted, Earmark, Reread, Enter, Launch, TagExecution,
           Untag, RunnerRaises, RunnerDies, Goto
  <2>4. CASE \/ \E e \in Executions : DeleterOwn(e)
             \/ \E r \in Releasers : ReleaseStep(r) \/ ReleaserDies(r)
             \/ HarvestLocal \/ HarvestLocks \/ Elsewhere \/ UNCHANGED vars
    BY <2>4
       DEF DeleterOwn, FindInstance, EnterRelease, ClearForDelete, ReleaseStep,
           StopContainer, Publish, RemoveContainer, ReleaseRaises, ReleaserDies,
           HarvestLocal, List, EndPass, PassOver, Bury, HarvestLocks, Visit,
           Inspect, Forget, ClearForHarvest, Dispose, WriteTombstone, Delist,
           Elsewhere, KillList, KillLocked, KillIdle, Boot, Interrupt,
           ContainerExits, runnerVars, vars
  <2>5. QED
    BY <2>1, <2>2, <2>3, <2>4, Steps
<1>2. QED
  BY <1>1 DEF PcOK

(* Tags and instance states keep their types. *)
LEMMA TagsStep == TagsOK /\ LocalsOK /\ [Next]_vars => TagsOK'
<1> SUFFICES ASSUME TagsOK, LocalsOK, [Next]_vars
             PROVE  TagsOK'
  OBVIOUS
<1> USE DEF TagsOK, LocalsOK, Tags, awsVars, harvestVars
<1>1. ASSUME NEW e \in Executions, RunnerLocal(e)
      PROVE  TagsOK'
  BY <1>1
     DEF RunnerLocal, Start, Loop, Query, Make, EarmarkRefused, HandOver, Probe,
         EnterRefused, Abandon
<1>2. ASSUME NEW e \in Executions, RunnerTags(e)
      PROVE  TagsOK'
  BY <1>2
     DEF RunnerTags, Ask, AskAgain, NewInstance, Remake, Unearmark, Finish,
         HardUnearmark, UnmarkUnread, SetMark
<1>3. ASSUME NEW e \in Executions, RunnerLocks(e)
      PROVE  TagsOK'
  BY <1>3
     DEF RunnerLocks, EarmarkGranted, Earmark, Reread, Enter, Launch, TagExecution,
         Untag, RunnerRaises, RunnerDies, UnmarkUnread, SetMark, SetExec
<1>4. ASSUME NEW e \in Executions, DeleterOwn(e)
      PROVE  TagsOK'
  BY <1>4 DEF DeleterOwn, FindInstance, EnterRelease, ClearForDelete, SetExec
<1>5. ASSUME NEW r \in Releasers, ReleaseStep(r) \/ ReleaserDies(r)
      PROVE  TagsOK'
  BY <1>5
     DEF ReleaseStep, StopContainer, Publish, RemoveContainer, ReleaseRaises,
         ReleaserDies
<1>6. CASE HarvestLocal
  BY <1>6 DEF HarvestLocal, List, EndPass, PassOver, Bury
<1>7. CASE HarvestLocks
  BY <1>7
     DEF HarvestLocks, Visit, Inspect, Forget, ClearForHarvest, Dispose,
         WriteTombstone, Delist, Terminate, SetExec, RGoto
<1>8. CASE KillList
  BY <1>8 DEF KillList, Listed
<1>9. CASE (Elsewhere /\ ~KillList) \/ UNCHANGED vars
  BY <1>9
     DEF Elsewhere, KillLocked, KillIdle, Boot, Interrupt, ContainerExits,
         Terminate, vars
<1>10. QED
  BY <1>1, <1>2, <1>3, <1>4, <1>5, <1>6, <1>7, <1>8, <1>9, Steps

(* So do the containers and the records. *)
LEMMA BoxStep == BoxOK /\ [Next]_vars => BoxOK'
<1> SUFFICES ASSUME BoxOK, [Next]_vars, box' # box
             PROVE  BoxOK'
  BY DEF BoxOK
<1>1. CASE \E i \in Instances \cup {Mine} : Terminate(i)
  BY <1>1 DEF BoxOK, Terminate
<1>2. CASE \/ \E e \in Executions : Launch(e)
           \/ \E r \in Releasers : StopContainer(r) \/ RemoveContainer(r)
           \/ \E i \in Instances, e \in Executions : ContainerExits(i, e)
  <2>1. \E i, e : \E s \in {"none", "running", "exited"} : SetBox(i, e, s)
    BY <1>2 DEF Launch, StopContainer, RemoveContainer, ContainerExits
  <2>2. QED
    BY <2>1 DEF BoxOK, SetBox
<1>3. QED
  BY <1>1, <1>2, BoxFrame

(* And the records. *)
LEMMA RecordStep == RecordOK /\ [Next]_vars => RecordOK'
<1> SUFFICES ASSUME RecordOK, [Next]_vars, record' # record
             PROVE  RecordOK'
  BY DEF RecordOK
<1>1. QED
  BY RecordFrame DEF RecordOK, Publish, WriteTombstone

(* So do the locks. *)
LEMMA LockTypeStep == LockOK /\ [Next]_vars => LockOK'
<1> SUFFICES ASSUME LockOK, [Next]_vars
             PROVE  LockOK'
  OBVIOUS
<1>1. \/ UNCHANGED lock
      \/ \E i : \E p \in Procs \cup {Free, Orphan} : lock' = [lock EXCEPT ![i] = p]
      \/ \E p : \E q \in {Free, Orphan} :
           lock' = [i \in Instances |-> IF lock[i] = p THEN q ELSE lock[i]]
  <2>1. ASSUME NEW e \in Executions, RunnerLocal(e) \/ RunnerTags(e)
        PROVE  UNCHANGED lock
    BY <2>1
       DEF RunnerLocal, Start, Loop, Query, Make, EarmarkRefused,
           HandOver, Probe,
           EnterRefused, Abandon, RunnerTags, Ask, AskAgain, NewInstance,
           Remake, Unearmark, Finish
  <2>2. ASSUME NEW e \in Executions,
               EarmarkGranted(e) \/ Reread(e) \/ Enter(e) \/ Untag(e)
        PROVE  \E i : \E p \in Procs \cup {Free, Orphan} : lock' = [lock EXCEPT ![i] = p]
    BY <2>2, Identities DEF EarmarkGranted, Reread, Enter, Untag, Take, Give
  <2>3. ASSUME NEW e \in Executions,
               Earmark(e) \/ Launch(e) \/ TagExecution(e) \/ RunnerRaises(e)
                 \/ RunnerDies(e)
        PROVE  \/ UNCHANGED lock
               \/ \E p : \E q \in {Free, Orphan} :
                    lock' = [i \in Instances |-> IF lock[i] = p THEN q ELSE lock[i]]
    BY <2>3 DEF Earmark, Launch, TagExecution, RunnerRaises, RunnerDies
  <2>4. ASSUME NEW e \in Executions, DeleterOwn(e)
        PROVE  \/ UNCHANGED lock
               \/ \E i : \E p \in Procs \cup {Free, Orphan} : lock' = [lock EXCEPT ![i] = p]
    BY <2>4, Identities
       DEF DeleterOwn, FindInstance, EnterRelease, ClearForDelete, Take, Give
  <2>5. ASSUME NEW r \in Releasers, ReleaseStep(r)
        PROVE  \/ UNCHANGED lock
               \/ \E i : \E p \in Procs \cup {Free, Orphan} : lock' = [lock EXCEPT ![i] = p]
    BY <2>5
       DEF ReleaseStep, StopContainer, Publish, RemoveContainer, ReleaseRaises, Give
  <2>6. ASSUME NEW r \in Releasers, ReleaserDies(r)
        PROVE  \E p : \E q \in {Free, Orphan} :
                 lock' = [i \in Instances |-> IF lock[i] = p THEN q ELSE lock[i]]
    BY <2>6 DEF ReleaserDies
  <2>7. CASE HarvestLocks
    BY <2>7, Identities
       DEF HarvestLocks, Visit, Inspect, Forget, ClearForHarvest, Dispose,
           WriteTombstone, Delist, Take, Give
  <2>8. CASE HarvestLocal \/ Elsewhere \/ UNCHANGED vars
    BY <2>8
       DEF HarvestLocal, List, EndPass, PassOver, Bury, Elsewhere, KillList,
           KillLocked, KillIdle, Boot, Interrupt, ContainerExits, vars
  <2>9. QED
    BY <2>1, <2>2, <2>3, <2>4, <2>5, <2>6, <2>7, <2>8, Steps DEF RunnerLocks
<1>2. QED
  BY <1>1 DEF LockOK

(* So do the locals of the runners. *)
LEMMA LocalsStep == LocalsOK /\ [Next]_vars => LocalsOK'
<1> SUFFICES ASSUME LocalsOK, [Next]_vars
             PROVE  LocalsOK'
  OBVIOUS
<1> USE GroupAssumption DEF LocalsOK
<1>1. ASSUME NEW e \in Executions, Start(e) \/ Loop(e)
      PROVE  LocalsOK'
  BY <1>1 DEF Start, Loop
<1>2. ASSUME NEW e \in Executions,
             Query(e) \/ Make(e) \/ EarmarkRefused(e) \/ HandOver(e) \/ Probe(e)
               \/ EnterRefused(e) \/ Abandon(e)
      PROVE  LocalsOK'
  <2>1. Make(e) => object'[e] \in Instances \cup {NoInst} /\ marked' \subseteq Executions
    BY DEF Make
  <2>2. QED
    BY <1>2, <2>1 DEF Query, Make, EarmarkRefused,
                      HandOver, Probe, EnterRefused, Abandon
<1>3. ASSUME NEW e \in Executions, RunnerTags(e)
      PROVE  LocalsOK'
  BY <1>3 DEF RunnerTags, Ask, AskAgain, NewInstance, Remake, Unearmark, Finish,
              HardUnearmark, UnmarkUnread, Return
<1>4. ASSUME NEW e \in Executions, RunnerLocks(e)
      PROVE  LocalsOK'
  BY <1>4
     DEF RunnerLocks, EarmarkGranted, Earmark, Reread, Enter, Launch, TagExecution,
         Untag, UnmarkUnread, RunnerRaises, RunnerDies, Return
<1>5. CASE \/ \E e \in Executions : DeleterOwn(e)
           \/ \E r \in Releasers : ReleaseStep(r) \/ ReleaserDies(r)
           \/ HarvestLocal \/ HarvestLocks \/ Elsewhere \/ UNCHANGED vars
  BY <1>5
     DEF DeleterOwn, FindInstance, EnterRelease, ClearForDelete, ReleaseStep,
         StopContainer, Publish, RemoveContainer, ReleaseRaises, ReleaserDies,
         HarvestLocal, List, EndPass, PassOver, Bury, HarvestLocks, Visit,
         Inspect, Forget, ClearForHarvest, Dispose, WriteTombstone, Delist,
         Elsewhere, KillList, KillLocked, KillIdle, Boot, Interrupt,
         ContainerExits, runnerVars, vars
<1>6. QED
  BY <1>1, <1>2, <1>3, <1>4, <1>5, Steps DEF RunnerLocal

(* So do the harvester and the deleters. *)
LEMMA ReleaseTypeStep == ReleaseOK /\ [Next]_vars => ReleaseOK'
<1> SUFFICES ASSUME ReleaseOK, [Next]_vars
             PROVE  ReleaseOK'
  OBVIOUS
<1> USE Identities, Places DEF ReleaseOK
<1>1. ASSUME NEW e \in Executions,
             RunnerLocal(e) \/ RunnerTags(e) \/ RunnerLocks(e)
      PROVE  ReleaseOK'
  BY <1>1
     DEF RunnerLocal, Start, Loop, Query, Make, EarmarkRefused, HandOver, Probe,
         EnterRefused, Abandon, RunnerTags, Ask, AskAgain, NewInstance, Remake,
         Unearmark, Finish, RunnerLocks, EarmarkGranted, Earmark, Reread, Enter, Launch,
         TagExecution, Untag, RunnerRaises, RunnerDies, harvestVars
<1>2. ASSUME NEW e \in Executions, DeleterOwn(e)
      PROVE  ReleaseOK'
  BY <1>2 DEF DeleterOwn, FindInstance, EnterRelease, ClearForDelete, RGoto, Listed
<1>3. ASSUME NEW r \in Releasers, ReleaseStep(r) \/ ReleaserDies(r)
      PROVE  ReleaseOK'
  BY <1>3
     DEF ReleaseStep, StopContainer, Publish, RemoveContainer, ReleaseRaises,
         ReleaserDies, RGoto, Outside
<1>4. CASE HarvestLocal
  BY <1>4 DEF HarvestLocal, List, EndPass, PassOver, Bury, RGoto, Listed
<1>5. CASE HarvestLocks
  BY <1>5
     DEF HarvestLocks, Visit, Inspect, Forget, ClearForHarvest, Dispose,
         WriteTombstone, Delist, RGoto
<1>6. CASE Elsewhere \/ UNCHANGED vars
  BY <1>6
     DEF Elsewhere, KillList, KillLocked, KillIdle, Boot, Interrupt,
         ContainerExits, harvestVars, vars
<1>7. QED
  BY <1>1, <1>2, <1>3, <1>4, <1>5, <1>6, Steps

(* TypeOK is kept by every step. *)
LEMMA TypeStep == TypeOK /\ [Next]_vars => TypeOK'
<1> SUFFICES ASSUME TypeOK, [Next]_vars
             PROVE  (TagsOK /\ BoxOK /\ LockOK /\ RecordOK /\ LocalsOK /\ PcOK
                       /\ ReleaseOK)'
  BY DEF TypeOK, TagsOK, BoxOK, LockOK, RecordOK, LocalsOK, PcOK, ReleaseOK
<1>1. QED
  BY TypeParts, TagsStep, BoxStep, LockTypeStep, RecordStep, LocalsStep, PcStep,
     ReleaseTypeStep

(* Tags, locks, containers, records and the places of all requests keep    *)
(* to their types: TypeOK.                                                 *)
THEOREM TypeCorrect == Spec => []TypeOK
<1>1. Init => TypeOK
  BY Places, GroupAssumption DEF Init, TypeOK, Tags
<1>2. QED
  BY <1>1, TypeStep, PTL DEF Spec

-----------------------------------------------------------------------------
(* What a step leaves of the locals of the runners that do not take it.    *)
RunnerOwn(e) == RunnerLocal(e) \/ RunnerTags(e) \/ RunnerLocks(e)

(* A runner's place, instance and earmark change by its own steps only. *)
LEMMA RunnerFrame ==
  ASSUME TypeOK, [Next]_vars, NEW e \in Executions, ~RunnerOwn(e)
  PROVE  /\ pc'[e] = pc[e] /\ object'[e] = object[e] /\ data'[e] = data[e]
         /\ e \in marked' <=> e \in marked
<1>1. LocalsOK /\ PcOK
  BY TypeParts
<1> USE <1>1 DEF LocalsOK, PcOK
<1>2. ASSUME NEW f \in Executions, f # e, RunnerLocal(f)
      PROVE  /\ pc'[e] = pc[e] /\ object'[e] = object[e] /\ data'[e] = data[e]
             /\ e \in marked' <=> e \in marked
  BY <1>2
     DEF RunnerLocal, Start, Loop, Query, Make, EarmarkRefused, HandOver, Probe,
         EnterRefused, Abandon, Goto
<1>3. ASSUME NEW f \in Executions, f # e, RunnerTags(f)
      PROVE  /\ pc'[e] = pc[e] /\ object'[e] = object[e] /\ data'[e] = data[e]
             /\ e \in marked' <=> e \in marked
  BY <1>3
     DEF RunnerTags, Ask, AskAgain, NewInstance, Remake, Unearmark, Finish,
         HardUnearmark, UnmarkUnread, Return, Goto
<1>4. ASSUME NEW f \in Executions, f # e, RunnerLocks(f)
      PROVE  /\ pc'[e] = pc[e] /\ object'[e] = object[e] /\ data'[e] = data[e]
             /\ e \in marked' <=> e \in marked
  BY <1>4
     DEF RunnerLocks, EarmarkGranted, Earmark, Reread, Enter, Launch, TagExecution,
         Untag, UnmarkUnread, RunnerRaises, RunnerDies, Return, Goto
<1>5. CASE \/ \E f \in Executions : DeleterOwn(f)
           \/ \E r \in Releasers : ReleaseStep(r) \/ ReleaserDies(r)
           \/ HarvestLocal \/ HarvestLocks \/ Elsewhere \/ UNCHANGED vars
  BY <1>5
     DEF DeleterOwn, FindInstance, EnterRelease, ClearForDelete, ReleaseStep,
         StopContainer, Publish, RemoveContainer, ReleaseRaises, ReleaserDies,
         HarvestLocal, List, EndPass, PassOver, Bury, HarvestLocks, Visit,
         Inspect, Forget, ClearForHarvest, Dispose, WriteTombstone, Delist,
         Elsewhere, KillList, KillLocked, KillIdle, Boot, Interrupt,
         ContainerExits, runnerVars, vars
<1>6. QED
  BY <1>2, <1>3, <1>4, <1>5, Steps DEF RunnerOwn

(* Instances do not go back to where they were before they were asked for. *)
LEMMA StateFrame ==
  ASSUME TypeOK, [Next]_vars, NEW i \in Instances, state[i] # "absent"
  PROVE  state'[i] # "absent"
<1>1. state \in [Instances -> {"absent", "pending", "running", "terminated", "delisted"}]
  BY DEF TypeOK
<1> USE <1>1
<1>2. ASSUME NEW e \in Executions, RunnerOwn(e)
      PROVE  state'[i] # "absent"
  BY <1>2
     DEF RunnerOwn, RunnerLocal, Start, Loop, Query, Make, EarmarkRefused,
         HandOver, Probe,
         EnterRefused, Abandon, RunnerTags, Ask, AskAgain, NewInstance, Remake,
         Unearmark, Finish, RunnerLocks, EarmarkGranted, Earmark, Reread, Enter, Launch,
         TagExecution, Untag, RunnerRaises, RunnerDies, awsVars
<1>3. CASE \/ \E e \in Executions : DeleterOwn(e)
           \/ \E r \in Releasers : ReleaseStep(r) \/ ReleaserDies(r)
           \/ HarvestLocal \/ HarvestLocks
  BY <1>3
     DEF DeleterOwn, FindInstance, EnterRelease, ClearForDelete, ReleaseStep,
         StopContainer, Publish, RemoveContainer, ReleaseRaises, ReleaserDies,
         HarvestLocal, List, EndPass, PassOver, Bury, HarvestLocks, Visit,
         Inspect, Forget, ClearForHarvest, Dispose, WriteTombstone, Delist,
         Terminate, awsVars
<1>4. CASE Elsewhere \/ UNCHANGED vars
  BY <1>4
     DEF Elsewhere, KillList, KillLocked, KillIdle, Boot, Interrupt,
         ContainerExits, Terminate, awsVars, vars
<1>5. QED
  BY <1>2, <1>3, <1>4, Steps DEF RunnerOwn

(* PlaceInv is inductive by itself. *)
LEMMA PlaceStep == TypeOK /\ PlaceInv /\ [Next]_vars => PlaceInv'
<1> SUFFICES ASSUME TypeOK, PlaceInv, [Next]_vars, NEW e \in Executions
             PROVE  /\ pc'[e] \in HasObject => object'[e] \in Instances
                    /\ pc'[e] \in HasData => data'[e] \in Instances
                    /\ object'[e] \in Instances => state'[object'[e]] # "absent"
                    /\ data'[e] \in Instances => state'[data'[e]] # "absent"
  BY DEF PlaceInv
<1>1. /\ LocalsOK /\ PcOK
      /\ state \in [Instances -> {"absent", "pending", "running", "terminated", "delisted"}]
  BY TypeParts DEF TypeOK
<1> USE GroupAssumption DEF LocalsOK, PcOK, HasObject, HasData, Launching
<1>2. CASE RunnerLocal(e)
  <2>1. state' = state
    BY <1>2 DEF RunnerLocal, Start, Loop, Query, Make, EarmarkRefused,
                HandOver, Probe,
                EnterRefused, Abandon, awsVars
  <2>2. CASE Start(e) \/ Loop(e) \/ HandOver(e) \/ Probe(e) \/ EnterRefused(e) \/ Abandon(e)
    BY <1>1, <2>1, <2>2 DEF Start, Loop,
                            HandOver, Probe, EnterRefused, Abandon, Goto, PlaceInv
  <2>3. CASE Query(e) \/ Make(e) \/ EarmarkRefused(e)
    BY <1>1, <2>1, <2>3 DEF Query, Make, EarmarkRefused, Goto, PlaceInv
  <2>4. QED
    BY <1>2, <2>2, <2>3 DEF RunnerLocal
<1>3. CASE RunnerTags(e)
  <2>1. CASE Ask(e) \/ AskAgain(e)
    BY <1>1, <2>1 DEF Ask, AskAgain, NewInstance, Goto, PlaceInv
  <2>2. CASE Remake(e) \/ Unearmark(e) \/ Finish(e)
    BY <1>1, <2>2 DEF Remake, Unearmark, Finish, Return, Goto, PlaceInv
  <2>3. QED
    BY <1>3, <2>1, <2>2 DEF RunnerTags
<1>4. CASE RunnerLocks(e)
  BY <1>1, <1>4
     DEF RunnerLocks, EarmarkGranted, Earmark, Reread, Enter, Launch, TagExecution,
         Untag, RunnerRaises, RunnerDies, Return, Goto, awsVars, PlaceInv
<1>5. CASE ~RunnerOwn(e)
  BY <1>1, <1>5, RunnerFrame, StateFrame DEF PlaceInv
<1>6. QED
  BY <1>2, <1>3, <1>4, <1>5 DEF RunnerOwn

-----------------------------------------------------------------------------
(* What a step leaves of the releasers that do not take it. *)
ReleaserOwn(r) ==
  \/ ReleaseStep(r) \/ ReleaserDies(r)
  \/ r = Harvester /\ (HarvestLocal \/ HarvestLocks)
  \/ \E e \in Executions : r = Deleter(e) /\ DeleterOwn(e)

(* A releaser's place and instance change by its own steps only. *)
LEMMA ReleaserFrame ==
  ASSUME TypeOK, [Next]_vars, NEW r \in Releasers, ~ReleaserOwn(r)
  PROVE  rpc'[r] = rpc[r] /\ at'[r] = at[r]
<1>1. ReleaseOK
  BY TypeParts
<1> USE <1>1, Identities DEF ReleaseOK
<1>2. ASSUME NEW e \in Executions, RunnerOwn(e)
      PROVE  rpc' = rpc /\ at' = at
  BY <1>2
     DEF RunnerOwn, RunnerLocal, Start, Loop, Query, Make, EarmarkRefused,
         HandOver, Probe,
         EnterRefused, Abandon, RunnerTags, Ask, AskAgain, NewInstance, Remake,
         Unearmark, Finish, RunnerLocks, EarmarkGranted, Earmark, Reread, Enter, Launch,
         TagExecution, Untag, RunnerRaises, RunnerDies, harvestVars
<1>3. ASSUME NEW e \in Executions, DeleterOwn(e), r # Deleter(e)
      PROVE  rpc'[r] = rpc[r] /\ at'[r] = at[r]
  BY <1>3 DEF DeleterOwn, FindInstance, EnterRelease, ClearForDelete, RGoto
<1>4. ASSUME NEW q \in Releasers, r # q, ReleaseStep(q) \/ ReleaserDies(q)
      PROVE  rpc'[r] = rpc[r] /\ at'[r] = at[r]
  BY <1>4
     DEF ReleaseStep, StopContainer, Publish, RemoveContainer, ReleaseRaises,
         ReleaserDies, RGoto
<1>5. ASSUME HarvestLocal \/ HarvestLocks, r # Harvester
      PROVE  rpc'[r] = rpc[r] /\ at'[r] = at[r]
  BY <1>5
     DEF HarvestLocal, List, EndPass, PassOver, Bury, HarvestLocks, Visit,
         Inspect, Forget, ClearForHarvest, Dispose, WriteTombstone, Delist, RGoto
<1>6. CASE Elsewhere \/ UNCHANGED vars
  BY <1>6
     DEF Elsewhere, KillList, KillLocked, KillIdle, Boot, Interrupt,
         ContainerExits, harvestVars, vars
<1>7. QED
  BY <1>2, <1>3, <1>4, <1>5, <1>6, Steps DEF ReleaserOwn, RunnerOwn

(* A lock is taken when it is free, and goes back by its owner only, which *)
(* by then is out of the section it needed it for.                         *)
LEMMA LockFrame ==
  ASSUME TypeOK, PlaceInv, LockInv, [Next]_vars,
         NEW i \in Instances, lock'[i] # lock[i]
  PROVE  \/ /\ lock[i] = Free
            /\ \E e \in Executions : /\ EarmarkGranted(e) \/ Enter(e)
                                     /\ i = object[e] /\ lock'[i] = Runner(e)
         \/ /\ lock[i] = Free
            /\ lock'[i] \in Releasers
         \/ /\ lock'[i] \in {Free, Orphan}
            /\ \E e \in Executions : RunnerLocks(e) /\ lock[i] = Runner(e)
         \/ /\ lock'[i] \in {Free, Orphan}
            /\ \E r \in Releasers : lock[i] = r /\ rpc'[r] \notin Inside
<1>1. LockOK /\ ReleaseOK /\ LocalsOK
  BY TypeParts
<1> USE <1>1, Identities DEF LockOK, ReleaseOK, LocalsOK
<1>2. ASSUME NEW e \in Executions, RunnerLocal(e) \/ RunnerTags(e)
      PROVE  FALSE
  BY <1>2
     DEF RunnerLocal, Start, Loop, Query, Make, EarmarkRefused, HandOver, Probe,
         EnterRefused, Abandon, RunnerTags, Ask, AskAgain, NewInstance,
         Remake, Unearmark, Finish
<1>3. ASSUME NEW e \in Executions, EarmarkGranted(e) \/ Enter(e)
      PROVE  i = object[e] /\ lock[i] = Free /\ lock'[i] = Runner(e)
  BY <1>3 DEF EarmarkGranted, Enter, Take
<1>4. ASSUME NEW e \in Executions, Reread(e) \/ Untag(e)
      PROVE  lock[i] = Runner(e) /\ lock'[i] = Free
  <2>1. pc[e] \in InLock /\ lock' = [lock EXCEPT ![object[e]] = Free]
    BY <1>4 DEF Reread, Untag, Give, Goto, InLock, Launching
  <2>2. lock[object[e]] = Runner(e)
    BY <2>1 DEF LockInv
  <2>3. QED
    BY <2>1, <2>2
<1>5. ASSUME NEW e \in Executions, RunnerRaises(e) \/ RunnerDies(e)
      PROVE  lock[i] = Runner(e) /\ lock'[i] \in {Free, Orphan}
  BY <1>5 DEF RunnerRaises, RunnerDies
<1>6. ASSUME NEW e \in Executions, Earmark(e) \/ Launch(e) \/ TagExecution(e)
      PROVE  FALSE
  BY <1>6 DEF Earmark, Launch, TagExecution
<1>7. ASSUME NEW e \in Executions, FindInstance(e) \/ EnterRelease(e)
      PROVE  lock[i] = Free /\ lock'[i] \in Releasers
  BY <1>7 DEF FindInstance, EnterRelease, Take
<1>8. ASSUME NEW r \in Releasers, rpc[r] \in Inside, Give(at[r]), rpc'[r] \notin Inside
      PROVE  lock[i] = r /\ lock'[i] = Free
  <2>1. lock[at[r]] = r
    BY <1>8 DEF LockInv, Inside
  <2>2. QED
    BY <1>8, <2>1 DEF Give
<1>9. ASSUME NEW e \in Executions, ClearForDelete(e)
      PROVE  \E r \in Releasers : rpc[r] \in Inside /\ Give(at[r]) /\ rpc'[r] \notin Inside
  BY <1>9 DEF ClearForDelete, RGoto, Inside, Releasing, HarvestLocked
<1>10. ASSUME NEW r \in Releasers, ReleaseStep(r)
       PROVE  rpc[r] \in Inside /\ Give(at[r]) /\ rpc'[r] \notin Inside
  BY <1>10 DEF ReleaseStep, StopContainer, Publish, RemoveContainer, ReleaseRaises,
               Outside, Inside, Releasing, HarvestLocked
<1>11. ASSUME NEW r \in Releasers, ReleaserDies(r)
       PROVE  lock[i] = r /\ lock'[i] = Orphan /\ rpc'[r] \notin Inside
  BY <1>11 DEF ReleaserDies, Inside, Releasing, HarvestLocked
<1>12. ASSUME HarvestLocks
       PROVE  \/ lock[i] = Free /\ lock'[i] \in Releasers
              \/ /\ rpc[Harvester] \in Inside /\ Give(at[Harvester])
                 /\ rpc'[Harvester] \notin Inside
  BY <1>12 DEF HarvestLocks, Visit, Inspect, Forget, ClearForHarvest, Dispose,
               WriteTombstone, Delist, Take, RGoto, Mine, Inside, Releasing,
               HarvestLocked
<1>13. ASSUME HarvestLocal \/ Elsewhere \/ UNCHANGED vars
       PROVE  FALSE
  BY <1>13
     DEF HarvestLocal, List, EndPass, PassOver, Bury, Elsewhere, KillList,
         KillLocked, KillIdle, Boot, Interrupt, ContainerExits, vars
<1>14. CASE \E e \in Executions : RunnerOwn(e)
  BY <1>14, <1>2, <1>3, <1>4, <1>5, <1>6 DEF RunnerOwn, RunnerLocks
<1>15. CASE \/ \E e \in Executions : DeleterOwn(e)
            \/ \E r \in Releasers : ReleaseStep(r) \/ ReleaserDies(r)
            \/ HarvestLocks
  BY <1>15, <1>7, <1>8, <1>9, <1>10, <1>11, <1>12 DEF DeleterOwn
<1>16. QED
  BY <1>13, <1>14, <1>15, Steps DEF RunnerOwn

(* The runners' half of LockInv. *)
LEMMA RunnerLockStep ==
  ASSUME TypeOK, PlaceInv, LockInv, [Next]_vars, NEW e \in Executions
  PROVE  /\ pc'[e] \in InLock => lock'[object'[e]] = Runner(e)
         /\ \A i \in Instances :
              lock'[i] = Runner(e) => pc'[e] \in InLock /\ object'[e] = i
<1>1. LockOK /\ LocalsOK /\ PcOK
  BY TypeParts
<1>2. /\ pc[e] \in InLock => lock[object[e]] = Runner(e) /\ object[e] \in Instances
      /\ \A i \in Instances :
           lock[i] = Runner(e) => pc[e] \in InLock /\ object[e] = i
  BY DEF LockInv, PlaceInv, InLock, HasObject
<1>3. CASE EarmarkGranted(e) \/ Enter(e)
  <2>1. /\ pc'[e] \in InLock /\ object' = object /\ object[e] \in Instances
        /\ pc[e] \notin InLock /\ lock' = [lock EXCEPT ![object[e]] = Runner(e)]
    BY <1>1, <1>3 DEF PcOK, EarmarkGranted, Enter, Take, Goto, InLock, Launching,
                      PlaceInv, HasObject
  <2>2. QED
    BY <1>1, <1>2, <2>1 DEF LockOK
<1>4. CASE Earmark(e) \/ Launch(e) \/ TagExecution(e)
  <2>1. pc[e] \in InLock /\ pc'[e] \in InLock /\ object' = object /\ lock' = lock
    BY <1>1, <1>4 DEF PcOK, Earmark, Launch, TagExecution, Goto, InLock, Launching
  <2>2. QED
    BY <1>2, <2>1
<1>5. CASE Reread(e) \/ Untag(e)
  <2>1. pc[e] \in InLock /\ pc'[e] \notin InLock /\ lock' = [lock EXCEPT ![object[e]] = Free]
    BY <1>1, <1>5 DEF PcOK, Reread, Untag, Give, Goto, InLock, Launching
  <2>2. QED
    BY <1>1, <1>2, <2>1, Identities DEF LockOK
<1>6. CASE RunnerRaises(e) \/ RunnerDies(e)
  <2>1. /\ pc'[e] \notin InLock
        /\ \A i \in Instances : lock[i] = Runner(e) => lock'[i] \in {Free, Orphan}
        /\ \A i \in Instances : lock[i] # Runner(e) => lock'[i] = lock[i]
    BY <1>1, <1>6 DEF PcOK, RunnerRaises, RunnerDies, InLock, Launching
  <2>2. QED
    BY <2>1, Identities
<1>7. CASE RunnerLocal(e) \/ RunnerTags(e)
  <2>1. pc[e] \notin InLock /\ pc'[e] \notin InLock /\ lock' = lock
    BY <1>1, <1>7
       DEF PcOK, RunnerLocal, Start, Loop, Query, Make, EarmarkRefused,
           HandOver, Probe,
           EnterRefused, Abandon, RunnerTags, Ask, AskAgain, NewInstance,
           Remake, Unearmark, Finish, Goto, InLock, Launching, Yielding
  <2>2. QED
    BY <1>2, <2>1
<1>8. CASE ~RunnerOwn(e)
  <2>1. pc'[e] = pc[e] /\ object'[e] = object[e]
    BY <1>8, RunnerFrame
  <2>2. ASSUME NEW i \in Instances, lock'[i] # lock[i]
        PROVE  lock[i] # Runner(e) /\ lock'[i] # Runner(e)
    BY <1>8, <2>2, LockFrame, Identities DEF RunnerOwn, RunnerLocks
  <2>3. QED
    BY <1>2, <2>1, <2>2
<1>9. QED
  BY <1>3, <1>4, <1>5, <1>6, <1>7, <1>8 DEF RunnerOwn, RunnerLocks

(* The half of the harvester and the deleters. *)
LEMMA ReleaserLockStep ==
  ASSUME TypeOK, PlaceInv, LockInv, [Next]_vars, NEW r \in Releasers,
         rpc'[r] \in Inside
  PROVE  at'[r] \in Instances /\ lock'[at'[r]] = r
<1>1. LockOK /\ ReleaseOK
  BY TypeParts
<1>2. rpc[r] \in Inside => at[r] \in Instances /\ lock[at[r]] = r
  BY DEF LockInv, Inside
<1> USE <1>1, Identities DEF LockOK, ReleaseOK
<1>3. CASE ReleaseStep(r) \/ ReleaserDies(r)
  <2>1. rpc[r] \in Inside /\ at' = at /\ lock' = lock
    BY <1>3 DEF ReleaseStep, StopContainer, Publish, RemoveContainer,
                ReleaseRaises, ReleaserDies, RGoto, Outside, Inside, Releasing,
                HarvestLocked
  <2>2. QED
    BY <1>2, <2>1
<1>4. CASE r = Harvester /\ HarvestLocal
  <2>1. rpc[r] \in Inside /\ at' = at /\ lock' = lock
    BY <1>4 DEF HarvestLocal, List, EndPass, PassOver, Bury, RGoto, Inside,
                Releasing, HarvestLocked
  <2>2. QED
    BY <1>2, <2>1
<1>5. CASE r = Harvester /\ HarvestLocks
  <2>1. CASE \E i \in Instances : Visit(i)
    BY <1>5, <2>1 DEF Visit, Take
  <2>2. CASE ~\E i \in Instances : Visit(i)
    <3>1. rpc[r] \in Inside /\ at' = at /\ lock' = lock
      BY <1>5, <2>2 DEF HarvestLocks, Inspect, Forget, ClearForHarvest, Dispose,
                  WriteTombstone, Delist, RGoto, Inside, Releasing, HarvestLocked
    <3>2. QED
      BY <1>2, <3>1
  <2>3. QED
    BY <2>1, <2>2
<1>6. ASSUME NEW e \in Executions, r = Deleter(e), DeleterOwn(e)
      PROVE  at'[r] \in Instances /\ lock'[at'[r]] = r
  <2>1. EnterRelease(e)
    BY <1>6 DEF DeleterOwn, FindInstance, ClearForDelete, RGoto, Inside,
                Releasing, HarvestLocked
  <2>2. lock[at[r]] = Free /\ lock' = [lock EXCEPT ![at[r]] = r] /\ at' = at
    BY <1>6, <2>1 DEF EnterRelease, Take
  <2>3. at[r] \in Instances
    BY <1>6, <2>1 DEF EnterRelease, RGoto, LockInv
  <2>4. QED
    BY <2>2, <2>3
<1>7. CASE ~ReleaserOwn(r)
  <2>1. rpc'[r] = rpc[r] /\ at'[r] = at[r]
    BY <1>7, ReleaserFrame
  <2>2. lock'[at[r]] = lock[at[r]]
    <3>1. SUFFICES ASSUME lock'[at[r]] # lock[at[r]]
                   PROVE  FALSE
      OBVIOUS
    <3>2. at[r] \in Instances /\ lock[at[r]] = r
      BY <1>2, <2>1
    <3>3. QED
      BY <2>1, <3>1, <3>2, LockFrame
  <2>3. QED
    BY <1>2, <2>1, <2>2
<1>8. QED
  BY <1>3, <1>4, <1>5, <1>6, <1>7 DEF ReleaserOwn

(* The instance a deleter found is one. *)
LEMMA FoundStep ==
  ASSUME TypeOK, LockInv, [Next]_vars, NEW r \in Releasers, rpc'[r] = "enter"
  PROVE  at'[r] \in Instances
<1>1. ReleaseOK
  BY TypeParts
<1> USE <1>1, Identities DEF ReleaseOK
<1>2. CASE ReleaseStep(r) \/ ReleaserDies(r) \/ (r = Harvester /\ (HarvestLocal \/ HarvestLocks))
  <2>1. rpc'[r] # "enter"
    BY <1>2 DEF ReleaseStep, StopContainer, Publish, RemoveContainer,
                ReleaseRaises, ReleaserDies, Outside, HarvestLocal, List,
                EndPass, PassOver, Bury, HarvestLocks, Visit, Inspect, Forget,
                ClearForHarvest, Dispose, WriteTombstone, Delist, RGoto
  <2>2. QED
    BY <2>1
<1>3. ASSUME NEW e \in Executions, r = Deleter(e), DeleterOwn(e)
      PROVE  at'[r] \in Instances
  BY <1>3 DEF DeleterOwn, FindInstance, EnterRelease, ClearForDelete, RGoto, Listed
<1>4. CASE ~ReleaserOwn(r)
  BY <1>4, ReleaserFrame DEF LockInv
<1>5. QED
  BY <1>2, <1>3, <1>4 DEF ReleaserOwn

(* LockInv is kept by every step. *)
LEMMA LockStep == TypeOK /\ PlaceInv /\ LockInv /\ [Next]_vars => LockInv'
BY RunnerLockStep, ReleaserLockStep, FoundStep DEF LockInv, Inside

-----------------------------------------------------------------------------
(* An earmark is put where there is none, on a new instance or under its   *)
(* lock, and is taken away by the runner it belongs to, unless the tags    *)
(* could not be read once.                                                 *)
LEMMA MarkChange ==
  ASSUME TypeOK, PlaceInv, LockInv, MarkInv, [Next]_vars,
         NEW i \in Instances, mark'[i] # mark[i]
  PROVE  \/ /\ mark[i] = NoExec
            /\ state[i] = "absent" /\ state'[i] # "absent"
         \/ /\ mark[i] = NoExec
            /\ \E e \in Executions : Earmark(e) /\ lock[i] = Runner(e)
         \/ /\ mark'[i] = NoExec
            /\ \/ i \in unread
               \/ \E e \in Executions : mark[i] = e /\ RunnerOwn(e) /\ pc'[e] # pc[e]
<1>1. TagsOK /\ LocalsOK /\ PcOK
  BY TypeParts
<1> USE <1>1 DEF TagsOK, LocalsOK, PcOK
<1>2. ASSUME NEW e \in Executions, Ask(e) \/ AskAgain(e)
      PROVE  mark[i] = NoExec /\ state[i] = "absent" /\ state'[i] # "absent"
  <2>1. PICK j \in Instances : NewInstance(e, j)
    BY <1>2 DEF Ask, AskAgain
  <2>2. j = i
    BY <2>1 DEF NewInstance, SetMark
  <2>3. QED
    BY <2>1, <2>2 DEF NewInstance, MarkInv
<1>3. ASSUME NEW e \in Executions, Earmark(e)
      PROVE  mark[i] = NoExec /\ lock[i] = Runner(e)
  <2>1. i = object[e] /\ mark'[i] = e
    BY <1>3 DEF Earmark, SetMark
  <2>2. pc[e] \in InLock
    BY <1>3 DEF Earmark, Goto, InLock
  <2>3. mark[i] \in {NoExec, e} /\ lock[i] = Runner(e)
    BY <2>1, <2>2 DEF MarkInv, LockInv
  <2>4. QED
    BY <2>1, <2>3
<1>4. ASSUME NEW e \in Executions,
             Remake(e) \/ Untag(e) \/ Unearmark(e) \/ Finish(e)
      PROVE  mark'[i] = NoExec /\ (i \in unread \/ (mark[i] = e /\ pc'[e] # pc[e]))
  <2>1. SetMark(object[e], NoExec) /\ e \in marked
    BY <1>4 DEF Remake, Untag, Unearmark, Finish, HardUnearmark, UnmarkUnread,
                ShowsMark, MarkInv, Goto, Launching
  <2>2. i = object[e] /\ mark'[i] = NoExec
    BY <2>1 DEF SetMark
  <2>3. i \in unread \/ mark[i] = e
    BY <2>1, <2>2 DEF MarkInv
  <2>4. pc'[e] # pc[e]
    BY <1>4 DEF Remake, Untag, Unearmark, Finish, Goto
  <2>5. QED
    BY <2>2, <2>3, <2>4
<1>5. PICK e \in Executions : RunnerTags(e) \/ Earmark(e) \/ Untag(e)
  BY MarkFrame
<1>6. QED
  BY <1>2, <1>3, <1>4, <1>5 DEF RunnerTags, RunnerOwn, RunnerLocks

(* A tag is put on a free instance only under its lock. *)
LEMMA ExecChange ==
  ASSUME TypeOK, PlaceInv, LockInv, [Next]_vars,
         NEW i \in Instances, exec'[i] # exec[i]
  PROVE  \/ exec'[i] = NoExec
         \/ \E e \in Executions : /\ TagExecution(e) /\ exec'[i] = e
                                  /\ i = object[e] /\ lock[i] = Runner(e)
<1>1. TagsOK /\ LocalsOK
  BY TypeParts
<1>2. ASSUME NEW e \in Executions, TagExecution(e)
      PROVE  exec'[i] = e /\ i = object[e] /\ lock[i] = Runner(e)
  <2>1. pc[e] \in InLock /\ exec' = [exec EXCEPT ![object[e]] = e]
    BY <1>2 DEF TagExecution, Goto, SetExec, InLock, Launching
  <2>2. QED
    BY <1>1, <2>1 DEF TagsOK, LockInv
<1>3. CASE (\E e \in Executions : ClearForDelete(e)) \/ Forget \/ ClearForHarvest
  BY <1>1, <1>3 DEF ClearForDelete, Forget, ClearForHarvest, SetExec, TagsOK
<1>4. QED
  BY <1>2, <1>3, ExecFrame

(* What MarkInv says of one runner. *)
OwnMark(e) ==
  /\ object[e] \in Instances \ unread /\ (e \in marked \/ pc[e] = "reread")
       => mark[object[e]] = e
  /\ pc[e] \in InLock => mark[object[e]] \in {NoExec, e}
  /\ pc[e] \in Launching => e \in marked
  /\ pc[e] \in {"launch", "tag"} => exec[object[e]] = NoExec

(* The runner's own steps keep it. *)
LEMMA OwnMarkStep ==
  ASSUME TypeOK, PlaceInv, LockInv, MarkInv, [Next]_vars, NEW e \in Executions,
         RunnerOwn(e)
  PROVE  OwnMark(e)'
<1>1. TagsOK /\ LocalsOK /\ PcOK
  BY TypeParts
<1>2. OwnMark(e) /\ unread \subseteq unread'
  BY UnreadFrame DEF MarkInv, OwnMark
<1> USE <1>1, <1>2, GroupAssumption
    DEF TagsOK, LocalsOK, PcOK, OwnMark, InLock, Launching
<1>3. CASE RunnerLocal(e)
  <2>1. CASE Start(e) \/ Loop(e) \/ Query(e) \/ HandOver(e) \/ Probe(e) \/ EnterRefused(e) \/ Abandon(e)
    BY <2>1 DEF Start, Loop, Query,
                HandOver, Probe, EnterRefused, Abandon, Goto, awsVars
  <2>2. CASE Make(e)
    BY <2>2 DEF Make, Goto, awsVars
  <2>3. CASE EarmarkRefused(e)
    BY <2>3 DEF EarmarkRefused, Goto
  <2>4. QED
    BY <1>3, <2>1, <2>2, <2>3 DEF RunnerLocal
<1>4. CASE Ask(e) \/ AskAgain(e)
  <2>1. /\ pc'[e] \in {"remake", "loop"} /\ marked' = marked /\ object' = object
        /\ \E i \in Instances : NewInstance(e, i)
    BY <1>4 DEF Ask, AskAgain, NewInstance, Goto
  <2>2. object[e] \in Instances => mark'[object[e]] \in {mark[object[e]], e}
    BY <2>1 DEF NewInstance, SetMark
  <2>3. QED
    BY <2>1, <2>2
<1>5. CASE Remake(e) \/ Unearmark(e) \/ Finish(e)
  <2>1. pc'[e] \in {"make", "askAgain", "failed", "finish"}
    BY <1>5 DEF Remake, Unearmark, Finish, Goto
  <2>2. \/ e \notin marked'
        \/ mark' = mark /\ marked' = marked /\ object'[e] \in {object[e], NoInst}
        \/ object'[e] = object[e] /\ object[e] \notin Instances \ unread'
    BY <1>5 DEF Remake, Unearmark, Finish, HardUnearmark, UnmarkUnread, Return
  <2>3. QED
    BY <2>1, <2>2
<1>6. CASE Untag(e) \/ RunnerRaises(e) \/ RunnerDies(e)
  <2>1. pc'[e] \in {"started", "finish", "dead"}
    BY <1>6 DEF Untag, RunnerRaises, RunnerDies, Goto
  <2>2. \/ e \notin marked'
        \/ mark' = mark /\ marked' = marked /\ object' = object
        \/ object'[e] = object[e] /\ object[e] \notin Instances \ unread'
    BY <1>6 DEF Untag, UnmarkUnread, RunnerRaises, RunnerDies, Return, awsVars
  <2>3. QED
    BY <2>1, <2>2
<1>7. CASE EarmarkGranted(e) \/ Enter(e)
  BY <1>7 DEF EarmarkGranted, Enter, Available, FreeFor, Goto, awsVars
<1>8. CASE Earmark(e)
  BY <1>8 DEF Earmark, SetMark, Goto
<1>9. CASE Reread(e)
  BY <1>9 DEF Reread, Goto, awsVars
<1>10. CASE Launch(e)
  BY <1>10 DEF Launch, Goto, awsVars
<1>11. CASE TagExecution(e)
  BY <1>11 DEF TagExecution, Goto
<1>12. QED
  BY <1>3, <1>4, <1>5, <1>6, <1>7, <1>8, <1>9, <1>10, <1>11
     DEF RunnerOwn, RunnerTags, RunnerLocks

(* MarkInv is kept by every step. *)
LEMMA MarkStep == TypeOK /\ PlaceInv /\ LockInv /\ MarkInv /\ [Next]_vars => MarkInv'
<1> SUFFICES ASSUME TypeOK, PlaceInv, LockInv, MarkInv, [Next]_vars
             PROVE  MarkInv'
  OBVIOUS
<1>1. ASSUME NEW i \in Instances, state'[i] = "absent"
      PROVE  mark'[i] = NoExec
  <2>1. state[i] = "absent"
    BY <1>1, StateFrame
  <2>2. \A e \in Executions : lock[i] # Runner(e)
    BY <2>1 DEF LockInv, PlaceInv
  <2>3. mark[i] = NoExec
    BY <2>1 DEF MarkInv
  <2>4. QED
    BY <1>1, <2>1, <2>2, <2>3, MarkChange
<1>2. ASSUME NEW e \in Executions, ~RunnerOwn(e)
      PROVE  OwnMark(e)'
  <2>1. /\ pc'[e] = pc[e] /\ object'[e] = object[e]
        /\ e \in marked' <=> e \in marked
    BY <1>2, RunnerFrame
  <2>2. ASSUME object[e] \in Instances \ unread', e \in marked \/ pc[e] = "reread"
        PROVE  mark'[object[e]] = e
    <3>1. object[e] \in Instances \ unread
      BY <2>2, UnreadFrame
    <3>2. mark[object[e]] = e /\ e # NoExec
      BY <2>2, <3>1, GroupAssumption DEF MarkInv
    <3>3. QED
      BY <1>2, <3>1, <3>2, MarkChange
  <2>3. ASSUME pc[e] \in InLock
        PROVE  mark'[object[e]] \in {NoExec, e}
    <3>1. /\ object[e] \in Instances /\ state[object[e]] # "absent"
          /\ mark[object[e]] \in {NoExec, e} /\ lock[object[e]] = Runner(e)
      BY <2>3 DEF PlaceInv, HasObject, MarkInv, LockInv, InLock
    <3>2. CASE mark'[object[e]] = mark[object[e]]
      BY <3>1, <3>2
    <3>3. CASE mark'[object[e]] # mark[object[e]]
      BY <1>2, <3>1, <3>3, MarkChange, Identities DEF RunnerOwn, RunnerLocks
    <3>4. QED
      BY <3>2, <3>3
  <2>4. ASSUME pc[e] \in {"launch", "tag"}
        PROVE  exec'[object[e]] = NoExec
    <3>1. /\ object[e] \in Instances /\ exec[object[e]] = NoExec
          /\ lock[object[e]] = Runner(e)
      BY <2>4 DEF PlaceInv, HasObject, MarkInv, LockInv, InLock, Launching
    <3>2. QED
      BY <1>2, <3>1, ExecChange, Identities DEF RunnerOwn, RunnerLocks
  <2>5. pc[e] \in Launching => e \in marked
    BY DEF MarkInv
  <2>6. QED
    BY <2>1, <2>2, <2>3, <2>4, <2>5 DEF OwnMark
<1>3. \A e \in Executions : OwnMark(e)'
  BY <1>2, OwnMarkStep
<1>4. QED
  BY <1>1, <1>3 DEF MarkInv, OwnMark

-----------------------------------------------------------------------------
(* A tag or a container comes to an instance only by the launch of the     *)
(* execution there.                                                        *)
LEMMA HomeChange ==
  ASSUME TypeOK, PlaceInv, LockInv, [Next]_vars,
         NEW i \in Instances, NEW e \in Executions, Home(i, e)', ~Home(i, e)
  PROVE  (Launch(e) \/ TagExecution(e)) /\ i = object[e]
<1>1. TagsOK /\ LocalsOK /\ BoxOK /\ ReleaseOK
  BY TypeParts
<1>2. CASE exec'[i] = e
  <2>1. exec'[i] # exec[i] /\ e # NoExec
    BY <1>2, GroupAssumption DEF Home
  <2>2. PICK f \in Executions : TagExecution(f) /\ exec'[i] = f /\ i = object[f]
    BY <1>2, <2>1, ExecChange
  <2>3. f = e
    BY <1>2, <2>2
  <2>4. QED
    BY <2>2, <2>3
<1>3. CASE exec'[i] # e
  <2>1. box[i][e] = "none" /\ box'[i][e] # "none"
    BY <1>3 DEF Home
  <2>2. ASSUME NEW f \in Executions, Launch(f)
        PROVE  f = e /\ i = object[e]
    BY <1>1, <2>1, <2>2 DEF Launch, SetBox, BoxOK
  <2>3. ASSUME NEW r \in Releasers, StopContainer(r) \/ RemoveContainer(r)
        PROVE  FALSE
    BY <1>1, <2>1, <2>3 DEF StopContainer, RemoveContainer, Reachable, SetBox, BoxOK
  <2>4. ASSUME NEW j \in Instances, NEW f \in Executions, ContainerExits(j, f)
        PROVE  FALSE
    BY <1>1, <2>1, <2>4 DEF ContainerExits, SetBox, BoxOK
  <2>5. ASSUME NEW j \in Instances \cup {Mine}, Terminate(j)
        PROVE  FALSE
    BY <1>1, <2>1, <2>5 DEF Terminate, BoxOK
  <2>6. QED
    BY <2>1, <2>2, <2>3, <2>4, <2>5, BoxFrame
<1>4. QED
  BY <1>2, <1>3

(* A runner that has left the homeless places does not come back to them,  *)
(* and comes to the tag by its launch.                                     *)
LEMMA Homeward ==
  ASSUME TypeOK, [Next]_vars, NEW e \in Executions
  PROVE  /\ pc[e] \notin Homeless => pc'[e] \notin Homeless
         /\ \/ Launch(e) \/ TagExecution(e)
            \/ pc'[e] \notin {"tag", "untag"}
            \/ pc'[e] = pc[e] /\ object'[e] = object[e]
<1>1. PcOK
  BY TypeParts
<1> USE <1>1 DEF PcOK, Homeless, Ended, Yielding
<1>2. CASE RunnerLocal(e)
  BY <1>2 DEF RunnerLocal, Start, Loop, Query, Make, EarmarkRefused,
              HandOver, Probe,
              EnterRefused, Abandon, Goto
<1>3. CASE RunnerTags(e)
  BY <1>3 DEF RunnerTags, Ask, AskAgain, Remake, Unearmark, Finish, Goto
<1>4. CASE RunnerLocks(e)
  BY <1>4 DEF RunnerLocks, EarmarkGranted, Earmark, Reread, Enter, Launch, TagExecution,
              Untag, RunnerRaises, RunnerDies, Goto
<1>5. CASE ~RunnerOwn(e)
  BY <1>5, RunnerFrame
<1>6. QED
  BY <1>2, <1>3, <1>4, <1>5 DEF RunnerOwn

(* HomeInv is kept by every step. *)
LEMMA HomeStep ==
  TypeOK /\ PlaceInv /\ LockInv /\ HomeInv /\ [Next]_vars => HomeInv'
<1> SUFFICES ASSUME TypeOK, PlaceInv, LockInv, HomeInv, [Next]_vars,
                    NEW e \in Executions
             PROVE  \A i \in Instances :
                      /\ pc'[e] \in Homeless => ~Home(i, e)'
                      /\ pc'[e] \in {"tag", "untag"} /\ Home(i, e)' => i = object'[e]
                      /\ \A j \in Instances : Home(i, e)' /\ Home(j, e)' => i = j
  BY DEF HomeInv, Home
<1>1. PcOK
  BY TypeParts
<1>2. \A i \in Instances :
        /\ pc[e] \in Homeless => ~Home(i, e)
        /\ pc[e] \in {"tag", "untag"} /\ Home(i, e) => i = object[e]
        /\ \A j \in Instances : Home(i, e) /\ Home(j, e) => i = j
  BY DEF HomeInv
<1>3. CASE Launch(e) \/ TagExecution(e)
  <2>1. /\ pc[e] = "launch" \/ pc[e] = "tag"
        /\ pc'[e] \in {"tag", "untag"} /\ object' = object
    BY <1>1, <1>3 DEF Launch, TagExecution, Goto, PcOK
  <2>2. "launch" \in Homeless
    BY Places DEF Homeless
  <2>3. \A i \in Instances : Home(i, e)' => i = object[e]
    BY <1>2, <2>1, <2>2, HomeChange
  <2>4. QED
    BY <2>1, <2>3 DEF Homeless
<1>4. CASE ~(Launch(e) \/ TagExecution(e))
  <2>1. \A i \in Instances : Home(i, e)' => Home(i, e)
    BY <1>4, HomeChange
  <2>2. pc'[e] \in Homeless => pc[e] \in Homeless
    BY Homeward
  <2>3. pc'[e] \in {"tag", "untag"} => pc'[e] = pc[e] /\ object'[e] = object[e]
    BY <1>4, Homeward
  <2>4. QED
    BY <1>2, <2>1, <2>2, <2>3
<1>5. QED
  BY <1>3, <1>4

-----------------------------------------------------------------------------
(* What is recorded stays recorded. *)
LEMMA RecordKept ==
  ASSUME TypeOK, [Next]_vars, NEW e \in Executions, record[e] # "none"
  PROVE  record'[e] # "none"
<1>1. RecordOK
  BY TypeParts
<1>2. CASE (\E r \in Releasers : Publish(r)) \/ WriteTombstone
  BY <1>1, <1>2 DEF Publish, WriteTombstone, RecordOK
<1>3. QED
  BY <1>2, RecordFrame

(* While it releases or buries, the harvester keeps to its instance and to *)
(* the tag it saw there, and comes there as the code says.                 *)
Settling == {"stop", "publish", "remove", "tombstone", "delist"}

(* The steps that lead to the places of a release or a burial. *)
LEMMA HarvestSeen ==
  ASSUME TypeOK, [Next]_vars, rpc'[Harvester] \in Settling
  PROVE  /\ at'[Harvester] = at[Harvester] /\ seen' = seen
         /\ \/ rpc'[Harvester] = rpc[Harvester]
            \/ Inspect /\ rpc'[Harvester] = "stop"
            \/ StopContainer(Harvester) /\ rpc'[Harvester] = "publish"
            \/ Publish(Harvester) /\ rpc'[Harvester] = "remove"
            \/ Bury /\ rpc'[Harvester] \in {"tombstone", "delist"}
            \/ WriteTombstone /\ rpc'[Harvester] = "delist"
<1>1. ReleaseOK
  BY TypeParts
<1> USE <1>1, Identities DEF ReleaseOK, Settling
<1>2. seen' = seen
  <2>1. ~(List \/ EndPass \/ ClearForHarvest)
    BY DEF List, EndPass, ClearForHarvest, RGoto
  <2>2. QED
    BY <2>1, SeenFrame
<1>3. CASE ReleaseStep(Harvester) \/ ReleaserDies(Harvester)
  BY <1>2, <1>3 DEF ReleaseStep, StopContainer, Publish, RemoveContainer,
                    ReleaseRaises, ReleaserDies, RGoto, Outside
<1>4. CASE HarvestLocal
  BY <1>2, <1>4 DEF HarvestLocal, List, EndPass, PassOver, Bury, RGoto
<1>5. CASE HarvestLocks
  BY <1>2, <1>5 DEF HarvestLocks, Visit, Inspect, Forget, ClearForHarvest,
                    Dispose, WriteTombstone, Delist, RGoto
<1>6. CASE ~ReleaserOwn(Harvester)
  BY <1>2, <1>6, ReleaserFrame
<1>7. QED
  BY <1>3, <1>4, <1>5, <1>6 DEF ReleaserOwn

(* RecordInv, for the harvester. *)
LEMMA HarvestRecordStep ==
  ASSUME TypeOK, LockInv, RecordInv, [Next]_vars
  PROVE  /\ rpc'[Harvester] \in Releasing \ {"clear"} => SeenExec' \in Executions
         /\ rpc'[Harvester] = "remove" => record'[SeenExec'] # "none"
         /\ rpc'[Harvester] = "tombstone" => SeenExec' \in Executions
         /\ rpc'[Harvester] = "delist" /\ SeenExec' # NoExec =>
              record'[SeenExec'] # "none" \/ CallsMayFail
<1>1. TagsOK /\ RecordOK /\ ReleaseOK
  BY TypeParts
<1>2. SUFFICES ASSUME rpc'[Harvester] \in Settling
               PROVE  /\ rpc'[Harvester] \in Releasing => SeenExec \in Executions
                      /\ rpc'[Harvester] = "remove" => record'[SeenExec] # "none"
                      /\ rpc'[Harvester] = "tombstone" => SeenExec \in Executions
                      /\ rpc'[Harvester] = "delist" /\ SeenExec # NoExec =>
                           record'[SeenExec] # "none" \/ CallsMayFail
  BY HarvestSeen DEF Settling, Releasing, SeenExec
<1>3. CASE rpc'[Harvester] = rpc[Harvester]
  <2>1. SeenExec \in Executions /\ record[SeenExec] # "none"
          => record'[SeenExec] # "none"
    BY RecordKept
  <2>2. rpc[Harvester] = "delist" => SeenExec \in Tags
    BY <1>1, Identities DEF LockInv, HarvestLocked, SeenExec, TagsOK
  <2>3. rpc[Harvester] = "remove" => record[SeenExec] # "none"
    BY Identities DEF RecordInv, Cached, SeenExec
  <2>4. QED
    BY <1>2, <1>3, <2>1, <2>2, <2>3 DEF RecordInv, Settling, Releasing, Tags
<1>4. CASE Inspect /\ rpc'[Harvester] = "stop"
  <2>1. rpc[Harvester] = "inspect" /\ SeenExec # NoExec
    BY <1>1, <1>4, Identities DEF Inspect, RGoto, ReleaseOK
  <2>2. SeenExec \in Tags
    BY <1>1, <2>1, Identities DEF LockInv, HarvestLocked, SeenExec, TagsOK
  <2>3. QED
    BY <1>4, <2>1, <2>2 DEF Tags
<1>5. CASE StopContainer(Harvester) /\ rpc'[Harvester] = "publish"
  BY <1>5 DEF StopContainer, RGoto, RecordInv, Releasing
<1>6. CASE Publish(Harvester) /\ rpc'[Harvester] = "remove"
  <2>1. SeenExec \in Executions
    BY <1>6 DEF Publish, RGoto, RecordInv, Releasing
  <2>2. record'[SeenExec] # "none"
    BY <1>1, <1>6, <2>1 DEF Publish, Cached, SeenExec, RecordOK
  <2>3. QED
    BY <1>6, <2>1, <2>2
<1>7. CASE Bury /\ rpc'[Harvester] \in {"tombstone", "delist"}
  <2>1. SeenExec \in Tags
    BY <1>1, <1>7, Identities DEF Bury, LockInv, HarvestLocked, SeenExec, TagsOK
  <2>2. QED
    BY <1>1, <1>7, <2>1, Identities
       DEF Bury, RGoto, Unrecorded, Tags, Releasing, RecordOK, ReleaseOK
<1>8. CASE WriteTombstone /\ rpc'[Harvester] = "delist"
  <2>1. SeenExec \in Executions
    BY <1>8 DEF WriteTombstone, RGoto, RecordInv
  <2>2. record'[SeenExec] # "none" \/ CallsMayFail
    BY <1>1, <1>8, <2>1 DEF WriteTombstone, RecordOK
  <2>3. QED
    BY <1>8, <2>1, <2>2 DEF Releasing
<1>9. QED
  BY <1>2, <1>3, <1>4, <1>5, <1>6, <1>7, <1>8, HarvestSeen

(* RecordInv, for a deleter. *)
LEMMA DeleteRecordStep ==
  ASSUME TypeOK, RecordInv, [Next]_vars, NEW e \in Executions,
         rpc'[Deleter(e)] = "remove"
  PROVE  record'[e] # "none"
<1>1. ReleaseOK /\ RecordOK
  BY TypeParts
<1>2. Deleter(e) \in Releasers /\ Cached(Deleter(e)) = e
  BY Identities DEF Cached, Deleter
<1>3. CASE rpc[Deleter(e)] = "remove"
  BY <1>2, <1>3, RecordKept DEF RecordInv
<1>4. CASE rpc[Deleter(e)] # "remove"
  <2>1. ReleaserOwn(Deleter(e))
    BY <1>2, <1>4, ReleaserFrame
  <2>2. Publish(Deleter(e))
    BY <1>1, <1>2, <1>4, <2>1, Identities
       DEF ReleaserOwn, ReleaseStep, StopContainer, RemoveContainer,
           ReleaseRaises, ReleaserDies, DeleterOwn, FindInstance, EnterRelease,
           ClearForDelete, RGoto, Outside, ReleaseOK
  <2>3. QED
    BY <1>1, <1>2, <2>2 DEF Publish, RecordOK
<1>5. QED
  BY <1>3, <1>4

(* RecordInv is kept by every step. *)
LEMMA RecordInvStep ==
  TypeOK /\ LockInv /\ RecordInv /\ [Next]_vars => RecordInv'
<1> SUFFICES ASSUME TypeOK, LockInv, RecordInv, [Next]_vars
             PROVE  RecordInv'
  OBVIOUS
<1>1. ASSUME NEW r \in Releasers, rpc'[r] = "remove"
      PROVE  record'[Cached(r)'] # "none"
  <2>1. CASE r = Harvester
    BY <1>1, <2>1, HarvestRecordStep DEF Cached, SeenExec
  <2>2. ASSUME NEW e \in Executions, r = Deleter(e)
        PROVE  record'[Cached(r)'] # "none"
    BY <1>1, <2>2, DeleteRecordStep, Identities DEF Cached, Deleter
  <2>3. QED
    BY <2>1, <2>2 DEF Releasers
<1>2. QED
  BY <1>1, HarvestRecordStep DEF RecordInv

-----------------------------------------------------------------------------
(* The inductive invariant.                                                *)
GroupInv == TypeOK /\ PlaceInv /\ LockInv /\ MarkInv /\ HomeInv /\ RecordInv

(* The inductive invariant holds at the start. *)
LEMMA GroupInit == Init => GroupInv
<1> SUFFICES ASSUME Init
             PROVE  GroupInv
  OBVIOUS
<1> USE Identities, GroupAssumption DEF Init
<1>1. TypeOK
  BY Places DEF TypeOK, Tags
<1>2. PlaceInv
  BY DEF PlaceInv, HasObject, HasData, Launching
<1>3. LockInv
  BY DEF LockInv, InLock, Launching, Releasing, HarvestLocked
<1>4. MarkInv
  BY DEF MarkInv, InLock, Launching
<1>5. HomeInv
  BY DEF HomeInv, Home
<1>6. RecordInv
  BY DEF RecordInv, Releasing
<1>7. QED
  BY <1>1, <1>2, <1>3, <1>4, <1>5, <1>6 DEF GroupInv

(* Every reachable state satisfies it. *)
THEOREM GroupInvariant == Spec => []GroupInv
<1>1. GroupInv /\ [Next]_vars => GroupInv'
  BY TypeStep, PlaceStep, LockStep, MarkStep, HomeStep, RecordInvStep DEF GroupInv
<1>2. QED
  BY <1>1, GroupInit, PTL DEF Spec

(* Between the check of EC2Instance.run and its Execution-Id tag, nobody   *)
(* but the runner gets the instance, whatever the harvester, the deleters  *)
(* and the other runners do, and although hard_unearmark_for takes no      *)
(* lock; its earmark is emptied at worst, and only where tags could not be *)
(* read again.                                                             *)
THEOREM LaunchIsSafe == Spec => []LaunchKeepsInstance
<1>1. GroupInv => LaunchKeepsInstance
  <2> SUFFICES ASSUME GroupInv, NEW e \in Executions, pc[e] \in {"launch", "tag"}
               PROVE  /\ exec[object[e]] = NoExec
                      /\ mark[object[e]] \in {NoExec, e}
                      /\ mark[object[e]] = NoExec => object[e] \in unread
    BY DEF LaunchKeepsInstance
  <2>1. object[e] \in Instances
    BY DEF GroupInv, PlaceInv, HasObject, Launching
  <2>2. QED
    BY <2>1, GroupAssumption DEF GroupInv, MarkInv, InLock, Launching
<1>2. QED
  BY <1>1, GroupInvariant, PTL

(* An execution is found on one instance at most: instance_for never meets *)
(* its ValueError.                                                         *)
THEOREM OneHome == Spec => []OneInstancePerExecution
<1>1. GroupInv => OneInstancePerExecution
  BY DEF GroupInv, HomeInv, Home, OneInstancePerExecution
<1>2. QED
  BY <1>1, GroupInvariant, PTL

(* No earmark displaces another, and only its runner takes it away, but    *)
(* where tags could not be read again after an earmark was emptied.        *)
THEOREM EarmarksAreSafe == Spec => EarmarksRespected
<1>1. GroupInv /\ [Next]_vars =>
        \A i \in Instances :
          mark[i] # NoExec /\ mark'[i] # mark[i]
            => /\ mark'[i] = NoExec
               /\ pc'[mark[i]] # pc[mark[i]] \/ i \in unread
  BY MarkChange DEF GroupInv
<1>2. QED
  BY <1>1, GroupInvariant, PTL DEF EarmarksRespected, Spec

(* Where no call fails, the harvester forgets a terminated instance only   *)
(* once the execution it saw there has results or a tombstone.             *)
THEOREM Burials ==
  ASSUME CallsMayFail = FALSE
  PROVE  Spec => BuriedIfRecorded
<1> DEFINE Buried == \A i \in Instances :
                       /\ state[i] = "terminated" /\ state'[i] = "delisted"
                       /\ seen[i] # NoExec
                       => record[seen[i]] # "none"
<1>1. GroupInv /\ [Next]_vars => Buried
  <2> SUFFICES ASSUME GroupInv, [Next]_vars, NEW i \in Instances,
                      state[i] = "terminated", state'[i] = "delisted",
                      seen[i] # NoExec
               PROVE  record[seen[i]] # "none"
    OBVIOUS
  <2>1. TagsOK
    BY TypeParts DEF GroupInv
  <2>2. ASSUME NEW e \in Executions, RunnerOwn(e)
        PROVE  FALSE
    BY <2>1, <2>2
       DEF RunnerOwn, RunnerLocal, Start, Loop, Query, Make, EarmarkRefused,
           HandOver, Probe, EnterRefused, Abandon, RunnerTags, Ask, AskAgain,
           NewInstance, Remake, Unearmark, Finish, RunnerLocks, EarmarkGranted,
           Earmark, Reread, Enter, Launch, TagExecution, Untag, RunnerRaises,
           RunnerDies, awsVars, TagsOK
  <2>3. CASE \/ \E e \in Executions : DeleterOwn(e)
             \/ \E r \in Releasers : ReleaseStep(r) \/ ReleaserDies(r)
             \/ HarvestLocal
    BY <2>3
       DEF DeleterOwn, FindInstance, EnterRelease, ClearForDelete, ReleaseStep,
           StopContainer, Publish, RemoveContainer, ReleaseRaises, ReleaserDies,
           HarvestLocal, List, EndPass, PassOver, Bury, awsVars
  <2>4. CASE Elsewhere \/ UNCHANGED vars
    BY <2>1, <2>4
       DEF Elsewhere, KillList, KillLocked, KillIdle, Boot, Interrupt,
           ContainerExits, Terminate, awsVars, vars, TagsOK
  <2>5. CASE HarvestLocks
    <3>1. Delist
      BY <2>1, <2>5
         DEF HarvestLocks, Visit, Inspect, Forget, ClearForHarvest, Dispose,
             WriteTombstone, Terminate, awsVars, TagsOK
    <3>2. rpc[Harvester] = "delist" /\ i = Mine
      BY <2>1, <3>1 DEF Delist, RGoto, TagsOK
    <3>3. QED
      BY <3>2 DEF GroupInv, RecordInv, SeenExec, Mine
  <2>6. QED
    BY <2>2, <2>3, <2>4, <2>5, Steps DEF RunnerOwn
<1>2. QED
  BY <1>1, GroupInvariant, PTL DEF BuriedIfRecorded, Spec

-----------------------------------------------------------------------------
(* The refinement of Placement.                                            *)

(* What the harvester listed, an execution that has a home elsewhere never *)
(* appears in.                                                             *)
SeenInv ==
  \A i \in Instances, e \in Executions :
    seen[i] = e => /\ pc[e] \notin Homeless
                   /\ \A j \in Instances : box[j][e] # "none" => j = i

(* There are containers on running instances only. *)
OffInv ==
  \A i \in Instances, e \in Executions :
    state[i] # "running" => box[i][e] = "none"

(* Burials are of instances that will not run again. *)
GoneInv ==
  rpc[Harvester] \in {"bury", "tombstone", "delist"}
    => state[Mine] \in {"terminated", "delisted"}

(* Who has a tombstone has no container, and will not get one. *)
TombInv ==
  \A e \in Executions :
    record[e] = "tombstone" =>
      pc[e] \notin Homeless /\ \A i \in Instances : box[i][e] = "none"

(* Who publishes has stopped what it publishes; whoever removes, too. *)
StopInv ==
  \A r \in Releasers :
    rpc[r] \in {"publish", "remove"} => box[at[r]][Cached(r)] # "running"

LifeInv == SeenInv /\ OffInv /\ GoneInv /\ TombInv /\ StopInv

-----------------------------------------------------------------------------
(* A container appears by the launch of its execution only. *)
LEMMA BoxGrows ==
  ASSUME TypeOK, [Next]_vars, NEW i \in Instances, NEW e \in Executions,
         box[i][e] = "none", box'[i][e] # "none"
  PROVE  Launch(e) /\ i = object[e]
<1>1. TagsOK /\ LocalsOK /\ BoxOK /\ ReleaseOK
  BY TypeParts
<1>2. ASSUME NEW f \in Executions, Launch(f)
      PROVE  f = e /\ i = object[e]
  BY <1>1, <1>2 DEF Launch, SetBox, BoxOK
<1>3. ASSUME NEW r \in Releasers, StopContainer(r) \/ RemoveContainer(r)
      PROVE  FALSE
  BY <1>1, <1>3 DEF StopContainer, RemoveContainer, Reachable, SetBox, BoxOK
<1>4. ASSUME NEW j \in Instances, NEW f \in Executions, ContainerExits(j, f)
      PROVE  FALSE
  BY <1>1, <1>4 DEF ContainerExits, SetBox, BoxOK
<1>5. ASSUME NEW j \in Instances \cup {Mine}, Terminate(j)
      PROVE  FALSE
  BY <1>1, <1>5 DEF Terminate, BoxOK
<1>6. QED
  BY <1>2, <1>3, <1>4, <1>5, BoxFrame

(* An execution that was at home once has no container it had not before.  *)
LEMMA NoNewHome ==
  ASSUME TypeOK, [Next]_vars, NEW e \in Executions, pc[e] \notin Homeless
  PROVE  /\ pc'[e] \notin Homeless
         /\ \A i \in Instances : box[i][e] = "none" => box'[i][e] = "none"
<1>1. ~Launch(e)
  BY Places DEF Launch, Goto, Homeless
<1>2. QED
  BY <1>1, BoxGrows, Homeward

(* An instance that runs stops to by being terminated or delisted. *)
LEMMA StateChange ==
  ASSUME TypeOK, [Next]_vars, NEW i \in Instances, state'[i] # state[i]
  PROVE  \/ Terminate(i)
         \/ Delist /\ i = Mine
         \/ state[i] \in {"absent", "pending"}
<1>1. TagsOK
  BY TypeParts
<1>2. ASSUME NEW e \in Executions, RunnerOwn(e)
      PROVE  state[i] = "absent"
  BY <1>1, <1>2
     DEF RunnerOwn, RunnerLocal, Start, Loop, Query, Make, EarmarkRefused,
         HandOver, Probe, EnterRefused, Abandon, RunnerTags, Ask, AskAgain,
         NewInstance, Remake, Unearmark, Finish, RunnerLocks, EarmarkGranted,
         Earmark, Reread, Enter, Launch, TagExecution, Untag, RunnerRaises, RunnerDies,
         awsVars, TagsOK
<1>3. CASE \/ \E e \in Executions : DeleterOwn(e)
           \/ \E r \in Releasers : ReleaseStep(r) \/ ReleaserDies(r)
           \/ HarvestLocal
  BY <1>3
     DEF DeleterOwn, FindInstance, EnterRelease, ClearForDelete, ReleaseStep,
         StopContainer, Publish, RemoveContainer, ReleaseRaises, ReleaserDies,
         HarvestLocal, List, EndPass, PassOver, Bury, awsVars
<1>4. CASE HarvestLocks
  BY <1>1, <1>4
     DEF HarvestLocks, Visit, Inspect, Forget, ClearForHarvest, Dispose,
         WriteTombstone, Delist, Terminate, awsVars, TagsOK
<1>5. CASE Elsewhere \/ UNCHANGED vars
  BY <1>1, <1>5
     DEF Elsewhere, KillList, KillLocked, KillIdle, Boot, Interrupt,
         ContainerExits, Terminate, awsVars, vars, TagsOK
<1>6. QED
  BY <1>2, <1>3, <1>4, <1>5, Steps DEF RunnerOwn

-----------------------------------------------------------------------------
(* SeenInv is kept: what is listed is where it was. *)
LEMMA SeenStep == GroupInv /\ SeenInv /\ [Next]_vars => SeenInv'
<1> SUFFICES ASSUME GroupInv, SeenInv, [Next]_vars,
                    NEW i \in Instances, NEW e \in Executions, seen'[i] = e
             PROVE  /\ pc'[e] \notin Homeless
                    /\ \A j \in Instances : box'[j][e] # "none" => j = i
  BY DEF SeenInv
<1>1. TypeOK /\ TagsOK /\ HomeInv /\ e # NoExec
  BY TypeParts, GroupAssumption DEF GroupInv
<1>2. CASE seen[i] = e
  BY <1>1, <1>2, NoNewHome DEF SeenInv
<1>3. CASE seen[i] # e
  <2>1. List /\ exec[i] = e
    BY <1>1, <1>3, SeenFrame DEF List, EndPass, ClearForHarvest, TagsOK
  <2>2. Home(i, e) /\ pc' = pc /\ box' = box
    BY <2>1 DEF List, Home, runnerVars
  <2>3. QED
    BY <1>1, <2>2 DEF HomeInv, Home
<1>4. QED
  BY <1>2, <1>3

(* OffInv is kept: nothing survives the end of an instance. *)
LEMMA OffStep == GroupInv /\ OffInv /\ GoneInv /\ [Next]_vars => OffInv'
<1> SUFFICES ASSUME GroupInv, OffInv, GoneInv, [Next]_vars,
                    NEW i \in Instances, NEW e \in Executions,
                    state'[i] # "running", box'[i][e] # "none"
             PROVE  FALSE
  BY DEF OffInv
<1>1. TypeOK /\ TagsOK /\ BoxOK
  BY TypeParts DEF GroupInv
<1>2. CASE box[i][e] = "none"
  BY <1>1, <1>2, BoxGrows DEF Launch, awsVars
<1>3. CASE box[i][e] # "none"
  <2>1. state[i] = "running"
    BY <1>3 DEF OffInv
  <2>2. ~Terminate(i)
    BY <1>1 DEF Terminate, BoxOK
  <2>3. Delist /\ i = Mine
    BY <1>1, <2>1, <2>2, StateChange
  <2>4. QED
    BY <2>1, <2>3 DEF Delist, RGoto, GoneInv
<1>4. QED
  BY <1>2, <1>3

(* GoneInv is kept: a terminated instance stays so under a burial. *)
LEMMA GoneStep == GroupInv /\ GoneInv /\ [Next]_vars => GoneInv'
<1> SUFFICES ASSUME GroupInv, GoneInv, [Next]_vars,
                    rpc'[Harvester] \in {"bury", "tombstone", "delist"}
             PROVE  state'[Mine'] \in {"terminated", "delisted"}
  BY DEF GoneInv
<1>1. TypeOK /\ TagsOK /\ ReleaseOK /\ LockInv
  BY TypeParts DEF GroupInv
<1>2. CASE Mine' = Mine /\ rpc[Harvester] \in {"bury", "tombstone", "delist"}
  <2>1. Mine \in Instances /\ state[Mine] \in {"terminated", "delisted"}
    BY <1>1, <1>2, Identities DEF GoneInv, LockInv, HarvestLocked, Mine
  <2>2. state'[Mine] = state[Mine] \/ Terminate(Mine) \/ Delist
    BY <1>1, <2>1, StateChange
  <2>3. state'[Mine] \in {"terminated", "delisted"}
    BY <1>1, <2>1, <2>2 DEF Terminate, Delist, TagsOK
  <2>4. QED
    BY <1>2, <2>3
<1>3. CASE rpc'[Harvester] \in {"tombstone", "delist"}
  <2>1. Mine' = Mine
    BY <1>1, <1>3, HarvestSeen DEF Settling, Mine
  <2>2. rpc[Harvester] \in {"bury", "tombstone", "delist"}
    BY <1>1, <1>3, HarvestSeen DEF Settling, Bury, WriteTombstone, RGoto
  <2>3. QED
    BY <1>2, <2>1, <2>2
<1>4. CASE rpc'[Harvester] = "bury" /\ ~ReleaserOwn(Harvester)
  <2>1. Mine' = Mine /\ rpc[Harvester] = "bury"
    BY <1>1, <1>4, ReleaserFrame, Identities DEF Mine
  <2>2. QED
    BY <1>2, <2>1
<1>5. CASE rpc'[Harvester] = "bury" /\ ReleaserOwn(Harvester)
  <2>1. PICK i \in Instances : Visit(i)
    <3>1. ~ReleaseStep(Harvester) /\ ~ReleaserDies(Harvester)
      BY <1>1, <1>5, Identities
         DEF ReleaseStep, StopContainer, Publish, RemoveContainer,
             ReleaseRaises, ReleaserDies, RGoto, Outside, ReleaseOK
    <3>2. ~(List \/ EndPass \/ Bury \/ Inspect \/ Forget \/ ClearForHarvest
              \/ Dispose \/ WriteTombstone \/ Delist)
      BY <1>1, <1>5, Identities
         DEF List, EndPass, Bury, Inspect, Forget, ClearForHarvest, Dispose,
             WriteTombstone, Delist, RGoto, ReleaseOK
    <3>3. CASE \E i \in Instances : PassOver(i)
      BY <1>5, <3>3 DEF PassOver
    <3>4. QED
      BY <1>5, <3>1, <3>2, <3>3, Identities DEF ReleaserOwn, HarvestLocal, HarvestLocks
  <2>2. Mine' = i /\ state[i] = "terminated" /\ state' = state
    BY <1>1, <1>5, <2>1, Identities DEF Visit, RGoto, ReleaseOK, Mine, awsVars
  <2>3. QED
    BY <2>2
<1>6. QED
  BY <1>3, <1>4, <1>5

(* What a tombstone is written for. *)
LEMMA Entombed ==
  ASSUME GroupInv, SeenInv, OffInv, GoneInv, WriteTombstone
  PROVE  /\ SeenExec \in Executions /\ pc[SeenExec] \notin Homeless
         /\ \A i \in Instances : box[i][SeenExec] = "none"
<1>1. rpc[Harvester] = "tombstone" /\ LockInv /\ RecordInv
  BY DEF GroupInv, WriteTombstone, RGoto
<1>2. SeenExec \in Executions /\ Mine \in Instances /\ SeenExec = seen[Mine]
  BY <1>1, Identities DEF RecordInv, LockInv, HarvestLocked, Mine, SeenExec
<1>3. state[Mine] # "running"
  BY <1>1 DEF GoneInv
<1>4. QED
  BY <1>2, <1>3 DEF SeenInv, OffInv

(* TombInv is kept. *)
LEMMA TombStep == GroupInv /\ LifeInv /\ [Next]_vars => TombInv'
<1> SUFFICES ASSUME GroupInv, LifeInv, [Next]_vars, NEW e \in Executions,
                    record'[e] = "tombstone"
             PROVE  pc'[e] \notin Homeless /\ \A i \in Instances : box'[i][e] = "none"
  BY DEF TombInv
<1>1. TypeOK /\ RecordOK
  BY TypeParts DEF GroupInv
<1>2. CASE record[e] = "tombstone"
  BY <1>1, <1>2, NoNewHome DEF LifeInv, TombInv
<1>3. CASE record[e] # "tombstone"
  <2>1. ASSUME NEW r \in Releasers, Publish(r)
        PROVE  FALSE
    BY <1>1, <1>3, <2>1 DEF Publish, RecordOK
  <2>2. WriteTombstone
    BY <1>3, <2>1, RecordFrame
  <2>3. SeenExec = e /\ pc' = pc /\ box' = box
    BY <1>1, <1>3, <2>2 DEF WriteTombstone, RecordOK, runnerVars
  <2>4. QED
    BY <2>2, <2>3, Entombed DEF LifeInv
<1>4. QED
  BY <1>2, <1>3

(* Nothing but its launch makes a process run. *)
LEMMA BoxStarts ==
  ASSUME TypeOK, [Next]_vars, NEW i \in Instances, NEW e \in Executions,
         box[i][e] # "running", box'[i][e] = "running"
  PROVE  Launch(e) /\ i = object[e]
<1>1. BoxOK
  BY TypeParts
<1>2. ASSUME NEW f \in Executions, Launch(f)
      PROVE  f = e /\ i = object[e]
  BY <1>1, <1>2 DEF Launch, SetBox, BoxOK
<1>3. ASSUME NEW r \in Releasers, StopContainer(r) \/ RemoveContainer(r)
      PROVE  FALSE
  BY <1>1, <1>3 DEF StopContainer, RemoveContainer, SetBox, BoxOK
<1>4. ASSUME NEW j \in Instances, NEW f \in Executions, ContainerExits(j, f)
      PROVE  FALSE
  BY <1>1, <1>4 DEF ContainerExits, SetBox, BoxOK
<1>5. ASSUME NEW j \in Instances \cup {Mine}, Terminate(j)
      PROVE  FALSE
  BY <1>1, <1>5 DEF Terminate, BoxOK
<1>6. QED
  BY <1>2, <1>3, <1>4, <1>5, BoxFrame

(* StopInv is kept: who launches has the lock, so that a releaser on the   *)
(* same instance has not.                                                  *)
LEMMA StopStep == GroupInv /\ StopInv /\ [Next]_vars => StopInv'
<1> SUFFICES ASSUME GroupInv, StopInv, [Next]_vars, NEW r \in Releasers,
                    rpc'[r] \in {"publish", "remove"}
             PROVE  box'[at'[r]][Cached(r)'] # "running"
  BY DEF StopInv
<1>1. TypeOK /\ BoxOK /\ ReleaseOK /\ LockInv /\ RecordInv
  BY TypeParts DEF GroupInv
<1>2. ASSUME rpc[r] \in Releasing \ {"clear"}
      PROVE  /\ at[r] \in Instances /\ lock[at[r]] = r
             /\ Cached(r) \in Executions
  BY <1>1, <1>2, Identities
     DEF LockInv, RecordInv, Cached, SeenExec, Releasers, Deleter
<1>3. CASE StopContainer(r)
  <2>1. Cached(r)' = Cached(r) /\ at' = at /\ rpc[r] = "stop"
    BY <1>3 DEF StopContainer, RGoto, Cached
  <2>2. box'[at[r]][Cached(r)] = "exited"
    BY <1>1, <1>2, <1>3, <2>1 DEF StopContainer, SetBox, BoxOK, Releasing
  <2>3. QED
    BY <2>1, <2>2
<1>4. CASE ~StopContainer(r)
  <2>1. /\ at'[r] = at[r] /\ Cached(r)' = Cached(r)
        /\ rpc[r] \in {"publish", "remove"}
    <3>1. CASE r = Harvester
      <4>1. at'[r] = at[r] /\ seen' = seen
        BY <1>1, <3>1, HarvestSeen DEF Settling
      <4>2. rpc[r] \in {"publish", "remove"}
        BY <1>1, <1>4, <3>1, HarvestSeen DEF Settling, Publish, RGoto
      <4>3. QED
        BY <3>1, <4>1, <4>2 DEF Cached
    <3>2. CASE r # Harvester /\ ReleaserOwn(r)
      BY <1>1, <1>4, <3>2, Identities
         DEF ReleaserOwn, ReleaseStep, Publish, RemoveContainer, ReleaseRaises,
             ReleaserDies, DeleterOwn, FindInstance, EnterRelease,
             ClearForDelete, RGoto, Outside, ReleaseOK, Cached
    <3>3. CASE r # Harvester /\ ~ReleaserOwn(r)
      BY <1>1, <3>3, ReleaserFrame DEF Cached
    <3>4. QED
      BY <3>1, <3>2, <3>3
  <2>2. /\ at[r] \in Instances /\ lock[at[r]] = r
        /\ Cached(r) \in Executions /\ box[at[r]][Cached(r)] # "running"
    BY <1>2, <2>1 DEF Releasing, StopInv
  <2>3. SUFFICES ASSUME box'[at[r]][Cached(r)] = "running"
                 PROVE  FALSE
    BY <2>1
  <2>4. PICK e \in Executions : e = Cached(r) /\ Launch(e) /\ at[r] = object[e]
    BY <1>1, <2>2, <2>3, BoxStarts
  <2>5. lock[at[r]] = Runner(e)
    BY <1>1, <2>4 DEF Launch, Goto, LockInv, InLock, Launching
  <2>6. QED
    BY <2>2, <2>5, Identities
<1>5. QED
  BY <1>3, <1>4

(* The invariants hold together. *)
LEMMA LifeInvariant == Spec => [](GroupInv /\ LifeInv)
<1>1. Init => LifeInv
  BY GroupAssumption, Identities
     DEF Init, LifeInv, SeenInv, OffInv, GoneInv, TombInv, StopInv
<1>2. GroupInv /\ LifeInv /\ [Next]_vars => LifeInv'
  BY SeenStep, OffStep, GoneStep, TombStep, StopStep DEF LifeInv
<1>3. QED
  BY <1>1, <1>2, GroupInvariant, PTL DEF Spec

-----------------------------------------------------------------------------
(* The steps of runners, as Placement sees them.                           *)
Waiting == {e \in Executions : pc[e] \in Homeless}
On == [e \in Executions |-> {i \in Instances : box[i][e] # "none"}]
Up == {e \in Executions : \E i \in Instances : e \in Running(i)}

(* Runners move one at a time, and only a launch does anything else that   *)
(* Placement sees.                                                         *)
LEMMA PcFrame ==
  ASSUME TypeOK, [Next]_vars, pc' # pc
  PROVE  \E e \in Executions :
           /\ \A f \in Executions \ {e} : pc'[f] = pc[f]
           /\ record' = record
           /\ Launch(e) \/ box' = box
<1>1. PcOK
  BY TypeParts
<1>2. ASSUME NEW e \in Executions, RunnerOwn(e)
      PROVE  /\ \A f \in Executions \ {e} : pc'[f] = pc[f]
             /\ record' = record
             /\ Launch(e) \/ box' = box
  BY <1>1, <1>2
     DEF RunnerOwn, RunnerLocal, Start, Loop, Query, Make, EarmarkRefused,
         HandOver, Probe, EnterRefused, Abandon, RunnerTags, Ask, AskAgain,
         NewInstance, Remake, Unearmark, Finish, RunnerLocks, EarmarkGranted,
         Earmark, Reread, Enter, Launch, TagExecution, Untag, RunnerRaises, RunnerDies,
         Goto, PcOK
<1>3. CASE \/ \E e \in Executions : DeleterOwn(e)
           \/ \E r \in Releasers : ReleaseStep(r) \/ ReleaserDies(r)
           \/ HarvestLocal \/ HarvestLocks \/ Elsewhere \/ UNCHANGED vars
  BY <1>3
     DEF DeleterOwn, FindInstance, EnterRelease, ClearForDelete, ReleaseStep,
         StopContainer, Publish, RemoveContainer, ReleaseRaises, ReleaserDies,
         HarvestLocal, List, EndPass, PassOver, Bury, HarvestLocks, Visit,
         Inspect, Forget, ClearForHarvest, Dispose, WriteTombstone, Delist,
         Elsewhere, KillList, KillLocked, KillIdle, Boot, Interrupt,
         ContainerExits, runnerVars, vars
<1>4. QED
  BY <1>2, <1>3, Steps DEF RunnerOwn

(* A launch puts an execution that waits on the instance of its runner.    *)
LEMMA LaunchPlaces ==
  ASSUME GroupInv, NEW e \in Executions, Launch(e),
         \A f \in Executions \ {e} : pc'[f] = pc[f], record' = record
  PROVE  \E i \in Instances : Abstract!Place(e, i)
<1>1. /\ PcOK /\ BoxOK /\ HomeInv /\ pc[e] = "launch" /\ object[e] \in Instances
  BY TypeParts DEF GroupInv, PlaceInv, HasObject, Launching, Launch, Goto
<1> SUFFICES ASSUME NEW k \in Instances, k = object[e]
             PROVE  Abstract!Place(e, k)
  BY <1>1
<1>2. pc[e] \in Homeless /\ pc'[e] \notin Homeless
  BY <1>1, Places DEF Launch, Goto, PcOK, Homeless
<1>3. Waiting' = Waiting \ {e} /\ e \in Waiting
  BY <1>2 DEF Waiting
<1>4. \A i \in Instances : box[i][e] = "none"
  BY <1>1, <1>2 DEF HomeInv, Home
<1>5. On' = [On EXCEPT ![e] = {k}]
  <2>1. \A i \in Instances, f \in Executions :
          box'[i][f] = IF i = k /\ f = e THEN "running" ELSE box[i][f]
    BY <1>1 DEF Launch, SetBox, BoxOK
  <2>2. \A f \in Executions : {i \in Instances : box'[i][f] # "none"}
          = IF f = e THEN {k} ELSE {i \in Instances : box[i][f] # "none"}
    BY <1>1, <1>4, <2>1
  <2>3. QED
    BY <2>2 DEF On
<1>6. Up' = Up \cup {e}
  <2>1. \A i \in Instances, f \in Executions :
          box'[i][f] = IF i = k /\ f = e THEN "running" ELSE box[i][f]
    BY <1>1 DEF Launch, SetBox, BoxOK
  <2>2. QED
    BY <1>4, <2>1 DEF Up, Running
<1>7. QED
  BY <1>1, <1>3, <1>5, <1>6 DEF Abstract!Place, Waiting, On, Up

(* A release that removes a container has recorded its results.            *)
LEMMA RemoveRemoves ==
  ASSUME GroupInv, LifeInv, NEW r \in Releasers, RemoveContainer(r)
  PROVE  \E e \in Executions : Abstract!Remove(e)
<1>1. /\ BoxOK /\ RecordOK /\ HomeInv /\ RecordInv /\ LockInv /\ rpc[r] = "remove"
  BY TypeParts DEF GroupInv, RemoveContainer, RGoto
<1>2. Cached(r) \in Executions
  BY <1>1, Identities DEF Cached, RecordInv, SeenExec, Releasing, Releasers, Deleter
<1> SUFFICES ASSUME NEW e \in Executions, e = Cached(r)
             PROVE  Abstract!Remove(e)
  BY <1>2
<1>3. at[r] \in Instances /\ box[at[r]][e] # "none"
  BY <1>1 DEF RemoveContainer, Reachable, LockInv, Releasing
<1>4. record[e] = "results"
  BY <1>1, <1>2, <1>3 DEF RecordInv, RecordOK, LifeInv, TombInv
<1>5. \A i \in Instances : box[i][e] # "none" => i = at[r]
  BY <1>1, <1>2, <1>3 DEF HomeInv, Home
<1>6. On' = [On EXCEPT ![e] = {}]
  <2>1. \A i \in Instances, f \in Executions :
          box'[i][f] = IF i = at[r] /\ f = e THEN "none" ELSE box[i][f]
    BY <1>1, <1>2, <1>3 DEF RemoveContainer, SetBox, BoxOK
  <2>2. \A f \in Executions : {i \in Instances : box'[i][f] # "none"}
          = IF f = e THEN {} ELSE {i \in Instances : box[i][f] # "none"}
    BY <1>5, <2>1
  <2>3. QED
    BY <2>2 DEF On
<1>7. Waiting' = Waiting /\ record' = record
  BY DEF RemoveContainer, Waiting, runnerVars
<1>8. Up' = Up /\ e \notin Up
  <2>1. box[at[r]][e] # "running"
    BY <1>1 DEF LifeInv, StopInv
  <2>2. \A i \in Instances, f \in Executions :
          box'[i][f] = IF i = at[r] /\ f = e THEN "none" ELSE box[i][f]
    BY <1>1, <1>2, <1>3 DEF RemoveContainer, SetBox, BoxOK
  <2>3. QED
    BY <1>5, <2>1, <2>2 DEF Up, Running
<1>9. QED
  BY <1>2, <1>4, <1>6, <1>7, <1>8 DEF Abstract!Remove, Waiting, On, Up

(* Other changes to containers: their exits, and the ends of instances.    *)
LEMMA BoxesChange ==
  ASSUME GroupInv, LifeInv, [Next]_vars, box' # box,
         Waiting' = Waiting, record' = record
  PROVE  Abstract!Next \/ (On' = On /\ Up' = Up)
<1>1. TypeOK /\ BoxOK /\ TagsOK /\ RecordInv /\ LockInv /\ HomeInv
  BY TypeParts DEF GroupInv
<1>2. ASSUME NEW e \in Executions, Launch(e)
      PROVE  FALSE
  <2>1. pc[e] = "launch" /\ pc'[e] = "tag"
    BY <1>1, <1>2, TypeParts DEF Launch, Goto, PcOK
  <2>2. QED
    BY <2>1, Places DEF Waiting, Homeless
<1>3. ASSUME NEW j, NEW e, SetBox(j, e, "exited"), box[j][e] # "none"
      PROVE  Abstract!Next \/ (On' = On /\ Up' = Up)
  <2>1. /\ j \in Instances /\ e \in Executions
        /\ \A i \in Instances, f \in Executions :
             box'[i][f] = IF i = j /\ f = e THEN "exited" ELSE box[i][f]
    BY <1>1, <1>3 DEF SetBox, BoxOK
  <2>2. On' = On
    BY <1>3, <2>1 DEF On
  <2>3. Up' = Up \ {e}
    <3>1. \A i \in Instances : box[i][e] # "none" => i = j
      BY <1>1, <1>3, <2>1 DEF HomeInv, Home
    <3>2. QED
      BY <2>1, <3>1 DEF Up, Running
  <2>4. QED
    BY <2>1, <2>2, <2>3 DEF Abstract!Next, Abstract!End, Waiting, On, Up
<1>4. ASSUME \/ \E r \in Releasers : StopContainer(r)
             \/ \E i \in Instances, e \in Executions : ContainerExits(i, e)
      PROVE  Abstract!Next \/ (On' = On /\ Up' = Up)
  BY <1>3, <1>4 DEF StopContainer, Reachable, ContainerExits
<1>5. ASSUME NEW r \in Releasers, RemoveContainer(r)
      PROVE  Abstract!Next
  <2>1. \E e \in Executions : Abstract!Remove(e)
    BY <1>5, RemoveRemoves
  <2>2. QED
    BY <2>1 DEF Abstract!Next
<1>6. ASSUME NEW j \in Instances \cup {Mine}, Terminate(j)
      PROVE  Abstract!Next
  <2>1. j \in Instances
    BY <1>1, <1>6 DEF Terminate, BoxOK
  <2>2. \A i \in Instances, f \in Executions :
          box'[i][f] = IF i = j THEN "none" ELSE box[i][f]
    BY <1>1, <1>6, <2>1 DEF Terminate, BoxOK
  <2>3. \A f \in Executions : {i \in Instances : box'[i][f] # "none"}
          = {i \in Instances : box[i][f] # "none"} \ {j}
    BY <2>2
  <2>4. On' = [f \in Executions |-> On[f] \ {j}]
    BY <2>3 DEF On
  <2>5. ASSUME NEW f \in Executions, NEW i \in Instances, NEW k \in Instances,
               box[i][f] = "running", box'[k][f] # "none"
        PROVE  box'[i][f] = "running"
    <3>1. k # j /\ box[k][f] # "none"
      BY <2>2, <2>5
    <3>2. k = i
      BY <1>1, <2>5, <3>1 DEF HomeInv, Home
    <3>3. QED
      BY <2>2, <2>5, <3>1, <3>2
  <2>6. Up' = {f \in Up : On'[f] # {}}
    <3>1. \A f \in Executions : f \in Up' => f \in Up /\ On'[f] # {}
      BY <2>2 DEF Up, Running, On
    <3>2. \A f \in Executions : f \in Up /\ On'[f] # {} => f \in Up'
      BY <2>5 DEF Up, Running, On
    <3>3. QED
      BY <3>1, <3>2 DEF Up
  <2>7. QED
    BY <2>1, <2>4, <2>6 DEF Abstract!Next, Abstract!Lose, Waiting, On, Up
<1>7. QED
  BY <1>2, <1>4, <1>5, <1>6, BoxFrame

(* Changes to the records. *)
LEMMA RecordsChange ==
  ASSUME GroupInv, LifeInv, [Next]_vars, record' # record
  PROVE  Abstract!Next
<1>1. TypeOK /\ RecordOK /\ LockInv /\ RecordInv /\ BoxOK /\ HomeInv
  BY TypeParts DEF GroupInv
<1>2. ASSUME NEW r \in Releasers, Publish(r)
      PROVE  Abstract!Next
  <2> DEFINE e == Cached(r)
  <2>1. rpc[r] = "publish" /\ at[r] \in Instances
    BY <1>1, <1>2 DEF Publish, RGoto, LockInv, Releasing
  <2>2. e \in Executions
    BY <1>1, <2>1, Identities DEF Cached, RecordInv, SeenExec, Releasing, Releasers, Deleter
  <2>3. record[e] = "none" /\ record' = [record EXCEPT ![e] = "results"]
    BY <1>1, <1>2, <2>2 DEF Publish, RecordOK
  <2>4. at[r] \in On[e] /\ On' = On /\ Waiting' = Waiting /\ Up' = Up
    BY <1>2, <2>1, <2>2 DEF Publish, Reachable, On, Waiting, runnerVars, Up, Running
  <2>5. e \notin Up
    <3>1. box[at[r]][e] # "running"
      BY <2>1 DEF LifeInv, StopInv
    <3>2. \A i \in Instances : box[i][e] # "none" => i = at[r]
      BY <1>1, <2>1, <2>2, <2>4 DEF HomeInv, Home, On
    <3>3. QED
      BY <3>1, <3>2 DEF Up, Running
  <2>6. QED
    BY <2>2, <2>3, <2>4, <2>5 DEF Abstract!Next, Abstract!Publish, Waiting, On, Up
<1>3. CASE WriteTombstone
  <2>1. /\ SeenExec \in Executions /\ SeenExec \notin Waiting
        /\ On[SeenExec] = {}
    BY <1>3, Entombed DEF LifeInv, Waiting, On
  <2>2. record[SeenExec] = "none" /\ record' = [record EXCEPT ![SeenExec] = "tombstone"]
    BY <1>1, <1>3, <2>1 DEF WriteTombstone, RecordOK
  <2>3. On' = On /\ Waiting' = Waiting /\ Up' = Up
    BY <1>3 DEF WriteTombstone, On, Waiting, runnerVars, Up, Running
  <2>4. QED
    BY <2>1, <2>2, <2>3 DEF Abstract!Next, Abstract!Bury, Waiting, On, Up
<1>4. QED
  BY <1>2, <1>3, RecordFrame

(* The steps of runners: a launch, the end of a wait, or nothing.          *)
LEMMA RunnersMove ==
  ASSUME GroupInv, [Next]_vars, pc' # pc
  PROVE  \/ Abstract!Next
         \/ Waiting' = Waiting /\ On' = On /\ Up' = Up /\ record' = record
<1>1. PICK e \in Executions : /\ \A f \in Executions \ {e} : pc'[f] = pc[f]
                              /\ record' = record
                              /\ Launch(e) \/ box' = box
  BY PcFrame DEF GroupInv
<1>2. CASE Launch(e)
  <2>1. \E i \in Instances : Abstract!Place(e, i)
    BY <1>1, <1>2, LaunchPlaces
  <2>2. QED
    BY <2>1 DEF Abstract!Next
<1>3. CASE box' = box
  <2>1. On' = On /\ Up' = Up
    BY <1>3 DEF On, Up, Running
  <2>2. Waiting' = Waiting \/ Waiting' = Waiting \ {e}
    BY <1>1, Homeward DEF Waiting, GroupInv
  <2>3. QED
    BY <1>1, <2>1, <2>2 DEF Abstract!Next, Abstract!GiveUp, Waiting, On, Up
<1>4. QED
  BY <1>1, <1>2, <1>3

(* AbstractSpec: the instance group implements Placement. *)
THEOREM Refinement == Spec => AbstractSpec
<1>1. Init => Abstract!Init
  <2> SUFFICES ASSUME Init
               PROVE  /\ Waiting = Executions /\ On = [e \in Executions |-> {}]
                      /\ Up = {} /\ record = [e \in Executions |-> "none"]
    BY DEF Abstract!Init, Waiting, On, Up
  <2>1. "new" \in Homeless
    BY Places DEF Homeless
  <2>2. QED
    BY <2>1 DEF Init, Waiting, On, Up, Running
<1>2. GroupInv /\ LifeInv /\ [Next]_vars => [Abstract!Next]_(Abstract!vars)
  <2> SUFFICES ASSUME GroupInv, LifeInv, [Next]_vars
               PROVE  \/ Abstract!Next
                      \/ /\ Waiting' = Waiting /\ On' = On
                         /\ Up' = Up /\ record' = record
    BY DEF Abstract!vars, Waiting, On, Up
  <2>1. CASE pc' # pc
    BY <2>1, RunnersMove
  <2>2. CASE record' # record
    BY <2>2, RecordsChange
  <2>3. CASE pc' = pc /\ record' = record /\ box' # box
    BY <2>3, BoxesChange DEF Waiting
  <2>4. CASE pc' = pc /\ record' = record /\ box' = box
    BY <2>4 DEF Waiting, On, Up, Running
  <2>5. QED
    BY <2>1, <2>2, <2>3, <2>4
<1>3. QED
  BY <1>1, <1>2, LifeInvariant, PTL DEF Spec, AbstractSpec, Abstract!Spec
-----------------------------------------------------------------------------
(* What runs is what the tag says, as long as nothing is deleted.          *)

(* What a container can be told from: the tag, its runner on the way to    *)
(* it, or a lock that nobody will give back.                               *)
Labelled ==
  \A i \in Instances, e \in Executions :
    box[i][e] # "none" =>
      exec[i] = e \/ (pc[e] = "tag" /\ object[e] = i) \/ lock[i] = Orphan
Alone ==
  \A i \in Instances, e, f \in Executions :
    box[i][e] # "none" /\ box[i][f] # "none" => e = f

(* A tag the harvester read at the start of its pass is still the tag when *)
(* it comes to act on it, and the container of it is gone by the time the  *)
(* harvester empties it.                                                   *)
Under(i) == i \in todo \/ (rpc[Harvester] \in Inside /\ i = Mine)
AsSeen == \A i \in Instances : Under(i) /\ seen[i] # NoExec => exec[i] = seen[i]
Emptying == {"forget", "clear"}
Emptied ==
  rpc[Harvester] \in Emptying => SeenExec # NoExec /\ box[Mine][SeenExec] = "none"
Visited == rpc[Harvester] \in Inside => Mine \notin todo

LabelInv == Labelled /\ Alone /\ AsSeen /\ Emptied /\ Visited
TagInv == NothingDeleted => LabelInv

(* Who has not been deleted was not deleted before, and nobody is about to *)
(* release it.                                                             *)
LEMMA Undeleted ==
  ASSUME GroupInv, [Next]_vars, NothingDeleted'
  PROVE  /\ NothingDeleted
         /\ \A r \in Releasers \ {Harvester} : rpc[r] \notin Inside
<1>1. TypeOK /\ ReleaseOK /\ LockInv
  BY TypeParts DEF GroupInv
<1>2. ASSUME NEW e \in Executions PROVE at[Deleter(e)] = NoInst
  <2>1. at'[Deleter(e)] = NoInst /\ Deleter(e) \in Releasers
    BY Identities DEF NothingDeleted
  <2>2. CASE ReleaseStep(Deleter(e)) \/ ReleaserDies(Deleter(e))
    BY <2>1, <2>2
       DEF ReleaseStep, StopContainer, Publish, RemoveContainer, ReleaseRaises,
           ReleaserDies
  <2>3. ASSUME NEW f \in Executions, Deleter(e) = Deleter(f), DeleterOwn(f)
        PROVE  at[Deleter(e)] = NoInst
    BY <1>1, <2>1, <2>3, GroupAssumption
       DEF DeleterOwn, FindInstance, EnterRelease, ClearForDelete, Listed, ReleaseOK
  <2>4. CASE ~ReleaserOwn(Deleter(e))
    BY <1>1, <2>1, <2>4, ReleaserFrame
  <2>5. QED
    BY <2>2, <2>3, <2>4, Identities DEF ReleaserOwn
<1>3. ASSUME NEW r \in Releasers \ {Harvester}, rpc[r] \in Inside PROVE FALSE
  <2>1. PICK e \in Executions : r = Deleter(e)
    BY DEF Releasers
  <2>2. at[r] \in Instances
    BY <1>1, <1>3 DEF LockInv, Inside
  <2>3. QED
    BY <1>2, <2>1, <2>2, GroupAssumption
<1>4. QED
  BY <1>2, <1>3 DEF NothingDeleted

(* The harvester's pass: what is still to visit, and who is being visited. *)
LEMMA PassStep ==
  ASSUME TypeOK, [Next]_vars
  PROVE  /\ List \/ todo' \subseteq todo
         /\ rpc'[Harvester] \in Inside =>
              \/ rpc[Harvester] \in Inside /\ at'[Harvester] = at[Harvester]
              \/ \E i \in Instances : Visit(i)
         /\ rpc'[Harvester] \in Emptying =>
              \/ /\ rpc'[Harvester] = rpc[Harvester]
                 /\ at'[Harvester] = at[Harvester]
              \/ Inspect /\ rpc'[Harvester] = "forget"
              \/ RemoveContainer(Harvester)
<1>1. ReleaseOK
  BY TypeParts
<1> USE <1>1, Identities DEF ReleaseOK
<1>2. List \/ todo' \subseteq todo
  <2>1. ASSUME NEW e \in Executions, RunnerOwn(e) \/ DeleterOwn(e)
        PROVE  todo' = todo
    BY <2>1
       DEF RunnerOwn, RunnerLocal, Start, Loop, Query, Make, EarmarkRefused,
           HandOver, Probe, EnterRefused, Abandon, RunnerTags, Ask, AskAgain,
           NewInstance, Remake, Unearmark, Finish, RunnerLocks, EarmarkGranted,
           Earmark, Reread, Enter, Launch, TagExecution, Untag, RunnerRaises,
           RunnerDies, harvestVars, DeleterOwn, FindInstance, EnterRelease,
           ClearForDelete
  <2>2. ASSUME NEW r \in Releasers, ReleaseStep(r) \/ ReleaserDies(r)
        PROVE  todo' \subseteq todo
    BY <2>2
       DEF ReleaseStep, StopContainer, Publish, RemoveContainer, ReleaseRaises,
           ReleaserDies
  <2>3. CASE HarvestLocal \/ HarvestLocks
    BY <2>3
       DEF HarvestLocal, EndPass, PassOver, Bury, HarvestLocks, Visit, Inspect,
           Forget, ClearForHarvest, Dispose, WriteTombstone, Delist
  <2>4. CASE Elsewhere \/ UNCHANGED vars
    BY <2>4
       DEF Elsewhere, KillList, KillLocked, KillIdle, Boot, Interrupt,
           ContainerExits, harvestVars, vars
  <2>5. QED
    BY <2>1, <2>2, <2>3, <2>4, Steps DEF RunnerOwn
<1>3. CASE ReleaseStep(Harvester) \/ ReleaserDies(Harvester)
  BY <1>2, <1>3 DEF ReleaseStep, StopContainer, Publish, RemoveContainer,
                    ReleaseRaises, ReleaserDies, RGoto, Outside, Inside,
                    Releasing, HarvestLocked, Emptying
<1>4. CASE HarvestLocal
  BY <1>2, <1>4 DEF HarvestLocal, List, EndPass, PassOver, Bury, RGoto, Inside,
                    Releasing, HarvestLocked, Emptying
<1>5. CASE HarvestLocks
  BY <1>2, <1>5 DEF HarvestLocks, Visit, Inspect, Forget, ClearForHarvest,
                    Dispose, WriteTombstone, Delist, RGoto, Inside,
                    Releasing, HarvestLocked, Emptying
<1>6. CASE ~ReleaserOwn(Harvester)
  BY <1>2, <1>6, ReleaserFrame
<1>7. QED
  BY <1>3, <1>4, <1>5, <1>6 DEF ReleaserOwn

(* The tags change by the two steps of the harvester that empty one, and   *)
(* by a launch where there was none.                                       *)
LEMMA LabelChange ==
  ASSUME GroupInv, [Next]_vars, NothingDeleted',
         NEW i \in Instances, exec'[i] # exec[i]
  PROVE  \/ Forget /\ i = Mine
         \/ ClearForHarvest /\ i = Mine
         \/ exec[i] = NoExec
<1>1. TypeOK /\ TagsOK /\ LocalsOK /\ ReleaseOK /\ PlaceInv /\ MarkInv
  BY TypeParts DEF GroupInv
<1>2. ASSUME NEW e \in Executions, ClearForDelete(e) PROVE FALSE
  BY <1>2, Undeleted, Identities
     DEF ClearForDelete, RGoto, Inside, Releasing
<1>3. ASSUME NEW e \in Executions, TagExecution(e) PROVE exec[i] = NoExec
  <2>1. pc[e] = "tag" /\ exec' = [exec EXCEPT ![object[e]] = e]
    BY <1>3 DEF TagExecution, Goto, SetExec
  <2>2. i = object[e]
    BY <1>1, <2>1 DEF TagsOK
  <2>3. QED
    BY <1>1, <2>1, <2>2 DEF MarkInv
<1>4. CASE Forget \/ ClearForHarvest
  BY <1>1, <1>4 DEF Forget, ClearForHarvest, SetExec, TagsOK
<1>5. QED
  BY <1>2, <1>3, <1>4, ExecFrame

(* Where calls do not fail, a runner goes from its launch to the tag, or   *)
(* dies.                                                                   *)
LEMMA FromLaunch ==
  ASSUME TypeOK, [Next]_vars, CallsMayFail = FALSE,
         NEW e \in Executions, pc[e] = "tag"
  PROVE  \/ TagExecution(e) \/ RunnerDies(e)
         \/ pc'[e] = "tag" /\ object'[e] = object[e]
<1>1. PcOK
  BY TypeParts
<1> USE <1>1 DEF PcOK
<1>2. CASE RunnerLocal(e)
  BY <1>2 DEF RunnerLocal, Start, Loop, Query, Make, EarmarkRefused,
              HandOver, Probe, EnterRefused, Abandon, Yielding, Goto
<1>3. CASE RunnerTags(e)
  BY <1>3 DEF RunnerTags, Ask, AskAgain, Remake, Unearmark, Finish, Goto
<1>4. CASE RunnerLocks(e)
  BY <1>4 DEF RunnerLocks, EarmarkGranted, Earmark, Reread, Enter, Launch,
              Untag, RunnerRaises, MustRaise, Goto
<1>5. CASE ~RunnerOwn(e)
  BY <1>5, RunnerFrame
<1>6. QED
  BY <1>2, <1>3, <1>4, <1>5 DEF RunnerOwn

(* Labelled is kept. *)
LEMMA LabelledStep ==
  ASSUME GroupInv, LabelInv, CallsMayFail = FALSE, [Next]_vars, NothingDeleted'
  PROVE  Labelled'
<1> SUFFICES ASSUME NEW i \in Instances, NEW e \in Executions, box'[i][e] # "none"
             PROVE  \/ exec'[i] = e
                    \/ pc'[e] = "tag" /\ object'[e] = i
                    \/ lock'[i] = Orphan
  BY DEF Labelled
<1>1. /\ TypeOK /\ TagsOK /\ PcOK /\ LocalsOK /\ LockOK /\ PlaceInv /\ LockInv
      /\ e # NoExec
  BY TypeParts, GroupAssumption DEF GroupInv
<1>2. CASE box[i][e] = "none"
  <2>1. Launch(e) /\ i = object[e]
    BY <1>1, <1>2, BoxGrows
  <2>2. QED
    BY <1>1, <2>1 DEF Launch, Goto, PcOK
<1>3. CASE box[i][e] # "none" /\ exec[i] = e
  <2>1. CASE exec'[i] = exec[i]
    BY <1>3, <2>1
  <2>2. CASE exec'[i] # exec[i]
    <3>1. i = Mine /\ rpc[Harvester] \in Emptying
      BY <1>1, <1>3, <2>2, LabelChange
         DEF Forget, ClearForHarvest, RGoto, Emptying
    <3>2. /\ SeenExec # NoExec /\ box[Mine][SeenExec] = "none"
          /\ SeenExec = seen[Mine] /\ Under(Mine)
      BY <3>1 DEF LabelInv, Emptied, SeenExec, Mine, Under, Emptying, Inside,
                  Releasing, HarvestLocked
    <3>3. exec[i] = SeenExec
      BY <3>1, <3>2 DEF LabelInv, AsSeen
    <3>4. QED
      BY <1>3, <3>1, <3>2, <3>3
  <2>3. QED
    BY <2>1, <2>2
<1>4. CASE pc[e] = "tag" /\ object[e] = i
  <2>1. lock[i] = Runner(e)
    BY <1>1, <1>4 DEF LockInv, InLock, Launching
  <2>2. CASE TagExecution(e)
    BY <1>1, <1>4, <2>2 DEF TagExecution, SetExec, TagsOK
  <2>3. CASE RunnerDies(e)
    BY <1>1, <2>1, <2>3 DEF RunnerDies
  <2>4. CASE pc'[e] = "tag" /\ object'[e] = object[e]
    BY <1>4, <2>4
  <2>5. QED
    BY <1>1, <1>4, <2>2, <2>3, <2>4, FromLaunch
<1>5. CASE lock[i] = Orphan
  <2>1. lock[i] # Free /\ lock[i] \notin Releasers /\ \A f \in Executions : lock[i] # Runner(f)
    BY <1>5, Identities DEF Free, Orphan
  <2>2. lock'[i] = lock[i]
    BY <1>1, <2>1, LockFrame
  <2>3. QED
    BY <1>5, <2>2
<1>6. QED
  BY <1>2, <1>3, <1>4, <1>5 DEF LabelInv, Labelled

(* Alone is kept: a runner launches where there is nothing. *)
LEMMA AloneStep ==
  ASSUME GroupInv, LabelInv, [Next]_vars
  PROVE  Alone'
<1>1. /\ TypeOK /\ TagsOK /\ LocalsOK /\ BoxOK /\ LockInv /\ MarkInv /\ PlaceInv
  BY TypeParts DEF GroupInv
<1>2. ASSUME NEW i \in Instances, NEW e \in Executions, NEW f \in Executions,
             box[i][e] = "none", box'[i][e] # "none", box'[i][f] # "none", e # f
      PROVE  FALSE
  <2>1. Launch(e) /\ i = object[e]
    BY <1>1, <1>2, BoxGrows
  <2>2. pc[e] = "launch" /\ exec[i] = NoExec /\ lock[i] = Runner(e)
    BY <1>1, <2>1 DEF Launch, Goto, MarkInv, LockInv, InLock, Launching
  <2>3. box[i][f] # "none"
    BY <1>1, <1>2, <2>1 DEF Launch, SetBox, BoxOK
  <2>4. f # NoExec /\ lock[i] # Orphan
    BY <2>2, Identities, GroupAssumption
  <2>5. pc[f] = "tag" /\ object[f] = i
    BY <2>2, <2>3, <2>4 DEF LabelInv, Labelled
  <2>6. lock[i] = Runner(f)
    BY <1>1, <2>5 DEF LockInv, InLock, Launching
  <2>7. QED
    BY <1>2, <2>2, <2>6, Identities
<1>3. QED
  BY <1>2 DEF LabelInv, Alone

(* AsSeen is kept: a tag that is not empty changes under the harvester's   *)
(* own hands only.                                                         *)
LEMMA AsSeenStep ==
  ASSUME GroupInv, LabelInv, [Next]_vars, NothingDeleted'
  PROVE  AsSeen'
<1> SUFFICES ASSUME NEW i \in Instances, Under(i)', seen'[i] # NoExec
             PROVE  exec'[i] = seen'[i]
  BY DEF AsSeen
<1>1. TypeOK /\ TagsOK /\ ReleaseOK
  BY TypeParts DEF GroupInv
<1>2. CASE List
  BY <1>1, <1>2 DEF List, awsVars
<1>3. CASE ~List
  <2>1. Under(i)
    <3>1. CASE i \in todo'
      BY <1>1, <1>3, <3>1, PassStep DEF Under
    <3>2. CASE rpc'[Harvester] \in Inside /\ i = at'[Harvester]
      <4>1. CASE rpc[Harvester] \in Inside /\ at'[Harvester] = at[Harvester]
        BY <3>2, <4>1 DEF Under, Mine
      <4>2. ASSUME NEW j \in Instances, Visit(j) PROVE Under(i)
        BY <1>1, <3>2, <4>2, Identities DEF Visit, Under, ReleaseOK
      <4>3. QED
        BY <1>1, <3>2, <4>1, <4>2, PassStep
    <3>3. QED
      BY <3>1, <3>2 DEF Under, Mine
  <2>2. seen'[i] = seen[i]
    <3>1. CASE EndPass
      BY <3>1 DEF EndPass
    <3>2. CASE ClearForHarvest
      BY <1>1, <3>2 DEF ClearForHarvest, TagsOK
    <3>3. QED
      BY <1>3, <3>1, <3>2, SeenFrame
  <2>3. exec[i] = seen[i]
    BY <2>1, <2>2 DEF LabelInv, AsSeen
  <2>4. ASSUME exec'[i] # exec[i] PROVE FALSE
    <3>1. CASE Forget /\ i = Mine
      <4>1. rpc[Harvester] = "forget" /\ rpc'[Harvester] = "next" /\ todo' = todo
        BY <1>1, <3>1, Identities DEF Forget, RGoto, ReleaseOK
      <4>2. i \notin todo
        BY <3>1, <4>1 DEF LabelInv, Visited, Inside, HarvestLocked
      <4>3. QED
        BY <4>1, <4>2 DEF Under, Inside, Releasing, HarvestLocked
    <3>2. CASE ClearForHarvest /\ i = Mine
      BY <1>1, <3>2 DEF ClearForHarvest, TagsOK
    <3>3. QED
      BY <2>2, <2>3, <2>4, <3>1, <3>2, LabelChange
  <2>5. QED
    BY <2>2, <2>3, <2>4
<1>4. QED
  BY <1>2, <1>3

(* Emptied is kept: under the harvester's lock nobody launches.            *)
LEMMA EmptiedStep ==
  ASSUME GroupInv, LabelInv, [Next]_vars
  PROVE  Emptied'
<1> SUFFICES ASSUME rpc'[Harvester] \in Emptying
             PROVE  SeenExec' # NoExec /\ box'[Mine'][SeenExec'] = "none"
  BY DEF Emptied
<1>1. /\ TypeOK /\ TagsOK /\ ReleaseOK /\ BoxOK /\ LockInv /\ RecordInv /\ PlaceInv
  BY TypeParts DEF GroupInv
<1>2. seen' = seen
  <2>1. ~(List \/ EndPass \/ ClearForHarvest)
    BY <1>1, Identities DEF List, EndPass, ClearForHarvest, RGoto, ReleaseOK, Emptying
  <2>2. QED
    BY <2>1, SeenFrame
<1>3. CASE rpc'[Harvester] = rpc[Harvester] /\ at'[Harvester] = at[Harvester]
  <2>1. /\ SeenExec' = SeenExec /\ Mine' = Mine
        /\ SeenExec # NoExec /\ box[Mine][SeenExec] = "none"
    BY <1>2, <1>3 DEF SeenExec, Mine, LabelInv, Emptied
  <2>2. Mine \in Instances /\ lock[Mine] = Harvester
    BY <1>1, <1>3, Identities DEF LockInv, Mine, Emptying, Releasing, HarvestLocked
  <2>3. SeenExec \in Executions
    BY <1>1, <2>1, <2>2 DEF TagsOK, Tags, SeenExec, Mine
  <2>4. ASSUME box'[Mine][SeenExec] # "none" PROVE FALSE
    <3>1. Launch(SeenExec) /\ Mine = object[SeenExec]
      BY <1>1, <2>1, <2>2, <2>3, <2>4, BoxGrows
    <3>2. lock[Mine] = Runner(SeenExec)
      BY <1>1, <2>3, <3>1 DEF Launch, Goto, LockInv, InLock, Launching
    <3>3. QED
      BY <2>2, <2>3, <3>2, Identities
  <2>5. QED
    BY <2>1, <2>4
<1>4. CASE Inspect /\ rpc'[Harvester] = "forget"
  <2>1. /\ SeenExec # NoExec /\ box[Mine][SeenExec] = "none"
        /\ box' = box /\ at' = at
    BY <1>1, <1>4, Identities DEF Inspect, RGoto, ReleaseOK
  <2>2. QED
    BY <1>2, <2>1 DEF SeenExec, Mine
<1>5. CASE RemoveContainer(Harvester)
  <2>1. rpc[Harvester] = "remove" /\ at' = at
    BY <1>5 DEF RemoveContainer, RGoto
  <2>2. SeenExec \in Executions /\ Mine \in Instances
    BY <1>1, <2>1, Identities DEF RecordInv, LockInv, Releasing, Mine
  <2>3. box' = [box EXCEPT ![Mine][SeenExec] = "none"]
    BY <1>5 DEF RemoveContainer, SetBox, Cached, SeenExec, Mine
  <2>4. SeenExec' = SeenExec /\ Mine' = Mine
    BY <1>2, <2>1 DEF SeenExec, Mine
  <2>5. QED
    BY <1>1, <2>2, <2>3, <2>4, GroupAssumption DEF BoxOK
<1>6. QED
  BY <1>1, <1>3, <1>4, <1>5, PassStep

(* Visited is kept: who is visited is taken off the list. *)
LEMMA VisitedStep ==
  ASSUME GroupInv, LabelInv, [Next]_vars
  PROVE  Visited'
<1> SUFFICES ASSUME rpc'[Harvester] \in Inside
             PROVE  at'[Harvester] \notin todo'
  BY DEF Visited, Mine
<1>1. TypeOK /\ ReleaseOK
  BY TypeParts DEF GroupInv
<1>2. ASSUME NEW j \in Instances, Visit(j) PROVE at'[Harvester] \notin todo'
  BY <1>1, <1>2, Identities DEF Visit, ReleaseOK
<1>3. CASE rpc[Harvester] \in Inside /\ at'[Harvester] = at[Harvester]
  <2>1. ~List
    BY <1>3 DEF List, RGoto, Inside, Releasing, HarvestLocked
  <2>2. QED
    BY <1>1, <1>3, <2>1, PassStep DEF LabelInv, Visited, Mine
<1>4. QED
  BY <1>1, <1>2, <1>3, PassStep

(* Where no call fails and nothing is deleted, a worker instance runs one  *)
(* execution at a time, and it is the one in its tag, or being tagged, or  *)
(* one whose runner died before it was: the harvester, which goes by tags  *)
(* of the start of its pass, empties none under a container.               *)
THEOREM RunsAsTagged ==
  ASSUME CallsMayFail = FALSE
  PROVE  Spec => []TaggedUnlessDeleted
<1>1. Init => TagInv
  BY Identities
     DEF Init, TagInv, LabelInv, Labelled, Alone, AsSeen, Emptied, Visited, Under,
         Emptying, Inside, Releasing, HarvestLocked
<1>2. GroupInv /\ TagInv /\ [Next]_vars => TagInv'
  <2> SUFFICES ASSUME GroupInv, TagInv, [Next]_vars, NothingDeleted'
               PROVE  LabelInv'
    BY DEF TagInv
  <2>1. LabelInv
    BY Undeleted DEF TagInv
  <2>2. Labelled' /\ Alone' /\ AsSeen' /\ Emptied' /\ Visited'
    BY <2>1, LabelledStep, AloneStep, AsSeenStep, EmptiedStep, VisitedStep, Zenon
  <2>3. QED
    BY <2>2 DEF LabelInv
<1>3. GroupInv /\ TagInv => TaggedUnlessDeleted
  <2> SUFFICES ASSUME GroupInv, LabelInv
               PROVE  /\ \A i \in Instances : Cardinality(Running(i)) <= 1
                      /\ RunningIsTagged
    BY DEF TagInv, TaggedUnlessDeleted
  <2>1. ASSUME NEW i \in Instances PROVE Cardinality(Running(i)) <= 1
    <3>1. \A e, f \in Running(i) : e = f
      BY DEF Running, LabelInv, Alone
    <3>2. CASE Running(i) = {}
      BY <3>2, FS_EmptySet
    <3>3. CASE Running(i) # {}
      <4>1. PICK e : e \in Running(i)
        BY <3>3
      <4>2. Running(i) = {e}
        BY <3>1, <4>1
      <4>3. Cardinality({e}) = 1
        BY FS_Singleton, Zenon
      <4>4. Cardinality(Running(i)) = 1
        BY <4>2, <4>3
      <4>5. QED
        BY <4>4
    <3>4. QED
      BY <3>2, <3>3
  <2>2. ASSUME NEW i \in Instances, NEW e \in Running(i)
        PROVE  exec[i] = e \/ lock[i] \in {Runner(e), Orphan}
    BY DEF Running, LabelInv, Labelled, GroupInv, LockInv, InLock, Launching
  <2>3. QED
    BY <2>1, <2>2 DEF RunningIsTagged
<1>4. QED
  BY <1>1, <1>2, <1>3, GroupInvariant, PTL DEF Spec
-----------------------------------------------------------------------------
(* The locks as leases.  LockInv says that whoever is inside owns the      *)
(* lock; here is the converse for the releasers (LockInv has it for the    *)
(* runners).                                                               *)
OwnInv ==
  \A r \in Releasers, i \in Instances :
    lock[i] = r => rpc[r] \in Inside /\ at[r] = i

(* A step changes one lock at most: a process that had none takes a free   *)
(* one, or the owner gives it back or dies.                                *)
Taken(i, p) == lock[i] = Free /\ lock' = [lock EXCEPT ![i] = p]
Left(i, p) ==
  lock[i] = p /\ \E to \in {Free, Orphan} : lock' = [lock EXCEPT ![i] = to]

LEMMA LockMoves ==
  ASSUME TypeOK, PlaceInv, LockInv, OwnInv, [Next]_vars
  PROVE  \/ lock' = lock
         \/ \E e \in Executions, i \in Instances :
              Taken(i, Runner(e)) /\ pc[e] \notin InLock
         \/ \E r \in Releasers, i \in Instances :
              /\ Taken(i, r) /\ rpc[r] \notin Inside
              /\ rpc'[r] \in Inside /\ at'[r] = i
         \/ \E p \in Procs, i \in Instances : Left(i, p)
<1>1. LockOK /\ ReleaseOK /\ LocalsOK
  BY TypeParts
<1> USE <1>1, Identities DEF LockOK, ReleaseOK, LocalsOK, Taken, Left
<1>2. ASSUME NEW e \in Executions, EarmarkGranted(e) \/ Enter(e)
      PROVE  \E i \in Instances : Taken(i, Runner(e)) /\ pc[e] \notin InLock
  BY <1>2 DEF EarmarkGranted, Enter, Take, Goto, PlaceInv, HasObject, InLock,
              Launching
<1>3. ASSUME NEW e \in Executions, Reread(e) \/ Untag(e)
      PROVE  \E p \in Procs, i \in Instances : Left(i, p)
  <2>1. pc[e] \in InLock /\ lock' = [lock EXCEPT ![object[e]] = Free]
    BY <1>3 DEF Reread, Untag, Give, Goto, InLock, Launching
  <2>2. lock[object[e]] = Runner(e) /\ object[e] \in Instances
    BY <2>1 DEF LockInv, PlaceInv, InLock, HasObject
  <2>3. QED
    BY <2>1, <2>2
<1>4. ASSUME NEW p \in Procs, NEW to \in {Free, Orphan},
             lock' = [i \in Instances |-> IF lock[i] = p THEN to ELSE lock[i]]
      PROVE  lock' = lock \/ \E i \in Instances : Left(i, p)
  <2>1. CASE \A i \in Instances : lock[i] # p
    <3>1. lock' = [i \in Instances |-> lock[i]]
      BY <1>4, <2>1
    <3>2. QED
      BY <3>1
  <2>2. ASSUME NEW i \in Instances, lock[i] = p
        PROVE  Left(i, p)
    <3>1. \A j \in Instances : lock[j] = p => j = i
      BY <2>2 DEF LockInv, OwnInv, Procs
    <3>2. lock' = [lock EXCEPT ![i] = to]
      BY <1>4, <2>2, <3>1
    <3>3. QED
      BY <2>2, <3>2
  <2>3. QED
    BY <2>1, <2>2
<1>5. ASSUME NEW e \in Executions, RunnerOwn(e)
      PROVE  \/ lock' = lock
             \/ \E i \in Instances : Taken(i, Runner(e)) /\ pc[e] \notin InLock
             \/ \E p \in Procs, i \in Instances : Left(i, p)
  <2>1. CASE RunnerLocal(e) \/ RunnerTags(e) \/ Earmark(e) \/ Launch(e)
               \/ TagExecution(e)
    BY <2>1
       DEF RunnerLocal, Start, Loop, Query, Make, EarmarkRefused, HandOver, Probe,
           EnterRefused, Abandon, RunnerTags, Ask, AskAgain, NewInstance,
           Remake, Unearmark, Finish, Earmark, Launch, TagExecution
  <2>2. CASE RunnerRaises(e) \/ RunnerDies(e)
    BY <2>2, <1>4 DEF RunnerRaises, RunnerDies
  <2>3. QED
    BY <1>2, <1>3, <1>5, <2>1, <2>2 DEF RunnerOwn, RunnerLocks
<1>6. ASSUME NEW r \in Releasers, rpc[r] \in Inside, Give(at[r])
      PROVE  \E p \in Procs, i \in Instances : Left(i, p)
  BY <1>6 DEF LockInv, Inside, Give
<1>7. ASSUME NEW e \in Executions, DeleterOwn(e)
      PROVE  \/ lock' = lock
             \/ \E r \in Releasers, i \in Instances :
                  /\ Taken(i, r) /\ rpc[r] \notin Inside
                  /\ rpc'[r] \in Inside /\ at'[r] = i
             \/ \E p \in Procs, i \in Instances : Left(i, p)
  <2>1. CASE EnterRelease(e)
    <3>1. at[Deleter(e)] \in Instances
      BY <2>1 DEF EnterRelease, RGoto, LockInv
    <3>2. /\ Taken(at[Deleter(e)], Deleter(e)) /\ rpc[Deleter(e)] \notin Inside
          /\ rpc'[Deleter(e)] \in Inside /\ at'[Deleter(e)] = at[Deleter(e)]
      BY <2>1 DEF EnterRelease, RGoto, Take, Inside, Releasing, HarvestLocked
    <3>3. QED
      BY <3>1, <3>2
  <2>2. CASE ClearForDelete(e)
    BY <2>2, <1>6 DEF ClearForDelete, RGoto, Inside, Releasing
  <2>3. CASE FindInstance(e)
    BY <2>3 DEF FindInstance
  <2>4. QED
    BY <1>7, <2>1, <2>2, <2>3 DEF DeleterOwn
<1>8. ASSUME NEW r \in Releasers, ReleaseStep(r) \/ ReleaserDies(r)
      PROVE  lock' = lock \/ \E p \in Procs, i \in Instances : Left(i, p)
  <2>1. CASE ReleaseRaises(r)
    BY <2>1, <1>6 DEF ReleaseRaises, Inside
  <2>2. CASE ReleaserDies(r)
    BY <2>2, <1>4 DEF ReleaserDies
  <2>3. QED
    BY <1>8, <2>1, <2>2 DEF ReleaseStep, StopContainer, Publish, RemoveContainer
<1>9. CASE HarvestLocks
  <2>1. ASSUME NEW i \in Instances, Visit(i)
        PROVE  /\ Taken(i, Harvester) /\ rpc[Harvester] \notin Inside
               /\ rpc'[Harvester] \in Inside /\ at'[Harvester] = i
    BY <2>1 DEF Visit, Take, RGoto, Inside, Releasing, HarvestLocked
  <2>2. CASE Inspect \/ Forget \/ Dispose \/ Delist
    <3>1. rpc[Harvester] \in Inside /\ (lock' = lock \/ Give(at[Harvester]))
      BY <2>2 DEF Inspect, Forget, Dispose, Delist, RGoto, Mine, Inside,
                  HarvestLocked
    <3>2. QED
      BY <3>1, <1>6
  <2>3. CASE ClearForHarvest \/ WriteTombstone
    BY <2>3 DEF ClearForHarvest, WriteTombstone
  <2>4. QED
    BY <1>9, <2>1, <2>2, <2>3 DEF HarvestLocks
<1>10. CASE HarvestLocal \/ Elsewhere \/ UNCHANGED vars
  BY <1>10
     DEF HarvestLocal, List, EndPass, PassOver, Bury, Elsewhere, KillList,
         KillLocked, KillIdle, Boot, Interrupt, ContainerExits, vars
<1>11. QED
  BY <1>5, <1>7, <1>8, <1>9, <1>10, Steps DEF RunnerOwn

(* A releaser that goes out of the section leaves its lock.                *)
LEMMA ReleaserLeaves ==
  ASSUME TypeOK, PlaceInv, LockInv, [Next]_vars, NEW r \in Releasers,
         rpc[r] \in Inside
  PROVE  \/ rpc'[r] \in Inside /\ at'[r] = at[r]
         \/ lock'[at[r]] \in {Free, Orphan}
<1>1. /\ LockOK /\ ReleaseOK
      /\ at[r] \in Instances /\ lock[at[r]] = r
  BY TypeParts DEF LockInv, Inside
<1> USE <1>1, Identities DEF LockOK, ReleaseOK
<1>2. CASE ReleaseStep(r) \/ ReleaserDies(r)
  BY <1>2 DEF ReleaseStep, StopContainer, Publish, RemoveContainer, Give,
              ReleaseRaises, ReleaserDies, RGoto, Inside, Releasing
<1>3. CASE r = Harvester /\ (HarvestLocal \/ HarvestLocks)
  <2>1. CASE HarvestLocal
    BY <1>3, <2>1 DEF HarvestLocal, List, EndPass, PassOver, Bury, RGoto, Inside,
                      Releasing, HarvestLocked
  <2>2. CASE HarvestLocks
    BY <1>3, <2>2 DEF HarvestLocks, Visit, Inspect, Forget, ClearForHarvest,
                      Dispose, WriteTombstone, Delist, RGoto, Mine, Give,
                      Inside, Releasing, HarvestLocked
  <2>3. QED
    BY <1>3, <2>1, <2>2
<1>4. ASSUME NEW e \in Executions, r = Deleter(e), DeleterOwn(e)
      PROVE  lock'[at[r]] \in {Free, Orphan}
  BY <1>4 DEF DeleterOwn, FindInstance, EnterRelease, ClearForDelete, RGoto, Give,
              Inside, Releasing, HarvestLocked
<1>5. CASE ~ReleaserOwn(r)
  BY <1>5, ReleaserFrame
<1>6. QED
  BY <1>2, <1>3, <1>4, <1>5 DEF ReleaserOwn

(* OwnInv is kept by every step. *)
LEMMA OwnStep ==
  TypeOK /\ PlaceInv /\ LockInv /\ OwnInv /\ [Next]_vars => OwnInv'
<1> SUFFICES ASSUME TypeOK, PlaceInv, LockInv, OwnInv, [Next]_vars,
                    NEW r \in Releasers, NEW i \in Instances, lock'[i] = r
             PROVE  rpc'[r] \in Inside /\ at'[r] = i
  BY DEF OwnInv
<1>1. CASE lock[i] = r
  BY <1>1, ReleaserLeaves, Identities DEF OwnInv
<1>2. CASE lock[i] # r
  <2>1. LockOK
    BY TypeParts
  <2>2. QED
    BY <1>2, <2>1, LockMoves, Identities DEF LockOK, Taken, Left
<1>3. QED
  BY <1>1, <1>2

(* So it holds throughout. *)
LEMMA OwnInvariant == Spec => [](GroupInv /\ OwnInv)
<1>1. Init => OwnInv
  BY Identities DEF Init, OwnInv
<1>2. GroupInv /\ OwnInv /\ [Next]_vars => OwnInv'
  BY OwnStep DEF GroupInv
<1>3. QED
  BY <1>1, <1>2, GroupInvariant, PTL DEF Spec

(* Whoever works on an instance owns its lock, and the other way round.    *)
LEMMA OwnersInside == GroupInv /\ OwnInv => InsidersOwn
<1> SUFFICES ASSUME GroupInv, OwnInv, NEW i \in Instances
             PROVE  /\ \A e \in Executions : RunnerIn(e, i) <=> lock[i] = Runner(e)
                    /\ \A r \in Releasers : ReleaserIn(r, i) <=> lock[i] = r
  BY DEF InsidersOwn
<1>1. ASSUME NEW e \in Executions
      PROVE  RunnerIn(e, i) <=> lock[i] = Runner(e)
  BY DEF GroupInv, LockInv, RunnerIn
<1>2. ASSUME NEW r \in Releasers
      PROVE  ReleaserIn(r, i) <=> lock[i] = r
  BY DEF GroupInv, LockInv, OwnInv, Inside, ReleaserIn
<1>3. QED
  BY <1>1, <1>2

(* Who works on an instance is who owns its lock: releases, launches and   *)
(* passes of the harvester exclude one another.                            *)
THEOREM OwnersWork == Spec => []InsidersOwn
BY OwnInvariant, OwnersInside, PTL

(* The locks of the instances are locks of Lease, through retries, raised  *)
(* calls and deaths.                                                       *)
THEOREM LockRefinement == Spec => LocksAreLeases
<1> DEFINE At(i) == {Runner(e) : e \in {f \in Executions : RunnerIn(f, i)}}
                      \cup {r \in Releasers : ReleaserIn(r, i)}
           In == [i \in Instances |-> At(i)]
<1>1. Init => Lock!Init
  BY DEF Init, Lock!Init, RunnerIn, ReleaserIn, InLock, Inside, Launching,
         Releasing, HarvestLocked
<1>2. GroupInv /\ OwnInv /\ InsidersOwn /\ InsidersOwn' /\ [Next]_vars
        => [Lock!Next]_Lock!vars
  <2> SUFFICES ASSUME GroupInv, OwnInv, InsidersOwn, InsidersOwn', [Next]_vars
               PROVE  [Lock!Next]_Lock!vars
    OBVIOUS
  <2>1. /\ In = [i \in Instances |-> {p \in Procs : lock[i] = p}]
        /\ In' = [i \in Instances |-> {p \in Procs : lock'[i] = p}]
    <3>1. ASSUME NEW i \in Instances
          PROVE  At(i) = {p \in Procs : lock[i] = p}
      BY Identities DEF InsidersOwn, Procs
    <3>2. ASSUME NEW i \in Instances
          PROVE  At(i)' = {p \in Procs : lock'[i] = p}
      BY Identities DEF InsidersOwn, Procs
    <3>3. QED
      BY <3>1, <3>2
  <2>2. LockOK
    BY TypeParts DEF GroupInv
  <2> USE <2>2, Identities DEF LockOK
  <2>3. ASSUME lock' = lock
        PROVE  UNCHANGED Lock!vars
    BY <2>1, <2>3 DEF Lock!vars
  <2>4. ASSUME NEW i \in Instances, NEW p \in Procs, Taken(i, p),
               \A j \in Instances : lock[j] # p
        PROVE  Lock!Take(i, p)
    <3>1. \A j \in Instances : {q \in Procs : lock'[j] = q}
                                = IF j = i THEN {p} ELSE {q \in Procs : lock[j] = q}
      BY <2>4 DEF Taken
    <3>2. In' = [In EXCEPT ![i] = {p}]
      BY <2>1, <3>1
    <3>3. QED
      BY <2>4, <3>2 DEF Taken, Lock!Take
  <2>5. ASSUME NEW i \in Instances, NEW p \in Procs, Left(i, p)
        PROVE  Lock!Leave(i, p, Free) \/ Lock!Leave(i, p, Orphan)
    <3>1. \A j \in Instances : {q \in Procs : lock'[j] = q}
                                = IF j = i THEN {} ELSE {q \in Procs : lock[j] = q}
      BY <2>5 DEF Left, Procs
    <3>2. In' = [In EXCEPT ![i] = {}]
      BY <2>1, <3>1
    <3>3. QED
      BY <2>5, <3>2 DEF Left, Lock!Leave
  <2>6. ASSUME NEW e \in Executions, pc[e] \notin InLock
        PROVE  \A j \in Instances : lock[j] # Runner(e)
    BY <2>6 DEF GroupInv, LockInv
  <2>7. ASSUME NEW r \in Releasers, rpc[r] \notin Inside
        PROVE  \A j \in Instances : lock[j] # r
    BY <2>7 DEF OwnInv
  <2>8. QED
    BY <2>3, <2>4, <2>5, <2>6, <2>7, LockMoves DEF GroupInv, Lock!Next
<1>3. QED
  BY <1>1, <1>2, OwnInvariant, OwnersWork, PTL DEF Spec, LocksAreLeases, Lock!Spec
=============================================================================
