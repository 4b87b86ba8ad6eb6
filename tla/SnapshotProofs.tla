---------------------------- MODULE SnapshotProofs ----------------------------
(***************************************************************************)
(* Proofs about Snapshot: type correctness, that the working directory is  *)
(* kept, and that an execution runs what its run captured.                 *)
(***************************************************************************)
EXTENDS Snapshot, TLAPS

-----------------------------------------------------------------------------
(* The inductive invariant.                                                *)

(* Who made the file has it, and is still to remove it. *)
Made ==
  \A r \in made : /\ dockerfile.by = r
                  /\ pc[r] \in {"write", "list", "archive", "cleanUp", "giveUp"}
Writing == \A r \in Runs : pc[r] = "write" => r \in made

(* Nobody else's file is there, unless somebody was killed. *)
Left ==
  dockerfile.by \in Runs => \/ dockerfile.by \in made
                            \/ pc[dockerfile.by] = "killed"

(* Every image is that of a run which had it built and captures no more. *)
HasBuilt == {"push", "ready"} \cup Ended
IsOf(image, t) ==
  image # NoFile => \E q \in Runs : /\ pc[q] \in HasBuilt
                                    /\ asked[q] = t /\ context[q] = image
Sourced == \A t \in Times : IsOf(built[t], t) /\ IsOf(pushed[t], t)

Inv == TypeOK /\ Made /\ Writing /\ Left /\ Sourced

(* Who wrote a file can be told from it. *)
LEMMA FileFacts ==
  /\ \A r \in Runs, w \in BOOLEAN :
       Generated(r, w) \in Files /\ Generated(r, w).by = r
  /\ NoFile \in Files /\ NoFile.by \notin Runs
  /\ UsersFile \in Files /\ UsersFile.by \notin Runs
  /\ UsersFile # NoFile
<1>1. ASSUME NEW r \in Runs, NEW w \in BOOLEAN
      PROVE  Generated(r, w) \in Files /\ Generated(r, w).by = r
  <2>1. Generated(r, w) \in {Generated(q, v) : q \in Runs, v \in BOOLEAN}
    OBVIOUS
  <2>2. Generated(r, w).by = r
    BY DEF Generated
  <2> QED
    BY <2>1, <2>2 DEF Files
<1>2. NoFile \in Files /\ UsersFile \in Files
  BY DEF Files
<1>3. NoFile.by = "nobody" /\ UsersFile.by = "user"
  BY DEF NoFile, UsersFile
<1> QED
  BY <1>1, <1>2, <1>3, SnapshotAssumption DEF SnapshotAssumption

LEMMA InitInv == Init => Inv
<1> SUFFICES ASSUME Init PROVE Inv
  OBVIOUS
<1>1. TypeOK
  BY FileFacts, SnapshotAssumption, SMT
  DEF SnapshotAssumption, Init, TypeOK, Times, Capturing, Building, Ended
<1>2. Made /\ Writing /\ Left
  BY FileFacts DEF Init, Made, Writing, Left
<1>3. Sourced
  BY DEF Init, Sourced, IsOf
<1> QED
  BY <1>1, <1>2, <1>3 DEF Inv

(* The images stay somebody's while nothing is built, and who has built    *)
(* neither asks nor captures again.                                        *)
LEMMA SourcedKept ==
  ASSUME Inv, NEW r \in Runs, NEW to, pc' = [pc EXCEPT ![r] = to],
         pc[r] \in HasBuilt => to \in HasBuilt,
         UNCHANGED imageVars,
         \A q \in Runs : pc[q] \in HasBuilt =>
           asked'[q] = asked[q] /\ context'[q] = context[q]
  PROVE  Sourced'
<1>1. \A q \in Runs : pc[q] \in HasBuilt => pc'[q] \in HasBuilt
  BY DEF Inv, TypeOK
<1>2. ASSUME NEW image, NEW t, IsOf(image, t) PROVE IsOf(image, t)'
  BY <1>1, <1>2 DEF IsOf
<1>3. ASSUME NEW t \in Times PROVE IsOf(built[t], t)' /\ IsOf(pushed[t], t)'
  BY <1>2, <1>3 DEF Inv, Sourced, IsOf, imageVars
<1> QED
  BY <1>3 DEF Sourced, Times

-----------------------------------------------------------------------------
LEMMA CaptureInv ==
  ASSUME Inv, NEW r \in Runs,
         \/ CheckDockerfileSpecs(r) \/ Look(r) \/ Create(r) \/ Write(r) \/ List(r)
         \/ Archive(r) \/ CaptureRaises(r) \/ CleanUp(r) \/ Kill(r)
  PROVE  Inv'
<1> USE FileFacts DEF requestVars, Goto, Capturing, Building, Ended
<1>1. PICK to : /\ pc' = [pc EXCEPT ![r] = to]
                /\ pc[r] \in HasBuilt => to \in HasBuilt
  BY DEF CheckDockerfileSpecs, Look, Create, Write, List, Archive, CaptureRaises,
         CleanUp, Kill, HasBuilt
<1>2. UNCHANGED <<imageVars, requestVars, clock>>
  BY DEF CheckDockerfileSpecs, Look, Create, Write, List, Archive, CaptureRaises,
         CleanUp, Kill
<1>3. \A q \in Runs : pc[q] \in HasBuilt => context'[q] = context[q]
  BY DEF CheckDockerfileSpecs, Look, Create, Write, List, Archive, CaptureRaises,
         CleanUp, Kill, HasBuilt, Inv, TypeOK
<1>4. Sourced'
  BY <1>1, <1>2, <1>3, SourcedKept
<1>5. CASE CheckDockerfileSpecs(r) \/ Look(r) \/ List(r) \/ Archive(r)
  <2>1. UNCHANGED <<dockerfile, made, faults>>
    BY <1>5 DEF CheckDockerfileSpecs, Look, List, Archive
  <2>2. TypeOK'
    BY <1>2, <1>5, <2>1, SMTT(30)
    DEF CheckDockerfileSpecs, Look, List, Archive, Inv, TypeOK, imageVars
  <2>3. Made' /\ Writing' /\ Left'
    BY <1>5, <2>1, SMTT(30)
    DEF CheckDockerfileSpecs, Look, List, Archive, Inv, TypeOK, Made, Writing, Left
  <2> QED
    BY <1>4, <2>2, <2>3 DEF Inv
<1>6. CASE Create(r)
  <2>1. CASE Exists
    <3>1. /\ pc[r] = "create" /\ pc' = [pc EXCEPT ![r] = "giveUp"]
          /\ UNCHANGED <<imaged, dockerfile, made, listed, context, retries, clock,
                         asked, built, pushed, faults>>
      BY <1>6, <2>1 DEF Create, imageVars
    <3>2. TypeOK'
      BY <3>1, SMTT(30) DEF Inv, TypeOK
    <3>3. Made' /\ Writing' /\ Left'
      BY <3>1, SMTT(30) DEF Inv, TypeOK, Made, Writing, Left
    <3> QED
      BY <1>4, <3>2, <3>3 DEF Inv
  <2>2. CASE ~Exists
    <3>1. /\ pc[r] = "create" /\ pc' = [pc EXCEPT ![r] = "write"]
          /\ made' = made \cup {r}
          /\ UNCHANGED <<imaged, listed, context, retries, clock, asked, built,
                         pushed, faults>>
      BY <1>6, <2>2 DEF Create, imageVars
    <3>2. dockerfile' \in Files /\ dockerfile'.by = r
      BY <1>6, <2>2 DEF Create
    <3>3. made = {}
      BY <2>2 DEF Exists, Inv, Made, TypeOK
    <3>4. TypeOK'
      BY <3>1, <3>2, SMTT(30) DEF Inv, TypeOK
    <3>5. Made' /\ Writing' /\ Left'
      BY <3>1, <3>2, <3>3, SMTT(30) DEF Inv, TypeOK, Made, Writing, Left
    <3> QED
      BY <1>4, <3>4, <3>5 DEF Inv
  <2> QED
    BY <2>1, <2>2
<1>7. CASE Write(r)
  <2>1. /\ pc[r] = "write" /\ pc' = [pc EXCEPT ![r] = "list"]
        /\ UNCHANGED <<imaged, made, listed, context, retries, clock, asked, built,
                       pushed, faults>>
    BY <1>7 DEF Write, imageVars
  <2>2. dockerfile' \in Files /\ dockerfile'.by = r
    BY <1>7 DEF Write
  <2>3. r \in made /\ \A q \in made : q = r
    BY <2>1 DEF Inv, Writing, Made
  <2>4. TypeOK'
    BY <2>1, <2>2, SMTT(30) DEF Inv, TypeOK
  <2>5. Made' /\ Writing' /\ Left'
    BY <2>1, <2>2, <2>3, SMTT(30) DEF Inv, TypeOK, Made, Writing, Left
  <2> QED
    BY <1>4, <2>4, <2>5 DEF Inv
<1>8. CASE CaptureRaises(r) \/ Kill(r)
  <2>1. /\ faults > 0 /\ faults' = faults - 1
        /\ UNCHANGED <<dockerfile, listed, context>>
    BY <1>8 DEF CaptureRaises, Kill
  <2>2. faults' \in 0..MaxFaults
    BY <2>1, SnapshotAssumption, SMT DEF SnapshotAssumption, Inv, TypeOK
  <2>3. TypeOK'
    BY <1>2, <1>8, <2>1, <2>2, SMTT(30) DEF CaptureRaises, Kill, Inv, TypeOK, imageVars
  <2>4. Made' /\ Writing' /\ Left'
    BY <1>8, <2>1, SMTT(30) DEF CaptureRaises, Kill, Inv, TypeOK, Made, Writing, Left
  <2> QED
    BY <1>4, <2>3, <2>4 DEF Inv
<1>9. CASE CleanUp(r)
  <2>1. TypeOK'
    BY <1>2, <1>9, SMTT(30) DEF CleanUp, Inv, TypeOK, imageVars
  <2>2. Made' /\ Writing' /\ Left'
    BY <1>9, SMTT(30) DEF CleanUp, Inv, TypeOK, Made, Writing, Left
  <2> QED
    BY <1>4, <2>1, <2>2 DEF Inv
<1> QED
  BY <1>5, <1>6, <1>7, <1>8, <1>9

LEMMA BuildInv ==
  ASSUME Inv, NEW r \in Runs,
         \/ Submit(r) \/ Build(r) \/ BuildDenied(r) \/ BuildFails(r) \/ Push(r)
         \/ Launch(r)
  PROVE  Inv'
<1> USE DEF requestVars, Goto, Capturing, Building, Ended, Tag, ConstructTag
<1>1. UNCHANGED <<imaged, dockerfile, made, listed, context, clock, faults>>
  BY DEF Submit, Build, BuildDenied, BuildFails, Push, Launch
<1>2. PICK to \in {"look", "build", "push", "failed", "ready", "started"} :
        pc' = [pc EXCEPT ![r] = to]
  BY DEF Submit, Build, BuildDenied, BuildFails, Push, Launch
<1>3. pc[r] \in {"submit", "build", "push", "ready"}
  BY DEF Submit, Build, BuildDenied, BuildFails, Push, Launch
<1>4. Made' /\ Writing' /\ Left'
  BY <1>1, <1>2, <1>3, SMTT(30) DEF Inv, TypeOK, Made, Writing, Left
<1>5. CASE Submit(r)
  <2>1. TypeOK'
    BY <1>1, <1>5, SMTT(30) DEF Submit, Inv, TypeOK, imageVars
  <2>2. Sourced'
    BY <1>1, <1>5, SourcedKept DEF Submit, HasBuilt, Inv, TypeOK
  <2> QED
    BY <1>4, <2>1, <2>2 DEF Inv
<1>6. CASE Build(r)
  <2>1. /\ pc[r] = "build" /\ pc' = [pc EXCEPT ![r] = "push"]
        /\ built' = [built EXCEPT ![asked[r]] = context[r]]
        /\ UNCHANGED <<pushed, asked, retries>>
    BY <1>6 DEF Build
  <2>2. TypeOK'
    BY <1>1, <2>1, SMTT(30) DEF Inv, TypeOK
  <2>3. ASSUME NEW image, NEW t, IsOf(image, t) PROVE IsOf(image, t)'
    BY <1>1, <2>1, <2>3 DEF IsOf, HasBuilt, Inv, TypeOK
  <2>4. ASSUME NEW t \in Times PROVE IsOf(built[t], t)'
    <3>1. CASE t = asked[r]
      BY <1>1, <2>1, <3>1 DEF IsOf, HasBuilt, Inv, TypeOK
    <3>2. CASE t # asked[r]
      <4>1. built'[t] = built[t]
        BY <2>1, <2>4, <3>2 DEF Inv, TypeOK
      <4> QED
        BY <2>3, <2>4, <4>1 DEF Inv, Sourced, IsOf
    <3> QED
      BY <3>1, <3>2
  <2>5. ASSUME NEW t \in Times PROVE IsOf(pushed[t], t)'
    <3>1. IsOf(pushed[t], t)
      BY <2>5 DEF Inv, Sourced
    <3> QED
      BY <2>1, <2>3, <3>1 DEF IsOf
  <2> QED
    BY <1>4, <2>2, <2>4, <2>5 DEF Inv, Sourced, Times
<1>7. CASE BuildDenied(r)
  <2>1. retries[r] - 1 \in 0..Retries
    BY <1>7, SnapshotAssumption, SMT DEF SnapshotAssumption, BuildDenied, Inv, TypeOK
  <2>2. TypeOK'
    BY <1>1, <1>7, <2>1, SMTT(30) DEF BuildDenied, Inv, TypeOK, imageVars
  <2>3. Sourced'
    BY <1>1, <1>7, SourcedKept DEF BuildDenied, HasBuilt
  <2> QED
    BY <1>4, <2>2, <2>3 DEF Inv
<1>8. CASE BuildFails(r) \/ Launch(r)
  <2>1. TypeOK'
    BY <1>1, <1>2, <1>8, SMTT(30) DEF BuildFails, Launch, Inv, TypeOK, imageVars
  <2>2. Sourced'
    BY <1>1, <1>8, SourcedKept DEF BuildFails, Launch, HasBuilt
  <2> QED
    BY <1>4, <2>1, <2>2 DEF Inv
<1>9. CASE Push(r)
  <2>1. /\ pc[r] = "push" /\ pc' = [pc EXCEPT ![r] = "ready"]
        /\ UNCHANGED <<built, asked, retries>>
        /\ \/ UNCHANGED pushed
           \/ pushed' = [pushed EXCEPT ![asked[r]] = built[asked[r]]]
    BY <1>9 DEF Push
  <2>2. asked[r] \in Times
    BY DEF Inv, TypeOK
  <2>3. TypeOK'
    BY <1>1, <2>1, <2>2, SMTT(30) DEF Inv, TypeOK
  <2>4. ASSUME NEW image, NEW t, IsOf(image, t) PROVE IsOf(image, t)'
    BY <1>1, <2>1, <2>4 DEF IsOf, HasBuilt, Inv, TypeOK
  <2>5. ASSUME NEW t \in Times PROVE IsOf(built[t], t)' /\ IsOf(pushed[t], t)'
    <3>1. pushed'[t] \in {pushed[t], built[t]}
      BY <2>1, <2>2, <2>5 DEF Inv, TypeOK
    <3>2. IsOf(built[t], t) /\ IsOf(pushed[t], t)
      BY <2>5 DEF Inv, Sourced
    <3> QED
      BY <2>1, <2>4, <3>1, <3>2 DEF IsOf
  <2> QED
    BY <1>4, <2>3, <2>5 DEF Inv, Sourced, Times
<1> QED
  BY <1>5, <1>6, <1>7, <1>8, <1>9

LEMMA TickInv == Inv /\ (Tick \/ UNCHANGED vars) => Inv'
<1> SUFFICES ASSUME Inv, Tick \/ UNCHANGED vars PROVE Inv'
  OBVIOUS
<1>1. /\ UNCHANGED <<dockerfile, pc, made, listed, context, requestVars, imageVars,
                     faults>>
      /\ clock' = clock \/ (clock < MaxTime /\ clock' = clock + 1)
  BY DEF Tick, vars
<1>2. clock' \in Times
  BY <1>1, SnapshotAssumption, SMT DEF SnapshotAssumption, Inv, TypeOK, Times
<1> QED
  BY <1>1, <1>2
  DEF Inv, TypeOK, Made, Writing, Left, Sourced, IsOf, requestVars, imageVars, Times

LEMMA NextInv == Inv /\ [Next]_vars => Inv'
BY CaptureInv, BuildInv, TickInv DEF Next, RunStep

LEMMA InvHolds == Spec => []Inv
BY InitInv, NextInv, PTL DEF Spec

-----------------------------------------------------------------------------
(* Type correctness; retries never run out below zero.                     *)
THEOREM TypeCorrect == Spec => []TypeOK
<1>1. Inv => TypeOK
  BY DEF Inv
<1> QED
  BY <1>1, InvHolds, PTL

(* The user's plz.Dockerfile is never touched, and one that was made for a *)
(* run is there no longer than that run captures, unless it was killed.    *)
THEOREM Directory == Spec => DirectoryIsKept
<1>1. ASSUME Inv, [Next]_vars, dockerfile = UsersFile PROVE UNCHANGED dockerfile
  <2> USE FileFacts
  <2>1. made = {}
    BY <1>1 DEF Inv, Made, TypeOK
  <2>2. ASSUME NEW r \in Runs, RunStep(r) \/ CaptureRaises(r) \/ Kill(r)
        PROVE  UNCHANGED dockerfile
    <3>1. ~Write(r)
      BY <1>1, <2>1 DEF Write, Goto, Inv, Writing
    <3>2. Create(r) => UNCHANGED dockerfile
      BY <1>1 DEF Create, Exists
    <3> QED
      BY <2>1, <2>2, <3>1, <3>2
      DEF RunStep, CheckDockerfileSpecs, Look, List, Archive, CleanUp, CaptureRaises,
          Kill, Submit, Build, BuildDenied, BuildFails, Push, Launch
  <2> QED
    BY <1>1, <2>2 DEF Next, Tick, vars
<1>2. Inv /\ [Next]_vars => [dockerfile = UsersFile => UNCHANGED dockerfile]_vars
  BY <1>1
<1>3. Inv => (dockerfile.by \in Runs =>
                \/ dockerfile.by \in made /\ pc[dockerfile.by] \in Capturing
                \/ pc[dockerfile.by] = "killed")
  BY DEF Inv, Made, Left, Capturing
<1> QED
  BY <1>2, <1>3, InvHolds, PTL DEF Spec, DirectoryIsKept

(* What is started is what its run captured last, or was asked for in the  *)
(* same millisecond, however many runs are denied, retried, interrupted or *)
(* not pushed.                                                             *)
THEOREM Captured == Spec => RunsWhatWasCaptured
<1>1. ASSUME Inv, [Next]_vars, NEW r \in Runs, pc[r] = "ready", pc'[r] = "started"
      PROVE  \/ pushed[Tag(r)] = context[r]
             \/ \E q \in Runs \ {r} : asked[q] = asked[r]
  <2> USE DEF Goto, Capturing, Building, Ended
  <2>1. Launch(r)
    <3>1. ASSUME NEW q \in Runs, RunStep(q) \/ CaptureRaises(q) \/ Kill(q),
                 ~Launch(r)
          PROVE  FALSE
      <4>1. CASE q = r
        BY <1>1, <3>1, <4>1
        DEF RunStep, CheckDockerfileSpecs, Look, Create, Write, List, Archive,
            CleanUp, CaptureRaises, Kill, Submit, Build, BuildDenied, BuildFails,
            Push, Inv, TypeOK
      <4>2. CASE q # r
        <5>1. \E to : pc' = [pc EXCEPT ![q] = to]
          BY <3>1
          DEF RunStep, CheckDockerfileSpecs, Look, Create, Write, List, Archive,
              CleanUp, CaptureRaises, Kill, Submit, Build, BuildDenied, BuildFails,
              Push, Launch
        <5> QED
          BY <1>1, <4>2, <5>1 DEF Inv, TypeOK
      <4> QED
        BY <4>1, <4>2
    <3> QED
      BY <1>1, <3>1 DEF Next, Tick, vars
  <2>2. pushed[Tag(r)] # NoFile
    BY <1>1, <2>1 DEF Launch, Inv, TypeOK
  <2>3. asked[r] \in Times /\ Tag(r) = asked[r]
    BY <1>1 DEF Inv, TypeOK, Tag, ConstructTag
  <2>4. PICK q \in Runs : asked[q] = asked[r] /\ context[q] = pushed[Tag(r)]
    BY <1>1, <2>2, <2>3 DEF Inv, Sourced, IsOf
  <2> QED
    BY <2>4
<1>2. Inv /\ [Next]_vars =>
        [\A r \in Runs :
           pc[r] = "ready" /\ pc'[r] = "started" =>
             \/ pushed[Tag(r)] = context[r]
             \/ \E q \in Runs \ {r} : asked[q] = asked[r]]_vars
  BY <1>1
<1> QED
  BY <1>2, InvHolds, PTL DEF Spec, RunsWhatWasCaptured
=============================================================================
