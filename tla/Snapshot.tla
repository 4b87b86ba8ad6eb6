------------------------------- MODULE Snapshot -------------------------------
(***************************************************************************)
(* What plz run does before it starts an execution: capturing the files of *)
(* the working directory, with a plz.Dockerfile that is made for it when   *)
(* there is none, and having the controller build the snapshot from them   *)
(* (cli/snapshot.py, run_execution_operation.py, controller/images).       *)
(*                                                                         *)
(* Several runs are started in one directory, of one user and project; the *)
(* file they make has one name.  The image of a snapshot is looked up by   *)
(* its tag, the user, the project and the time of the request, when the    *)
(* container starts.                                                       *)
(***************************************************************************)
EXTENDS Naturals

CONSTANTS
  Runs,
  Retries,     \* docker_build_retries
  MaxTime,     \* the clock of the controller, in milliseconds
  MaxFaults    \* how many runs may be interrupted or killed

ASSUME SnapshotAssumption ==
  /\ "nobody" \notin Runs /\ "user" \notin Runs
  /\ Retries \in Nat /\ MaxTime \in Nat /\ MaxFaults \in Nat

VARIABLES
  imaged,      \* runs configured with an image and a command
  dockerfile,  \* plz.Dockerfile: who wrote it, and whether it is written
  pc,          \* where each run is
  made,        \* runs with dockerfile_created set
  listed,      \* runs with plz.Dockerfile among the files they list
  context,     \* the Dockerfile in the build context of each run
  retries,     \* retries each run has left
  clock,
  asked,       \* when each run's last request for a snapshot arrived
  built,       \* the image by each tag on the controller's docker host,
  pushed,      \*   and in the registry: the Dockerfile it was built from
  faults

requestVars == <<imaged, retries, asked>>
imageVars == <<built, pushed>>
vars == <<dockerfile, pc, made, listed, context, requestVars, clock, imageVars, faults>>

NoFile == [by |-> "nobody", whole |-> FALSE]
UsersFile == [by |-> "user", whole |-> TRUE]
Generated(r, whole) == [by |-> r, whole |-> whole]
Files == {NoFile, UsersFile} \cup {Generated(r, w) : r \in Runs, w \in BOOLEAN}

Times == 0..MaxTime
Capturing == {"look", "create", "write", "list", "archive", "cleanUp", "giveUp"}
Building == {"submit", "build", "push"}
Ended == {"started", "failed", "killed"}

TypeOK ==
  /\ imaged \subseteq Runs
  /\ dockerfile \in Files
  /\ pc \in [Runs -> {"new", "ready"} \cup Capturing \cup Building \cup Ended]
  /\ made \subseteq Runs /\ listed \subseteq Runs
  /\ context \in [Runs -> Files]
  /\ retries \in [Runs -> 0..Retries]
  /\ clock \in Times
  /\ asked \in [Runs -> Times]
  /\ built \in [Times -> Files] /\ pushed \in [Times -> Files]
  /\ faults \in 0..MaxFaults

Init ==
  /\ imaged \in SUBSET Runs
  /\ dockerfile \in {NoFile, UsersFile}
  /\ pc = [r \in Runs |-> "new"]
  /\ made = {} /\ listed = {}
  /\ context = [r \in Runs |-> NoFile]
  /\ retries = [r \in Runs |-> Retries]
  /\ clock = 0
  /\ asked = [r \in Runs |-> 0]
  /\ built = [t \in Times |-> NoFile] /\ pushed = [t \in Times |-> NoFile]
  /\ faults = MaxFaults

Goto(r, from, to) == pc[r] = from /\ pc' = [pc EXCEPT ![r] = to]
Exists == dockerfile # NoFile

-----------------------------------------------------------------------------
(* Capturing the files.                                                    *)

CheckDockerfileSpecs(r) ==
  /\ Goto(r, "new", IF Exists = (r \in imaged) THEN "failed" ELSE "look")
  /\ UNCHANGED <<dockerfile, made, listed, context, requestVars, clock, imageVars, faults>>

Look(r) ==
  /\ Goto(r, "look", IF Exists THEN "list" ELSE "create")
  /\ UNCHANGED <<dockerfile, made, listed, context, requestVars, clock, imageVars, faults>>

(* mode x: not over another one that came in between.  The flag is set right *)
(* after: no interrupt comes between the two.                              *)
Create(r) ==
  /\ \/ /\ ~Exists
        /\ Goto(r, "create", "write")
        /\ dockerfile' = Generated(r, FALSE) /\ made' = made \cup {r}
     \/ /\ Exists
        /\ Goto(r, "create", "giveUp")
        /\ UNCHANGED <<dockerfile, made>>
  /\ UNCHANGED <<listed, context, requestVars, clock, imageVars, faults>>

Write(r) ==
  /\ Goto(r, "write", "list")
  /\ dockerfile' = Generated(r, TRUE)
  /\ UNCHANGED <<made, listed, context, requestVars, clock, imageVars, faults>>

List(r) ==
  /\ Goto(r, "list", "archive")
  /\ listed' = IF Exists THEN listed \cup {r} ELSE listed \ {r}
  /\ UNCHANGED <<dockerfile, made, context, requestVars, clock, imageVars, faults>>

(* A file that was listed has to be there still. *)
Archive(r) ==
  /\ Goto(r, "archive", IF r \in listed /\ ~Exists THEN "giveUp" ELSE "cleanUp")
  /\ context' = [context EXCEPT ![r] = IF r \in listed THEN dockerfile ELSE NoFile]
  /\ UNCHANGED <<dockerfile, made, listed, requestVars, clock, imageVars, faults>>

(* An interrupt or an error, which the finally clause meets. *)
CaptureRaises(r) ==
  /\ pc[r] \in Capturing \ {"cleanUp", "giveUp"}
  /\ faults > 0 /\ faults' = faults - 1
  /\ pc' = [pc EXCEPT ![r] = "giveUp"]
  /\ UNCHANGED <<dockerfile, made, listed, context, requestVars, clock, imageVars>>

(* mutant: whatever the file, and whoever made it, it is removed *)
CleanUpAlways(r) ==
  /\ Goto(r, "cleanUp", "submit") \/ Goto(r, "giveUp", "failed")
  /\ dockerfile' = NoFile
  /\ made' = made \ {r}
  /\ UNCHANGED <<listed, context, requestVars, clock, imageVars, faults>>

(* mutant: the file is removed after the archive, in no finally clause *)
CleanUpAfterwards(r) ==
  /\ Goto(r, "cleanUp", "submit") \/ Goto(r, "giveUp", "failed")
  /\ dockerfile' = IF r \in made /\ pc[r] = "cleanUp" THEN NoFile ELSE dockerfile
  /\ made' = made \ {r}
  /\ UNCHANGED <<listed, context, requestVars, clock, imageVars, faults>>

CleanUp(r) ==
  /\ Goto(r, "cleanUp", "submit") \/ Goto(r, "giveUp", "failed")
  /\ dockerfile' = IF r \in made THEN NoFile ELSE dockerfile
  /\ made' = made \ {r}
  /\ UNCHANGED <<listed, context, requestVars, clock, imageVars, faults>>

Kill(r) ==
  /\ pc[r] \notin Ended
  /\ faults > 0 /\ faults' = faults - 1
  /\ pc' = [pc EXCEPT ![r] = "killed"]
  /\ made' = made \ {r}
  /\ UNCHANGED <<dockerfile, listed, context, requestVars, clock, imageVars>>

-----------------------------------------------------------------------------
(* Having it built: create_snapshot.                                       *)

(* mutant: the time is in seconds *)
ConstructTagOfSeconds(t) == t \div 2

ConstructTag(t) == t

Tag(r) == ConstructTag(asked[r])

Submit(r) ==
  /\ Goto(r, "submit", "build")
  /\ asked' = [asked EXCEPT ![r] = clock]
  /\ UNCHANGED <<dockerfile, made, listed, context, imaged, retries, clock, imageVars, faults>>

(* A Dockerfile that is missing or empty, or that was made from no image,  *)
(* is refused.                                                             *)
Buildable(file) == file.whole /\ file.by \in imaged \cup {"user"}

Build(r) ==
  /\ Buildable(context[r])
  /\ Goto(r, "build", "push")
  /\ built' = [built EXCEPT ![Tag(r)] = context[r]]
  /\ UNCHANGED <<dockerfile, made, listed, context, requestVars, clock, pushed, faults>>

(* mutant: the retries are not counted *)
BuildDeniedForever(r) ==
  /\ retries[r] > 0
  /\ Goto(r, "build", "look")
  /\ UNCHANGED <<dockerfile, made, listed, context, requestVars, clock, imageVars, faults>>

(* "pull access denied": all of it is done again, but for the check of the *)
(* configuration against the Dockerfile                                    *)
BuildDenied(r) ==
  /\ retries[r] > 0
  /\ Goto(r, "build", "look")
  /\ retries' = [retries EXCEPT ![r] = @ - 1]
  /\ UNCHANGED <<dockerfile, made, listed, context, imaged, asked, clock, imageVars, faults>>

(* another error among the messages, no retry left, or no id at the end *)
BuildFails(r) ==
  /\ Goto(r, "build", "failed") \/ Goto(r, "push", "failed")
  /\ UNCHANGED <<dockerfile, made, listed, context, requestVars, clock, imageVars, faults>>

(* The registry's messages are only logged: an error goes unnoticed.  (With *)
(* local images, the docker host of the controller is the registry.)       *)
Push(r) ==
  /\ Goto(r, "push", "ready")
  /\ pushed' \in {pushed, [pushed EXCEPT ![Tag(r)] = built[Tag(r)]]}
  /\ UNCHANGED <<dockerfile, made, listed, context, requestVars, clock, built, faults>>

(* The request that starts the execution, up to its container's image. *)
Launch(r) ==
  /\ Goto(r, "ready", IF pushed[Tag(r)] = NoFile THEN "failed" ELSE "started")
  /\ UNCHANGED <<dockerfile, made, listed, context, requestVars, clock, imageVars, faults>>

Tick ==
  /\ clock < MaxTime /\ clock' = clock + 1
  /\ UNCHANGED <<dockerfile, pc, made, listed, context, requestVars, imageVars, faults>>

-----------------------------------------------------------------------------
RunStep(r) ==
  \/ CheckDockerfileSpecs(r) \/ Look(r) \/ Create(r) \/ Write(r) \/ List(r)
  \/ Archive(r) \/ CleanUp(r) \/ Submit(r) \/ Build(r) \/ BuildDenied(r)
  \/ BuildFails(r) \/ Push(r) \/ Launch(r)

Next ==
  \/ \E r \in Runs : RunStep(r) \/ CaptureRaises(r) \/ Kill(r)
  \/ Tick

Spec == Init /\ [][Next]_vars

(* The client goes on, and the controller answers or the connection ends. *)
FairSpec == Spec /\ \A r \in Runs : WF_vars(RunStep(r))

-----------------------------------------------------------------------------
(* The working directory stays as the user has it: a plz.Dockerfile of the *)
(* user's is never touched, whichever runs come across one, and one that   *)
(* was made for a run is gone when that run captures no more, interrupts   *)
(* and errors included, unless it was killed.                              *)
DirectoryIsKept ==
  /\ [][dockerfile = UsersFile => UNCHANGED dockerfile]_vars
  /\ [](dockerfile.by \in Runs =>
          \/ dockerfile.by \in made /\ pc[dockerfile.by] \in Capturing
          \/ pc[dockerfile.by] = "killed")

(* An execution runs the image that its run had built from what it last    *)
(* captured, unless that of another run was asked for in the same          *)
(* millisecond: also after retries, and when pushing an image failed.      *)
RunsWhatWasCaptured ==
  [][\A r \in Runs :
       pc[r] = "ready" /\ pc'[r] = "started" =>
         \/ pushed[Tag(r)] = context[r]
         \/ \E q \in Runs \ {r} : asked[q] = asked[r]]_vars

(* Capturing and building end, whatever is retried. *)
SnapshotEnds ==
  \A r \in Runs : pc[r] = "look" ~> pc[r] \in {"ready"} \cup Ended
=============================================================================
