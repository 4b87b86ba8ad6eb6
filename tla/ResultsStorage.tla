---------------------------- MODULE ResultsStorage ----------------------------
(***************************************************************************)
(* The results of one execution in the local results storage               *)
(* (controller/results/local.py): a directory of files that publish or     *)
(* write_tombstone fills one by one under a redis lock of the execution,   *)
(* with an empty file .finished at the end; the two sets of finished       *)
(* executions in redis that make up the history; the callers that publish  *)
(* before they let go of the container (docker.py) or bury a terminated    *)
(* instance (instance_base.py); and Executions.get (execution.py), which   *)
(* looks here first and at the instances next.                             *)
(*                                                                         *)
(* Executions share no file and no lock here, so one stands for all.  The  *)
(* lock of the instance also keeps writers apart; that is not used, and    *)
(* the storage is shown to be safe by its own lock.                        *)
(***************************************************************************)
EXTENDS Naturals

CONSTANTS
  Writers,        \* workers that harvest or delete the execution
  Readers,        \* workers that serve requests about it
  Free,           \* owner of the lock when nobody holds it
  Orphan,         \* owner of the lock when its holder has died
  WorkersMayDie,  \* a gunicorn worker may be killed at any point
  CallsMayFail    \* docker, redis, AWS or the file system may raise

ASSUME StorageAssumption ==
  /\ Writers \cap Readers = {}
  /\ Free # Orphan
  /\ {Free, Orphan} \cap (Writers \cup Readers) = {}
  /\ {WorkersMayDie, CallsMayFail} \subseteq BOOLEAN

Procs == Writers \cup Readers

ResultFiles == {"status", "logs", "output", "measures", "metadata"}
DataFiles == ResultFiles \cup {"tombstone"}
Files == DataFiles \cup {"finished"}

VARIABLES
  content,    \* of each file: "none" (no file), "torn" or "whole"
  owner,      \* who holds the redis lock of the execution
  history,    \* the redis sets, of the user and the project, it is in
  home,       \* its instance: container "exited", "terminated", "gone", or
              \* "abandoned": gone, too, but after a burial that failed
  pc,         \* where each process is
  job,        \* whether a writer is to "publish" or to "bury"
  got         \* what a reader got from the storage

storeVars == <<content, history, home>>
vars == <<content, owner, history, home, pc, job, got>>

Writing == {"check", "clear", "finished", "user", "project", "release"}
             \cup DataFiles
Peeking == {"peeked", "unpeek"}
Looking == {"look", "unlook"}
Locked == Writing \cup Peeking \cup Looking
WriterPc == Writing \cup Peeking
              \cup {"idle", "peek", "lock", "verify", "delist", "abandon"}
ReaderPc == Looking \cup {"idle", "ask", "lookup", "answered", "ongoing", "notfound"}

TypeOK ==
  /\ content \in [Files -> {"none", "torn", "whole"}]
  /\ owner \in Procs \cup {Free, Orphan}
  /\ history \subseteq {"user", "project"}
  /\ home \in {"exited", "terminated", "gone", "abandoned"}
  /\ pc \in [Procs -> WriterPc \cup ReaderPc]
  /\ \A w \in Writers : pc[w] \in WriterPc
  /\ \A r \in Readers : pc[r] \in ReaderPc
  /\ job \in [Writers -> {"publish", "bury"}]
  /\ got \in [Readers -> {"nothing", "none", "results", "tombstone"}]

Init ==
  /\ content = [f \in Files |-> "none"]
  /\ owner = Free
  /\ history = {}
  /\ home = "exited"
  /\ pc = [p \in Procs |-> "idle"]
  /\ job = [w \in Writers |-> "publish"]
  /\ got = [r \in Readers |-> "nothing"]

Goto(p, from, to) == pc[p] = from /\ pc' = [pc EXCEPT ![p] = to]

(* the lock is blocking, and never expires *)
Lock(p, from, to) == Goto(p, from, to) /\ owner = Free /\ owner' = p
Unlock(p, from, to) == Goto(p, from, to) /\ owner' = Free

Finished == content["finished"] = "whole"

(* what LocalResultsContext makes of the directory *)
Record ==
  IF ~Finished THEN "none"
  ELSE IF content["tombstone"] = "none" THEN "results" ELSE "tombstone"

-----------------------------------------------------------------------------
(* publish and write_tombstone.                                            *)

BeginPublish(w) ==
  /\ home = "exited"
  /\ Goto(w, "idle", "lock")
  /\ job' = [job EXCEPT ![w] = "publish"]
  /\ UNCHANGED <<storeVars, owner, got>>

BeginBurial(w) ==
  /\ home = "terminated"
  /\ Goto(w, "idle", "peek")
  /\ job' = [job EXCEPT ![w] = "bury"]
  /\ UNCHANGED <<storeVars, owner, got>>

(* harvest looks whether there are results, with a lock of its own *)
Peek(w) ==
  /\ Lock(w, "peek", "peeked")
  /\ UNCHANGED <<storeVars, job, got>>

Peeked(w) ==
  /\ \/ Finished /\ Unlock(w, "peeked", "delist")
     \/ ~Finished /\ Unlock(w, "peeked", "lock")
  /\ UNCHANGED <<storeVars, job, got>>

Enter(w) ==
  /\ Lock(w, "lock", "check")
  /\ UNCHANGED <<storeVars, job, got>>

Check(w) ==
  /\ \/ Finished /\ Goto(w, "check", "release")
     \/ ~Finished /\ Goto(w, "check", "clear")
  /\ UNCHANGED <<storeVars, owner, job, got>>

FirstFile(w) == IF job[w] = "publish" THEN "status" ELSE "tombstone"

(* mutant: makedirs(exist_ok=True) *)
ClearNothing(w) ==
  /\ Goto(w, "clear", FirstFile(w))
  /\ UNCHANGED <<storeVars, owner, job, got>>

(* _force_mk_empty_dir: the files there are go in whatever order rmtree    *)
(* meets them                                                              *)
Clear(w) ==
  /\ \/ /\ \A f \in Files : content[f] = "none"
        /\ Goto(w, "clear", FirstFile(w))
        /\ UNCHANGED content
     \/ /\ pc[w] = "clear"
        /\ \E f \in Files : content[f] # "none"
                              /\ content' = [content EXCEPT ![f] = "none"]
        /\ UNCHANGED pc
  /\ UNCHANGED <<owner, history, home, job, got>>

Open(w) ==
  /\ \E f \in DataFiles :
       /\ pc[w] = f /\ content[f] # "torn"
       /\ content' = [content EXCEPT ![f] = "torn"]
  /\ UNCHANGED <<owner, history, home, pc, job, got>>

(* the order in which the files are written *)
Afterwards ==
  [status |-> "logs", logs |-> "output", output |-> "measures",
   measures |-> "metadata", metadata |-> "finished", tombstone |-> "finished"]

Close(w) ==
  /\ \E f \in DataFiles :
       /\ content[f] = "torn"
       /\ Goto(w, f, Afterwards[f])
       /\ content' = [content EXCEPT ![f] = "whole"]
  /\ UNCHANGED <<owner, history, home, job, got>>

(* mutant: buried executions are added to the history too *)
MarkFinishedListing(w) ==
  /\ Goto(w, "finished", "user")
  /\ content' = [content EXCEPT !["finished"] = "whole"]
  /\ UNCHANGED <<owner, history, home, job, got>>

MarkFinished(w) ==
  /\ Goto(w, "finished", IF job[w] = "publish" THEN "user" ELSE "release")
  /\ content' = [content EXCEPT !["finished"] = "whole"]
  /\ UNCHANGED <<owner, history, home, job, got>>

(* add_finished_execution_id *)
AddToHistory(w) ==
  /\ \/ Goto(w, "user", "project") /\ history' = history \cup {"user"}
     \/ Goto(w, "project", "release") /\ history' = history \cup {"project"}
  /\ UNCHANGED <<content, owner, home, job, got>>

Leave(w) ==
  /\ Unlock(w, "release", IF job[w] = "publish" THEN "verify" ELSE "delist")
  /\ UNCHANGED <<storeVars, job, got>>

(* mutant: the tag of the instance goes even when publish raised *)
RaiseLetsGo(w) ==
  /\ CallsMayFail \/ (job[w] = "publish" /\ home # "exited")
  /\ pc[w] \in Locked
  /\ pc' = [pc EXCEPT ![w] = "delist"]
  /\ owner' = Free
  /\ UNCHANGED <<storeVars, job, got>>

(* mutant: the lock is not given back *)
RaiseLocked(w) ==
  /\ CallsMayFail \/ (job[w] = "publish" /\ home # "exited")
  /\ pc[w] \in Locked
  /\ pc' = [pc EXCEPT ![w] = IF job[w] = "publish" THEN "idle" ELSE "abandon"]
  /\ UNCHANGED <<storeVars, owner, job, got>>

(* An exception, as when the container cannot be read any more, leaves the *)
(* files as they are and gives the lock back; a burial goes on to let go   *)
(* of the instance all the same (the finally clause of harvest).           *)
Raise(w) ==
  /\ CallsMayFail \/ (job[w] = "publish" /\ home # "exited")
  /\ pc[w] \in Locked
  /\ pc' = [pc EXCEPT ![w] = IF job[w] = "publish" THEN "idle" ELSE "abandon"]
  /\ owner' = Free
  /\ UNCHANGED <<storeVars, job, got>>

(* the end of DockerInstance.release: is_finished, then the container and  *)
(* the tag go, if the instance is still there                              *)
Verify(w) ==
  /\ Goto(w, "verify", "idle")
  /\ home' = IF home = "exited" /\ Finished THEN "gone" ELSE home
  /\ UNCHANGED <<content, owner, history, job, got>>

Delist(w) ==
  /\ \/ Goto(w, "delist", "idle") /\ home' = "gone"
     \/ Goto(w, "abandon", "idle") /\ home' = IF home = "gone" THEN "gone" ELSE "abandoned"
  /\ UNCHANGED <<content, owner, history, job, got>>

WriterStep(w) ==
  \/ Peek(w) \/ Peeked(w) \/ Enter(w) \/ Check(w) \/ Clear(w)
  \/ Open(w) \/ Close(w) \/ MarkFinished(w) \/ AddToHistory(w) \/ Leave(w)
  \/ Raise(w) \/ Verify(w) \/ Delist(w)

-----------------------------------------------------------------------------
(* Executions.get, and what its caller does with the answer.               *)

Ask(r) ==
  /\ Goto(r, "idle", "ask")
  /\ UNCHANGED <<storeVars, owner, job, got>>

EnterToLook(r) ==
  /\ Lock(r, "ask", "look")
  /\ UNCHANGED <<storeVars, job, got>>

(* mutant: results are there as soon as the directory is *)
LookAtDirectory(r) ==
  /\ Goto(r, "look", "unlook")
  /\ got' = [got EXCEPT ![r] =
               IF content["tombstone"] # "none" THEN "tombstone"
               ELSE IF content["status"] # "none" THEN "results" ELSE "none"]
  /\ UNCHANGED <<storeVars, owner, job>>

Look(r) ==
  /\ Goto(r, "look", "unlook")
  /\ got' = [got EXCEPT ![r] = Record]
  /\ UNCHANGED <<storeVars, owner, job>>

LeaveLooking(r) ==
  /\ Unlock(r, "unlook", IF got[r] = "none" THEN "lookup" ELSE "answered")
  /\ UNCHANGED <<storeVars, job, got>>

(* instance_for, after the lock was given back *)
LookUpInstance(r) ==
  /\ Goto(r, "lookup", IF home \in {"gone", "abandoned"} THEN "notfound" ELSE "ongoing")
  /\ UNCHANGED <<storeVars, owner, job, got>>

(* the answer was used: the files of LocalResults are read without a lock *)
Done(r) ==
  /\ pc[r] \in {"answered", "ongoing", "notfound"}
  /\ pc' = [pc EXCEPT ![r] = "idle"]
  /\ got' = [got EXCEPT ![r] = "nothing"]
  /\ UNCHANGED <<storeVars, owner, job>>

ReaderStep(r) ==
  \/ EnterToLook(r) \/ Look(r) \/ LeaveLooking(r) \/ LookUpInstance(r) \/ Done(r)

-----------------------------------------------------------------------------
Die(p) ==
  /\ WorkersMayDie /\ pc[p] # "idle"
  /\ pc' = [pc EXCEPT ![p] = "idle"]
  /\ owner' = IF owner = p THEN Orphan ELSE owner
  /\ got' = [r \in Readers |-> IF r = p THEN "nothing" ELSE got[r]]
  /\ UNCHANGED <<storeVars, job>>

(* the instance is killed, or taken back by AWS *)
Terminate ==
  /\ home = "exited"
  /\ home' = "terminated"
  /\ UNCHANGED <<content, owner, history, pc, job, got>>

Next ==
  \/ \E w \in Writers : BeginPublish(w) \/ BeginBurial(w) \/ WriterStep(w)
  \/ \E r \in Readers : Ask(r) \/ ReaderStep(r)
  \/ \E p \in Procs : Die(p)
  \/ Terminate

Spec == Init /\ [][Next]_vars

(* The harvester comes round every minute; a request is served until it is *)
(* answered, and one that waits for the lock polls it ten times a second   *)
(* while the others hold it for the length of one publish.                 *)
Fairness ==
  /\ \A w \in Writers : WF_vars(BeginPublish(w) \/ BeginBurial(w))
                          /\ SF_vars(WriterStep(w))
  /\ \A r \in Readers : SF_vars(ReaderStep(r))

FairSpec == Spec /\ Fairness

-----------------------------------------------------------------------------
(* Once .finished is there, the directory holds the results and nothing of *)
(* a tombstone, or the other way round, and every file is whole: however   *)
(* often publishing or burying was begun and cut short before.             *)
FinishedIsWhole ==
  Finished =>
    \/ /\ \A f \in ResultFiles : content[f] = "whole"
       /\ content["tombstone"] = "none"
    \/ /\ \A f \in ResultFiles : content[f] = "none"
       /\ content["tombstone"] = "whole"

(* "After written, the content of the results doesn't change"              *)
(* (execution.py, Executions.get): what a reader opens without the lock is *)
(* what it was told of.                                                    *)
FinishedIsFinal == [][Finished => UNCHANGED content]_vars

(* The storage as the rest of the controller sees it: the directory, the   *)
(* lock and the crashes implement one atomic record.                       *)
Abstract == INSTANCE AtomicResults WITH record <- Record, answer <- got

AbstractSpec == Abstract!Spec

(* Its lock, of which redis keeps only a key: whoever fills the directory, *)
(* looks at it, raises or dies there, together they use one lock of Lease. *)
Leased == INSTANCE Lease WITH
  Locks <- {"results"},
  owner <- [l \in {"results"} |-> owner],
  inside <- [l \in {"results"} |-> {p \in Procs : pc[p] \in Locked}]

LockIsLease == Leased!Spec

(* plz history gets the metadata of each execution in both redis sets:     *)
(* there are always results to take it from, and not a tombstone, which    *)
(* would raise.                                                            *)
HistoryHasResults == history = {"user", "project"} => Record = "results"

(* An execution whose instance was let go of has results or a tombstone,   *)
(* and "not found" is never said of an execution that is lost: at worst it *)
(* finished between the two places Executions.get looks at.  Deaths of     *)
(* workers lose nothing; a burial that raises is what loses an execution.  *)
NothingLost ==
  /\ home = "gone" => Finished
  /\ \A r \in Readers : pc[r] = "notfound" => Finished \/ home = "abandoned"

(* Whoever asks for the results of an execution gets an answer, while the  *)
(* writers come and go, raise and die: unless its worker dies, or one died *)
(* inside the lock.                                                        *)
ReadersAnswered ==
  \A r \in Readers :
    pc[r] = "ask" ~> \/ pc[r] \in {"answered", "ongoing", "notfound", "idle"}
                     \/ owner = Orphan

=============================================================================
