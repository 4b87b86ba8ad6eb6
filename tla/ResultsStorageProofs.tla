------------------------ MODULE ResultsStorageProofs ------------------------
(***************************************************************************)
(* What ResultsStorage guarantees for any number of writers and readers:   *)
(* finished directories are whole and final, the history lists nothing but *)
(* results, nothing but a burial that failed is lost, and the storage      *)
(* implements AtomicResults.                                               *)
(***************************************************************************)
EXTENDS ResultsStorage, TLAPS

(* Whoever is inside publish, write_tombstone or get owns the lock. *)
LockInv == \A p \in Procs : pc[p] \in Locked => owner = p

(* Which files an attempt has written by the time it writes the given one. *)
Before ==
  [status |-> {}, logs |-> {"status"}, output |-> {"status", "logs"},
   measures |-> {"status", "logs", "output"},
   metadata |-> {"status", "logs", "output", "measures"},
   tombstone |-> {}]

Target(w) == IF job[w] = "publish" THEN ResultFiles ELSE {"tombstone"}

(* The directory as a writer under way left it: what it wrote is whole,    *)
(* and nothing else is there but the file it is writing.                   *)
Knows(w) ==
  /\ pc[w] = "clear" => ~Finished
  /\ pc[w] \in DataFiles =>
       /\ pc[w] \in Target(w)
       /\ \A f \in Files \ {pc[w]} :
            content[f] = IF f \in Before[pc[w]] THEN "whole" ELSE "none"
  /\ pc[w] = "finished" =>
       \A f \in Files : content[f] = IF f \in Target(w) THEN "whole" ELSE "none"
  /\ pc[w] \in {"user", "project"} => Record = "results"
  /\ pc[w] \in {"release", "verify", "delist"} => Finished

WriterInv == \A w \in Writers : Knows(w)

(* What was let go of, and what readers were told, agree with the files.   *)
OutsideInv ==
  /\ home = "gone" => Finished
  /\ history # {} => Record = "results"
  /\ \A r \in Readers :
       /\ pc[r] = "ask" => got[r] = "nothing"
       /\ pc[r] = "look" => got[r] = "nothing"
       /\ pc[r] = "lookup" => got[r] = "none"
       /\ pc[r] = "notfound" => Finished \/ home = "abandoned"
       /\ pc[r] = "idle" => got[r] = "nothing"

(* The inductive invariant: that .finished is written last is only worth   *)
(* something because the writer that clears the directory, or writes to    *)
(* it, is the only one there (LockInv) and looked for .finished before.    *)
StorageInv ==
  /\ TypeOK
  /\ LockInv
  /\ WriterInv
  /\ OutsideInv
  /\ FinishedIsWhole

-----------------------------------------------------------------------------
(* The initial state satisfies the whole of the inductive invariant. *)
LEMMA InitInv == Init => StorageInv
BY StorageAssumption
   DEF Init, StorageInv, TypeOK, LockInv, WriterInv, Knows, OutsideInv,
       FinishedIsWhole, Finished, Record, Procs, Files, DataFiles, ResultFiles,
       Locked, Writing, Peeking, Looking, WriterPc, ReaderPc

(* What TypeOK says of pc, and of the rest of the state. *)
PcOK ==
  /\ pc \in [Procs -> WriterPc \cup ReaderPc]
  /\ \A w \in Writers : pc[w] \in WriterPc
  /\ \A r \in Readers : pc[r] \in ReaderPc

DataOK ==
  /\ content \in [Files -> {"none", "torn", "whole"}]
  /\ owner \in Procs \cup {Free, Orphan}
  /\ history \subseteq {"user", "project"}
  /\ home \in {"exited", "terminated", "gone", "abandoned"}
  /\ job \in [Writers -> {"publish", "bury"}]
  /\ got \in [Readers -> {"nothing", "none", "results", "tombstone"}]

(* A process that goes to a place of its kind leaves pc well typed. *)
LEMMA Goes ==
  ASSUME PcOK, NEW p \in Procs, NEW x,
         p \in Writers => x \in WriterPc,
         p \in Readers => x \in ReaderPc,
         pc' = [pc EXCEPT ![p] = x]
  PROVE  PcOK'
BY StorageAssumption DEF PcOK, Procs

(* The places the actions name. *)
LEMMA Places ==
  /\ {"idle", "peek", "peeked", "lock", "check", "clear", "finished", "user",
      "project", "release", "verify", "delist", "abandon"} \cup DataFiles \subseteq WriterPc
  /\ {"idle", "ask", "look", "unlook", "lookup", "answered", "ongoing",
      "notfound"} \subseteq ReaderPc
BY DEF WriterPc, ReaderPc, Writing, Peeking, Looking

(* Writers and readers keep pc in its type. *)
LEMMA PcStep == TypeOK /\ [Next]_vars => PcOK'
<1> SUFFICES ASSUME TypeOK, [Next]_vars
             PROVE  PcOK'
  OBVIOUS
<1>0. PcOK
  BY DEF TypeOK, PcOK
<1>1. ASSUME NEW w \in Writers,
             BeginPublish(w) \/ BeginBurial(w) \/ WriterStep(w)
      PROVE  PcOK'
  <2>1. \/ UNCHANGED pc
        \/ \E x \in WriterPc : pc' = [pc EXCEPT ![w] = x]
    <3>1. CASE BeginPublish(w) \/ BeginBurial(w) \/ Peek(w) \/ Peeked(w)
                 \/ Enter(w) \/ Leave(w) \/ Check(w)
      BY <3>1, Places DEF BeginPublish, BeginBurial, Peek, Peeked, Enter, Leave,
                          Check, Lock, Unlock, Goto
    <3>2. CASE Clear(w) \/ Open(w)
      BY <3>2, Places DEF Clear, Open, FirstFile, Goto, DataFiles, ResultFiles
    <3>3. CASE Close(w)
      <4>1. \A f \in DataFiles : Afterwards[f] \in WriterPc
        BY Places DEF Afterwards, DataFiles, ResultFiles
      <4>2. QED
        BY <3>3, <4>1 DEF Close, Goto
    <3>4. CASE MarkFinished(w) \/ AddToHistory(w) \/ Raise(w) \/ Verify(w) \/ Delist(w)
      BY <3>4, Places DEF MarkFinished, AddToHistory, Raise, Verify, Delist, Goto
    <3>5. QED
      BY <1>1, <3>1, <3>2, <3>3, <3>4 DEF WriterStep
  <2>2. w \in Procs /\ w \notin Readers
    BY StorageAssumption DEF Procs
  <2>3. CASE UNCHANGED pc
    BY <1>0, <2>3 DEF PcOK
  <2>4. CASE \E x \in WriterPc : pc' = [pc EXCEPT ![w] = x]
    BY <1>0, <2>2, <2>4, Goes
  <2>5. QED
    BY <2>1, <2>3, <2>4
<1>2. ASSUME NEW r \in Readers, Ask(r) \/ ReaderStep(r)
      PROVE  PcOK'
  <2>1. \E x \in ReaderPc : pc' = [pc EXCEPT ![r] = x]
    BY <1>2, Places DEF Ask, ReaderStep, EnterToLook, Look, LeaveLooking,
                        LookUpInstance, Done, Lock, Unlock, Goto
  <2>2. r \in Procs /\ r \notin Writers
    BY StorageAssumption DEF Procs
  <2>3. QED
    BY <1>0, <2>1, <2>2, Goes
<1>3. ASSUME NEW p \in Procs, Die(p)
      PROVE  PcOK'
  BY <1>0, <1>3, Goes, Places DEF Die
<1>4. CASE Terminate \/ UNCHANGED vars
  BY <1>0, <1>4 DEF Terminate, vars, PcOK
<1>5. QED
  BY <1>1, <1>2, <1>3, <1>4 DEF Next

(* They keep the rest of the state in its type. *)
LEMMA DataStep == TypeOK /\ [Next]_vars => DataOK'
<1> SUFFICES ASSUME TypeOK, [Next]_vars
             PROVE  DataOK'
  OBVIOUS
<1>0. DataOK
  BY DEF TypeOK, DataOK
<1> USE <1>0 DEF DataOK, Procs, storeVars
<1>1. ASSUME NEW w \in Writers,
             BeginPublish(w) \/ BeginBurial(w) \/ Peek(w) \/ Peeked(w)
               \/ Enter(w) \/ Leave(w) \/ Check(w) \/ Raise(w)
      PROVE  DataOK'
  BY <1>1 DEF BeginPublish, BeginBurial, Peek, Peeked, Enter, Leave, Check,
              Raise, Lock, Unlock, Goto
<1>2. ASSUME NEW w \in Writers, Clear(w) \/ Open(w) \/ Close(w) \/ MarkFinished(w)
      PROVE  DataOK'
  BY <1>2 DEF Clear, Open, Close, MarkFinished
<1>3. ASSUME NEW w \in Writers, AddToHistory(w) \/ Verify(w) \/ Delist(w)
      PROVE  DataOK'
  BY <1>3 DEF AddToHistory, Verify, Delist
<1>4. ASSUME NEW r \in Readers, Ask(r) \/ ReaderStep(r)
      PROVE  DataOK'
  BY <1>4 DEF Ask, ReaderStep, EnterToLook, Look, LeaveLooking,
              LookUpInstance, Done, Record, Lock, Unlock
<1>5. ASSUME NEW p \in Procs, Die(p)
      PROVE  DataOK'
  BY <1>5 DEF Die
<1>6. CASE Terminate \/ UNCHANGED vars
  BY <1>6 DEF Terminate, vars
<1>7. QED
  BY <1>1, <1>2, <1>3, <1>4, <1>5, <1>6 DEF Next, WriterStep

(* So every step keeps the whole state in its type. *)
LEMMA TypeStep == TypeOK /\ [Next]_vars => TypeOK'
BY PcStep, DataStep DEF TypeOK, PcOK, DataOK

(* Type correctness of ResultsStorage, TypeOK. *)
THEOREM TypeCorrect == Spec => []TypeOK
<1>1. Init => TypeOK
  BY InitInv DEF StorageInv
<1>2. QED
  BY <1>1, TypeStep, PTL DEF Spec

(* The lock is given back only by its owner. *)
LEMMA LockStep == TypeOK /\ LockInv /\ [Next]_vars => LockInv'
<1> SUFFICES ASSUME TypeOK, LockInv, [Next]_vars
             PROVE  LockInv'
  OBVIOUS
<1> USE StorageAssumption
    DEF TypeOK, LockInv, Procs, Files, DataFiles, ResultFiles, storeVars,
        Locked, Writing, Peeking, Looking, WriterPc, ReaderPc
<1>1. ASSUME NEW w \in Writers, BeginPublish(w) \/ BeginBurial(w)
      PROVE  LockInv'
  BY <1>1 DEF BeginPublish, BeginBurial, Goto
<1>2. ASSUME NEW w \in Writers, Peek(w) \/ Peeked(w) \/ Enter(w) \/ Leave(w)
      PROVE  LockInv'
  BY <1>2 DEF Peek, Peeked, Enter, Leave, Lock, Unlock, Goto
<1>3. ASSUME NEW w \in Writers, Check(w) \/ Clear(w) \/ Open(w)
      PROVE  LockInv'
  BY <1>3 DEF Check, Clear, Open, FirstFile, Goto
<1>4. ASSUME NEW w \in Writers, Close(w)
      PROVE  LockInv'
  BY <1>4 DEF Close, Afterwards, Goto
<1>5. ASSUME NEW w \in Writers, MarkFinished(w) \/ AddToHistory(w)
      PROVE  LockInv'
  BY <1>5 DEF MarkFinished, AddToHistory, Goto
<1>6. ASSUME NEW w \in Writers, Raise(w) \/ Verify(w) \/ Delist(w)
      PROVE  LockInv'
  BY <1>6 DEF Raise, Verify, Delist, Goto
<1>7. ASSUME NEW r \in Readers, Ask(r) \/ ReaderStep(r)
      PROVE  LockInv'
  BY <1>7 DEF Ask, ReaderStep, EnterToLook, Look, LeaveLooking,
              LookUpInstance, Done, Lock, Unlock, Goto
<1>8. ASSUME NEW p \in Procs, Die(p)
      PROVE  LockInv'
  BY <1>8 DEF Die
<1>9. CASE Terminate \/ UNCHANGED vars
  BY <1>9 DEF Terminate, vars
<1>10. QED
  BY <1>1, <1>2, <1>3, <1>4, <1>5, <1>6, <1>7, <1>8, <1>9 DEF Next, WriterStep

-----------------------------------------------------------------------------
(* A file step does nothing to what the other processes are in for, since  *)
(* they are not inside.                                                    *)
LEMMA AloneInside ==
  ASSUME TypeOK, LockInv, NEW p \in Procs, NEW q \in Procs, p # q,
         pc[p] \in Locked
  PROVE  pc[q] \notin Locked
BY StorageAssumption DEF TypeOK, LockInv

FileStep(w) == Clear(w) \/ Open(w) \/ Close(w) \/ MarkFinished(w)

(* The steps that touch the files. *)
LEMMA FilesChange ==
  ASSUME [Next]_vars, content' # content
  PROVE  \E w \in Writers : FileStep(w)
BY DEF Next, WriterStep, FileStep, BeginPublish, BeginBurial, Peek, Peeked,
       Enter, Check, AddToHistory, Leave, Raise, Verify, Delist, Ask, ReaderStep,
       EnterToLook, Look, LeaveLooking, LookUpInstance, Done, Die, Terminate,
       storeVars, vars

(* The step behind FinishedIsFinal: nobody who can touch the files is      *)
(* there once .finished is.                                                *)
LEMMA FinalStep == WriterInv /\ [Next]_vars => (Finished => content' = content)
<1> SUFFICES ASSUME WriterInv, [Next]_vars, Finished, content' # content
             PROVE  FALSE
  OBVIOUS
<1>1. PICK w \in Writers : FileStep(w)
  BY FilesChange
<1>2. Knows(w)
  BY DEF WriterInv
<1>3. pc[w] \in {"clear", "finished"} \cup DataFiles
  BY <1>1 DEF FileStep, Clear, Open, Close, MarkFinished, Goto
<1>4. pc[w] # "clear"
  BY <1>2 DEF Knows
<1>5. pc[w] # "finished"
  BY <1>2 DEF Knows, Finished, Target, Files, DataFiles, ResultFiles
<1>6. pc[w] \notin DataFiles
  BY <1>2 DEF Knows, Finished, Before, Files, DataFiles, ResultFiles
<1>7. QED
  BY <1>3, <1>4, <1>5, <1>6

(* A writer that stays where it is, while another process moves, knows     *)
(* what it knew.                                                           *)
LEMMA Unmoved ==
  ASSUME TypeOK, LockInv, WriterInv, [Next]_vars,
         NEW v \in Writers, ~FileStep(v), pc'[v] = pc[v], job'[v] = job[v]
  PROVE  Knows(v)'
<1>0. Knows(v)
  BY DEF WriterInv
<1>1. CASE content' = content
  BY <1>0, <1>1 DEF Knows, Finished, Record, Target
<1>2. CASE content' # content
  <2>1. PICK w \in Writers : FileStep(w)
    BY <1>2, FilesChange
  <2>2. pc[w] \in Locked
    BY <2>1 DEF FileStep, Clear, Open, Close, MarkFinished, Goto, Locked, Writing
  <2>3. pc[v] \notin Locked
    BY <2>1, <2>2, AloneInside DEF Procs
  <2>4. ~Finished
    BY <1>2, FinalStep
  <2>5. pc[v] \notin {"verify", "delist"} \cup Locked
    BY <1>0, <2>3, <2>4 DEF Knows
  <2>6. QED
    BY <2>5 DEF Knows, Locked, Writing
<1>3. QED
  BY <1>1, <1>2

(* A step of the writer itself, between two places that touch no file. *)
LEMMA Moved ==
  ASSUME TypeOK, LockInv, WriterInv, FinishedIsWhole, NEW v \in Writers,
         BeginPublish(v) \/ BeginBurial(v) \/ WriterStep(v), ~FileStep(v)
  PROVE  Knows(v)'
<1>0. Knows(v) /\ pc \in [Procs -> WriterPc \cup ReaderPc]
        /\ job \in [Writers -> {"publish", "bury"}] /\ v \in Procs
  BY DEF WriterInv, TypeOK, Procs
<1>1. CASE BeginPublish(v) \/ BeginBurial(v) \/ Peek(v) \/ Enter(v) \/ Verify(v) \/ Delist(v)
  <2>1. pc'[v] \in {"lock", "peek", "peeked", "check", "idle"}
    BY <1>0, <1>1 DEF BeginPublish, BeginBurial, Peek, Enter, Verify, Delist,
                      Lock, Goto
  <2>2. QED
    BY <2>1 DEF Knows, DataFiles, ResultFiles
<1>2. CASE Peeked(v) \/ Check(v)
  <2>1. content' = content
    BY <1>2 DEF Peeked, Check, storeVars
  <2>2. \/ pc'[v] = "lock"
        \/ pc'[v] \in {"delist", "release"} /\ Finished
        \/ pc'[v] = "clear" /\ ~Finished
    BY <1>0, <1>2 DEF Peeked, Check, Unlock, Goto
  <2>3. QED
    BY <2>1, <2>2 DEF Knows, Finished, DataFiles, ResultFiles
<1>3. CASE AddToHistory(v) \/ Leave(v)
  <2>1. content' = content
    BY <1>3 DEF AddToHistory, Leave, storeVars
  <2>2. \/ pc'[v] = "project" /\ Record = "results"
        \/ pc'[v] \in {"release", "verify", "delist"} /\ Finished
    BY <1>0, <1>3 DEF AddToHistory, Leave, Unlock, Goto, Knows, Record
  <2>3. QED
    BY <2>1, <2>2 DEF Knows, Finished, Record, DataFiles, ResultFiles
<1>4. CASE Raise(v)
  <2>1. pc'[v] \in {"idle", "abandon"}
    BY <1>0, <1>4 DEF Raise
  <2>2. QED
    BY <2>1 DEF Knows, DataFiles, ResultFiles
<1>5. QED
  BY <1>1, <1>2, <1>3, <1>4 DEF WriterStep, FileStep

(* A step of the writer itself upon the files. *)
LEMMA Wrote ==
  ASSUME TypeOK, LockInv, WriterInv, FinishedIsWhole, NEW v \in Writers, FileStep(v)
  PROVE  Knows(v)'
<1>0. Knows(v) /\ pc \in [Procs -> WriterPc \cup ReaderPc]
        /\ job \in [Writers -> {"publish", "bury"}] /\ v \in Procs
        /\ content \in [Files -> {"none", "torn", "whole"}]
  BY DEF WriterInv, TypeOK, Procs
<1>1. CASE Clear(v)
  <2>1. CASE UNCHANGED pc
    <3>1. pc'[v] = "clear" /\ ~Finished
      BY <1>0, <1>1, <2>1 DEF Clear, Goto, Knows, FirstFile
    <3>2. ~Finished'
      BY <1>0, <1>1, <3>1 DEF Clear, Finished, Files
    <3>3. QED
      BY <3>1, <3>2 DEF Knows, DataFiles, ResultFiles
  <2>2. CASE ~UNCHANGED pc
    <3>1. /\ pc'[v] = FirstFile(v) /\ job' = job /\ content' = content
          /\ \A f \in Files : content[f] = "none"
      BY <1>0, <1>1, <2>2 DEF Clear, Goto
    <3>2. FirstFile(v) \in Target(v) \cap DataFiles /\ Before[FirstFile(v)] = {}
      BY <1>0 DEF FirstFile, Target, Before, DataFiles, ResultFiles
    <3>3. QED
      BY <3>1, <3>2 DEF Knows, Target, DataFiles, ResultFiles
  <2>3. QED
    BY <2>1, <2>2
<1>2. CASE Open(v)
  <2>1. PICK f \in DataFiles :
          pc[v] = f /\ content' = [content EXCEPT ![f] = "torn"]
    BY <1>2 DEF Open
  <2>2. pc' = pc /\ job' = job
    BY <1>2 DEF Open
  <2>3. \A g \in Files \ {f} : content'[g] = content[g]
    BY <1>0, <2>1 DEF Files
  <2>4. QED
    BY <1>0, <2>1, <2>2, <2>3 DEF Knows, Target, DataFiles, ResultFiles
<1>3. CASE Close(v)
  <2>1. PICK f \in DataFiles :
          /\ pc[v] = f /\ pc' = [pc EXCEPT ![v] = Afterwards[f]]
          /\ content' = [content EXCEPT ![f] = "whole"]
    BY <1>3 DEF Close, Goto
  <2>2. job' = job /\ pc'[v] = Afterwards[f]
    BY <1>0, <1>3, <2>1 DEF Close
  <2>3. \A g \in Files :
          content'[g] = IF g \in Before[f] \cup {f} THEN "whole" ELSE "none"
    BY <1>0, <2>1 DEF Knows, Files
  <2>4. \/ /\ Afterwards[f] \in DataFiles
           /\ Before[Afterwards[f]] = Before[f] \cup {f}
           /\ Afterwards[f] \in Target(v)
        \/ Afterwards[f] = "finished" /\ Target(v) = Before[f] \cup {f}
    BY <1>0, <2>1 DEF Knows, Afterwards, Before, Target, DataFiles, ResultFiles
  <2>5. QED
    BY <2>2, <2>3, <2>4 DEF Knows, Target, DataFiles, ResultFiles
<1>4. CASE MarkFinished(v)
  <2>1. /\ pc'[v] = IF job[v] = "publish" THEN "user" ELSE "release"
        /\ content' = [content EXCEPT !["finished"] = "whole"]
    BY <1>0, <1>4 DEF MarkFinished, Goto
  <2>2. content["tombstone"] = IF job[v] = "publish" THEN "none" ELSE "whole"
    BY <1>0, <1>4 DEF MarkFinished, Goto, Knows, Target, Files, DataFiles, ResultFiles
  <2>3. /\ content'["finished"] = "whole"
        /\ content'["tombstone"] = content["tombstone"]
    BY <1>0, <2>1 DEF Files, DataFiles, ResultFiles
  <2>4. QED
    BY <2>1, <2>2, <2>3 DEF Knows, Finished, Record, DataFiles, ResultFiles
<1>5. QED
  BY <1>1, <1>2, <1>3, <1>4 DEF FileStep

(* What the writers know of the files survives each step of each process. *)
LEMMA WriterInvStep ==
  TypeOK /\ LockInv /\ WriterInv /\ FinishedIsWhole /\ [Next]_vars => WriterInv'
<1> SUFFICES ASSUME TypeOK, LockInv, WriterInv, FinishedIsWhole, [Next]_vars,
                    NEW v \in Writers
             PROVE  Knows(v)'
  BY DEF WriterInv
<1>1. CASE BeginPublish(v) \/ BeginBurial(v) \/ WriterStep(v)
  BY <1>1, Moved, Wrote
<1>2. CASE ~(BeginPublish(v) \/ BeginBurial(v) \/ WriterStep(v)) /\ ~Die(v)
  <2>1. pc'[v] = pc[v] /\ job'[v] = job[v]
    <3>1. pc \in [Procs -> WriterPc \cup ReaderPc]
            /\ job \in [Writers -> {"publish", "bury"}] /\ v \in Procs
            /\ v \notin Readers
      BY StorageAssumption DEF TypeOK, Procs
    <3>2. ASSUME NEW w \in Writers, w # v,
                 BeginPublish(w) \/ BeginBurial(w) \/ WriterStep(w)
          PROVE  pc'[v] = pc[v] /\ job'[v] = job[v]
      BY <3>1, <3>2 DEF WriterStep, BeginPublish, BeginBurial, Peek, Peeked,
           Enter, Check, Clear, Open, Close, MarkFinished, AddToHistory, Leave,
           Raise, Verify, Delist, Lock, Unlock, Goto
    <3>3. ASSUME NEW r \in Readers, Ask(r) \/ ReaderStep(r)
          PROVE  pc'[v] = pc[v] /\ job'[v] = job[v]
      BY <3>1, <3>3 DEF Ask, ReaderStep, EnterToLook, Look, LeaveLooking,
           LookUpInstance, Done, Lock, Unlock, Goto
    <3>4. ASSUME NEW p \in Procs, p # v, Die(p)
          PROVE  pc'[v] = pc[v] /\ job'[v] = job[v]
      BY <3>1, <3>4 DEF Die
    <3>5. QED
      BY <1>2, <3>2, <3>3, <3>4 DEF Next, Terminate, vars
  <2>2. ~FileStep(v)
    BY <1>2 DEF FileStep, WriterStep
  <2>3. QED
    BY <2>1, <2>2, Unmoved
<1>3. CASE Die(v)
  <2>1. pc'[v] = "idle"
    BY <1>3 DEF Die, TypeOK, Procs
  <2>2. QED
    BY <2>1 DEF Knows, DataFiles, ResultFiles
<1>4. QED
  BY <1>1, <1>2, <1>3

-----------------------------------------------------------------------------
(* Only the last file step makes a directory finished. *)
LEMMA FinishingStep ==
  ASSUME TypeOK, WriterInv, [Next]_vars, content' # content
  PROVE  /\ ~Finished
         /\ \/ ~Finished'
            \/ \E w \in Writers : MarkFinished(w)
<1>1. PICK w \in Writers : FileStep(w)
  BY FilesChange
<1>2. ~Finished
  BY FinalStep
<1>3. ASSUME Clear(w) \/ Open(w) \/ Close(w)
      PROVE  ~Finished'
  BY <1>2, <1>3 DEF Clear, Open, Close, Finished, TypeOK, Files, DataFiles, ResultFiles
<1>4. QED
  BY <1>1, <1>2, <1>3 DEF FileStep

(* What the directory is worth when its .finished is written. *)
LEMMA WhenFinished ==
  ASSUME TypeOK, WriterInv, NEW w \in Writers, MarkFinished(w)
  PROVE  /\ FinishedIsWhole'
         /\ Record' \in {"results", "tombstone"}
<1>1. \A f \in Files : content[f] = IF f \in Target(w) THEN "whole" ELSE "none"
  BY DEF WriterInv, Knows, MarkFinished, Goto
<1>2. /\ content'["finished"] = "whole"
      /\ \A f \in DataFiles : content'[f] = content[f]
  BY DEF MarkFinished, TypeOK, Files, DataFiles, ResultFiles
<1>3. Target(w) = ResultFiles \/ Target(w) = {"tombstone"}
  BY DEF Target
<1>4. QED
  BY <1>1, <1>2, <1>3
     DEF FinishedIsWhole, Finished, Record, Files, DataFiles, ResultFiles

(* FinishedIsWhole is kept by each step. *)
LEMMA WholeStep ==
  TypeOK /\ WriterInv /\ FinishedIsWhole /\ [Next]_vars => FinishedIsWhole'
<1> SUFFICES ASSUME TypeOK, WriterInv, FinishedIsWhole, [Next]_vars
             PROVE  FinishedIsWhole'
  OBVIOUS
<1>1. CASE content' = content
  BY <1>1 DEF FinishedIsWhole, Finished
<1>2. CASE content' # content
  BY <1>2, FinishingStep, WhenFinished DEF FinishedIsWhole
<1>3. QED
  BY <1>1, <1>2

(* What is outside the directory goes on agreeing with it. *)
LEMMA OutsideStep ==
  TypeOK /\ WriterInv /\ OutsideInv /\ [Next]_vars => OutsideInv'
<1> SUFFICES ASSUME TypeOK, WriterInv, OutsideInv, [Next]_vars
             PROVE  OutsideInv'
  OBVIOUS
<1>1. Finished => Finished' /\ Record' = Record
  BY FinalStep DEF Finished, Record
<1>2. /\ home' = "gone" => Finished'
      /\ home = "abandoned" => Finished' \/ home' = "abandoned"
  <2>1. CASE home' = home
    BY <1>1, <2>1 DEF OutsideInv
  <2>2. CASE home' # home
    <3>1. \/ Terminate
          \/ \E w \in Writers : Verify(w) \/ Delist(w)
      BY <2>2 DEF Next, WriterStep, BeginPublish, BeginBurial, Peek, Peeked,
           Enter, Check, Clear, Open, Close, MarkFinished, AddToHistory, Leave,
           Raise, Ask, ReaderStep, EnterToLook, Look, LeaveLooking,
           LookUpInstance, Done, Die, storeVars, vars
    <3>2. /\ home' = "gone" => Finished
          /\ home # "abandoned" \/ Finished
      BY <2>2, <3>1 DEF Terminate, Verify, Delist, Goto, WriterInv, Knows
    <3>3. QED
      BY <1>1, <3>2
  <2>3. QED
    BY <2>1, <2>2
<1>3. history' # {} => Record' = "results"
  <2>1. Record = "results" => Record' = "results"
    BY <1>1 DEF Record
  <2>2. CASE history' = history
    BY <2>1, <2>2 DEF OutsideInv
  <2>3. CASE history' # history
    <3>1. PICK w \in Writers : AddToHistory(w)
      BY <2>3 DEF Next, WriterStep, BeginPublish, BeginBurial, Peek, Peeked,
           Enter, Check, Clear, Open, Close, MarkFinished, Leave,
           Raise, Verify, Delist, Ask, ReaderStep, EnterToLook, Look,
           LeaveLooking, LookUpInstance, Done, Die, Terminate, storeVars, vars
    <3>2. Record = "results"
      BY <3>1 DEF AddToHistory, Goto, WriterInv, Knows
    <3>3. QED
      BY <2>1, <3>2
  <2>4. QED
    BY <2>2, <2>3
<1>4. ASSUME NEW r \in Readers
      PROVE  /\ pc'[r] \in {"idle", "ask", "look"} => got'[r] = "nothing"
             /\ pc'[r] = "lookup" => got'[r] = "none"
             /\ pc'[r] = "notfound" => Finished' \/ home' = "abandoned"
  <2>1. /\ pc \in [Procs -> WriterPc \cup ReaderPc]
        /\ got \in [Readers -> {"nothing", "none", "results", "tombstone"}]
        /\ r \in Procs /\ r \notin Writers
    BY StorageAssumption DEF TypeOK, Procs
  <2>2. CASE pc'[r] = pc[r] /\ got'[r] = got[r]
    BY <1>1, <1>2, <2>2 DEF OutsideInv
  <2>3. CASE Ask(r) \/ ReaderStep(r)
    <3>1. CASE Ask(r) \/ EnterToLook(r)
      BY <2>1, <3>1 DEF Ask, EnterToLook, Lock, Goto, OutsideInv
    <3>2. CASE Look(r) \/ LeaveLooking(r) \/ Done(r)
      BY <2>1, <3>2 DEF Look, LeaveLooking, Done, Unlock, Goto
    <3>3. CASE LookUpInstance(r)
      BY <1>1, <1>2, <2>1, <3>3 DEF LookUpInstance, Goto, OutsideInv, storeVars
    <3>4. QED
      BY <2>3, <3>1, <3>2, <3>3 DEF ReaderStep
  <2>4. CASE Die(r)
    BY <2>1, <2>4 DEF Die
  <2>5. CASE ~Ask(r) /\ ~ReaderStep(r) /\ ~Die(r)
    <3>1. ASSUME NEW w \in Writers,
                 BeginPublish(w) \/ BeginBurial(w) \/ WriterStep(w)
          PROVE  pc'[r] = pc[r] /\ got'[r] = got[r]
      BY <2>1, <3>1 DEF WriterStep, BeginPublish, BeginBurial, Peek, Peeked,
           Enter, Check, Clear, Open, Close, MarkFinished, AddToHistory, Leave,
           Raise, Verify, Delist, Lock, Unlock, Goto
    <3>2. ASSUME NEW q \in Readers, q # r, Ask(q) \/ ReaderStep(q)
          PROVE  pc'[r] = pc[r] /\ got'[r] = got[r]
      BY <2>1, <3>2 DEF Ask, ReaderStep, EnterToLook, Look, LeaveLooking,
           LookUpInstance, Done, Lock, Unlock, Goto
    <3>3. ASSUME NEW p \in Procs, p # r, Die(p)
          PROVE  pc'[r] = pc[r] /\ got'[r] = got[r]
      BY <2>1, <3>3 DEF Die
    <3>4. pc'[r] = pc[r] /\ got'[r] = got[r]
      BY <2>5, <3>1, <3>2, <3>3 DEF Next, Terminate, vars
    <3>5. QED
      BY <2>2, <3>4
  <2>6. QED
    BY <2>3, <2>4, <2>5
<1>5. QED
  BY <1>2, <1>3, <1>4 DEF OutsideInv

(* The inductive invariant holds. *)
LEMMA StorageInvariant == Spec => []StorageInv
<1>1. Init => StorageInv
  BY InitInv
<1>2. StorageInv /\ [Next]_vars => StorageInv'
  BY TypeStep, LockStep, WriterInvStep, OutsideStep, WholeStep DEF StorageInv
<1>3. QED
  BY <1>1, <1>2, PTL DEF Spec

-----------------------------------------------------------------------------
(* FinishedIsWhole: what publish and write_tombstone leave behind them. *)
THEOREM Whole == Spec => []FinishedIsWhole
<1>1. StorageInv => FinishedIsWhole
  BY DEF StorageInv
<1>2. QED
  BY <1>1, StorageInvariant, PTL

(* FinishedIsFinal: the claim of the comment in Executions.get. *)
THEOREM Final == Spec => FinishedIsFinal
<1>1. StorageInv /\ [Next]_vars => [Finished => UNCHANGED content]_vars
  BY FinalStep DEF StorageInv
<1>2. QED
  BY <1>1, StorageInvariant, PTL DEF Spec, FinishedIsFinal

(* HistoryHasResults: get_history never comes upon a tombstone. *)
THEOREM HistoryOfResults == Spec => []HistoryHasResults
<1>1. StorageInv => HistoryHasResults
  BY DEF StorageInv, OutsideInv, HistoryHasResults
<1>2. QED
  BY <1>1, StorageInvariant, PTL

(* NothingLost: neither deaths of workers nor failures lose an execution,  *)
(* but for a burial that raises.                                           *)
THEOREM NothingIsLost == Spec => []NothingLost
<1>1. StorageInv => NothingLost
  BY DEF StorageInv, OutsideInv, NothingLost
<1>2. QED
  BY <1>1, StorageInvariant, PTL

(* AbstractSpec: the storage implements AtomicResults. *)
THEOREM Refinement == Spec => AbstractSpec
<1>1. Init => Abstract!Init
  BY DEF Init, Abstract!Init, Record, Finished, Files
<1>2. StorageInv /\ [Next]_vars => [Abstract!Next]_(Abstract!vars)
  <2> SUFFICES ASSUME StorageInv, [Next]_vars
               PROVE  Abstract!Next \/ (Record' = Record /\ got' = got)
    BY DEF Abstract!vars
  <2>1. CASE content' # content
    <3>1. got' = got
      BY <2>1, FilesChange DEF FileStep, Clear, Open, Close, MarkFinished
    <3>2. Record = "none" /\ (Record' = "none" \/ Record' \in {"results", "tombstone"})
      BY <2>1, FinishingStep, WhenFinished DEF StorageInv, Record
    <3>3. QED
      BY <3>1, <3>2 DEF Abstract!Next, Abstract!Settle
  <2>2. CASE content' = content
    <3>1. Record' = Record
      BY <2>2 DEF Record, Finished
    <3>2. ASSUME NEW r \in Readers, Look(r)
          PROVE  Abstract!Answer(r)
      BY <3>1, <3>2 DEF Look, Goto, StorageInv, OutsideInv, Abstract!Answer
    <3>3. ASSUME NEW r \in Readers, Done(r)
          PROVE  Abstract!AskAnew(r)
      BY <3>1, <3>3 DEF Done, Abstract!AskAnew
    <3>4. ASSUME NEW p \in Procs, Die(p)
          PROVE  got' = got \/ \E r \in Readers : Abstract!AskAnew(r)
      <4>1. got \in [Readers -> {"nothing", "none", "results", "tombstone"}]
        BY DEF StorageInv, TypeOK
      <4>2. CASE p \in Readers
        <5>1. got' = [got EXCEPT ![p] = "nothing"]
          BY <3>4, <4>1 DEF Die
        <5>2. QED
          BY <3>1, <4>2, <5>1 DEF Abstract!AskAnew
      <4>3. CASE p \notin Readers
        BY <3>4, <4>1, <4>3 DEF Die
      <4>4. QED
        BY <4>2, <4>3
    <3>5. \/ got' = got
          \/ \E r \in Readers : Look(r) \/ Done(r)
          \/ \E p \in Procs : Die(p)
      BY DEF Next, WriterStep, BeginPublish, BeginBurial, Peek, Peeked, Enter,
           Check, Clear, Open, Close, MarkFinished, AddToHistory, Leave, Raise,
           Verify, Delist, Ask, ReaderStep, EnterToLook, LeaveLooking,
           LookUpInstance, Terminate, vars
    <3>6. QED
      BY <3>1, <3>2, <3>3, <3>4, <3>5 DEF Abstract!Next
  <2>3. QED
    BY <2>1, <2>2
<1>3. QED
  BY <1>1, <1>2, StorageInvariant, PTL DEF Spec, AbstractSpec, Abstract!Spec

-----------------------------------------------------------------------------
(* The converse of LockInv: the lock is given back by whoever goes, so its *)
(* owner is inside, or it is Orphan's.                                     *)
OwnerIsInside == \A p \in Procs : owner = p => pc[p] \in Locked

(* A step that changes who owns the lock takes it from Free, or is its     *)
(* owner's and gives it back or leaves it to Orphan.                       *)
OwnerMoves ==
  \/ owner' = owner
  \/ \E p \in Procs : owner = Free /\ owner' = p
  \/ \E p \in Procs, to \in {Free, Orphan} : owner = p /\ owner' = to

(* Every step of the storage is one of those, and keeps OwnerIsInside. *)
LEMMA OwnerStep ==
  TypeOK /\ LockInv /\ OwnerIsInside /\ [Next]_vars
    => OwnerMoves /\ OwnerIsInside'
<1> SUFFICES ASSUME TypeOK, LockInv, OwnerIsInside, [Next]_vars
             PROVE  OwnerMoves /\ OwnerIsInside'
  OBVIOUS
<1> USE StorageAssumption
    DEF TypeOK, LockInv, OwnerIsInside, OwnerMoves, Procs, Files, DataFiles,
        ResultFiles, storeVars, Locked, Writing, Peeking, Looking, WriterPc, ReaderPc
<1>1. ASSUME NEW w \in Writers, BeginPublish(w) \/ BeginBurial(w)
      PROVE  OwnerMoves /\ OwnerIsInside'
  BY <1>1 DEF BeginPublish, BeginBurial, Goto
<1>2. ASSUME NEW w \in Writers, Peek(w) \/ Peeked(w) \/ Enter(w) \/ Leave(w)
      PROVE  OwnerMoves /\ OwnerIsInside'
  BY <1>2 DEF Peek, Peeked, Enter, Leave, Lock, Unlock, Goto
<1>3. ASSUME NEW w \in Writers, Check(w) \/ Clear(w) \/ Open(w)
      PROVE  OwnerMoves /\ OwnerIsInside'
  BY <1>3 DEF Check, Clear, Open, FirstFile, Goto
<1>4. ASSUME NEW w \in Writers, Close(w)
      PROVE  OwnerMoves /\ OwnerIsInside'
  BY <1>4 DEF Close, Afterwards, Goto
<1>5. ASSUME NEW w \in Writers, MarkFinished(w) \/ AddToHistory(w)
      PROVE  OwnerMoves /\ OwnerIsInside'
  BY <1>5 DEF MarkFinished, AddToHistory, Goto
<1>6. ASSUME NEW w \in Writers, Raise(w) \/ Verify(w) \/ Delist(w)
      PROVE  OwnerMoves /\ OwnerIsInside'
  BY <1>6 DEF Raise, Verify, Delist, Goto
<1>7. ASSUME NEW r \in Readers, Ask(r) \/ ReaderStep(r)
      PROVE  OwnerMoves /\ OwnerIsInside'
  BY <1>7 DEF Ask, ReaderStep, EnterToLook, Look, LeaveLooking,
              LookUpInstance, Done, Lock, Unlock, Goto
<1>8. ASSUME NEW p \in Procs, Die(p)
      PROVE  OwnerMoves /\ OwnerIsInside'
  BY <1>8 DEF Die
<1>9. CASE Terminate \/ UNCHANGED vars
  BY <1>9 DEF Terminate, vars
<1>10. QED
  BY <1>1, <1>2, <1>3, <1>4, <1>5, <1>6, <1>7, <1>8, <1>9 DEF Next, WriterStep

(* LockIsLease: who is inside owns the lock and who owns it is inside, so  *)
(* a step that takes it finds nobody there and one that gives it back      *)
(* leaves nobody.                                                          *)
THEOREM LockRefinement == Spec => LockIsLease
<1> DEFINE In == {p \in Procs : pc[p] \in Locked}
<1>1. Init => Leased!Init /\ OwnerIsInside
  BY StorageAssumption
     DEF Init, Leased!Init, OwnerIsInside, Procs, Locked, Writing, Peeking,
         Looking, DataFiles, ResultFiles
<1>2. LockInv /\ LockInv' /\ OwnerIsInside /\ OwnerIsInside' /\ OwnerMoves
        => [Leased!Next]_Leased!vars
  <2> SUFFICES ASSUME LockInv, LockInv', OwnerIsInside, OwnerIsInside', OwnerMoves
               PROVE  [Leased!Next]_Leased!vars
    OBVIOUS
  <2>1. In = {p \in Procs : owner = p} /\ In' = {p \in Procs : owner' = p}
    BY DEF LockInv, OwnerIsInside
  <2>2. ASSUME owner' = owner
        PROVE  UNCHANGED Leased!vars
    BY <2>1, <2>2 DEF Leased!vars
  <2>3. ASSUME NEW p \in Procs, owner = Free, owner' = p
        PROVE  Leased!Take("results", p)
    <3>1. In' = {p} /\ owner # p
      BY <2>1, <2>3, StorageAssumption DEF Procs
    <3>2. QED
      BY <2>3, <3>1 DEF Leased!Take
  <2>4. ASSUME NEW p \in Procs, NEW to \in {Free, Orphan}, owner = p, owner' = to
        PROVE  Leased!Leave("results", p, to)
    <3>1. In' = {}
      BY <2>1, <2>4, StorageAssumption DEF Procs
    <3>2. QED
      BY <2>4, <3>1 DEF Leased!Leave
  <2>5. QED
    BY <2>2, <2>3, <2>4 DEF OwnerMoves, Leased!Next
<1>3. TypeOK /\ LockInv /\ OwnerIsInside /\ [Next]_vars => OwnerMoves /\ OwnerIsInside'
  BY OwnerStep
<1>4. Spec => [](TypeOK /\ LockInv)
  <2>1. StorageInv => TypeOK /\ LockInv
    BY DEF StorageInv
  <2>2. QED
    BY <2>1, StorageInvariant, PTL
<1>5. QED
  BY <1>1, <1>2, <1>3, <1>4, PTL DEF Spec, LockIsLease, Leased!Spec
=============================================================================
