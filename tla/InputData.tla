------------------------------- MODULE InputData -------------------------------
(***************************************************************************)
(* The input data of an execution: from the files of a user to the stream  *)
(* that an instance gets (cli/input_data.py; controller/input_data.py).    *)
(*                                                                         *)
(* A client takes the latest modification time of the directories of its   *)
(* input and asks the controller for the input it knows for that time.     *)
(* Only if there is none does it build a tarball, whose hash is the id of  *)
(* the input, ask whether the controller has it, and upload it if not.     *)
(* The controller keeps the inputs as files named by their hash, and in a  *)
(* redis hash the id last seen for a user, project, path and time.         *)
(*                                                                         *)
(* One user, project and path; several runs of the client, while the files *)
(* change and inputs get deleted.  The hash is the content itself.  The    *)
(* files are in one directory, whose time moves when a file comes or goes  *)
(* and, each such time, by a millisecond at least.                         *)
(***************************************************************************)
EXTENDS Naturals

CONSTANTS
  Clients,        \* runs of the client
  Files,          \* the names of files
  Versions,       \* what a file may contain
  Absent,         \* there is no such file
  Cut,            \* a version of a file, cut to the size of another
  MaxTime,        \* bound on the changes that move the time of the directory
  InPlaceEdits,   \* a file may be written without replacing it
  InputsDeleted,  \* DELETE /data/input/<id> is called
  CallsMayFail,   \* redis and the disk may raise, an upload may be cut short
  ServerMayDie,   \* the gunicorn worker of a request may die
  None, Torn      \* no id, no file; what a cut upload leaves

ASSUME InputAssumption ==
  /\ Absent \notin Versions /\ Cut \notin Versions \cup {Absent}
  /\ MaxTime \in Nat
  /\ {InPlaceEdits, InputsDeleted, CallsMayFail, ServerMayDie} \subseteq BOOLEAN

States == Versions \cup {Absent}
Contents == [Files -> States \cup {Cut}]

ASSUME NoContentAssumption == None \notin Contents /\ Torn \notin Contents

VARIABLES
  files,    \* the files of the user
  time,     \* the modification time of their directory
  pc,       \* where each client, and the request it waits for, is
  stamp,    \* its timestamp_millis
  unread,   \* the files of its listing it has not read yet
  tarball,  \* what it has read
  wanted,   \* the input id it works with
  temp,     \* the temporary file of its upload
  input,    \* what prepare_input_stream opened for its run
  stored,   \* input_dir: the content of the file named by each id
  cache,    \* redis: the input id for a time
  seen,     \* history: the contents each file has had since a client began
  removed,  \* history: its input was deleted after it was told of it
  edited    \* history: some file was written in place

clientVars == <<pc, stamp, unread, tarball, wanted, temp, input>>
vars == <<files, time, clientVars, stored, cache, seen, removed, edited>>

TypeOK ==
  /\ files \in [Files -> States]
  /\ time \in 0..MaxTime
  /\ pc \in [Clients -> {"idle", "lookup", "cached", "list", "read", "copy", "check",
                         "store", "put", "receive", "verify", "remember", "run", "running",
                         "missing", "failed", "dead"}]
  /\ stamp \in [Clients -> 0..MaxTime]
  /\ unread \in [Clients -> SUBSET Files]
  /\ tarball \in [Clients -> Contents]
  /\ wanted \in [Clients -> Contents \cup {None}]
  /\ temp \in [Clients -> Contents \cup {None, Torn}]
  /\ input \in [Clients -> Contents \cup {None}]
  /\ stored \in [Contents -> Contents \cup {None, Torn}]
  /\ cache \in [0..MaxTime -> Contents \cup {None}]
  /\ seen \in [Clients -> [Files -> SUBSET States]]
  /\ removed \in [Clients -> BOOLEAN]
  /\ edited \in BOOLEAN

Empty == [f \in Files |-> Absent]
Unseen == [f \in Files |-> {}]

Init ==
  /\ files \in [Files -> Versions]
  /\ time = 0
  /\ pc = [c \in Clients |-> "idle"]
  /\ stamp = [c \in Clients |-> 0]
  /\ unread = [c \in Clients |-> {}]
  /\ tarball = [c \in Clients |-> Empty]
  /\ wanted = [c \in Clients |-> None]
  /\ temp = [c \in Clients |-> None]
  /\ input = [c \in Clients |-> None]
  /\ stored = [i \in Contents |-> None]
  /\ cache = [t \in 0..MaxTime |-> None]
  /\ seen = [c \in Clients |-> Unseen]
  /\ removed = [c \in Clients |-> FALSE]
  /\ edited = FALSE

InputFileExists(i) == stored[i] # None
Goto(c, from, to) == pc[c] = from /\ pc' = [pc EXCEPT ![c] = to]

(* A client ends, and what it worked with goes with it.  A temporary file  *)
(* a dead worker leaves is found by nobody, and not kept track of.         *)
End(c, to) ==
  /\ pc' = [pc EXCEPT ![c] = to]
  /\ unread' = [unread EXCEPT ![c] = {}]
  /\ tarball' = [tarball EXCEPT ![c] = Empty]
  /\ wanted' = [wanted EXCEPT ![c] = None]
  /\ temp' = [temp EXCEPT ![c] = None]

-----------------------------------------------------------------------------
(* The user's files.                                                       *)

Change(f, v) ==
  /\ files' = [files EXCEPT ![f] = v]
  /\ seen' = [c \in Clients |-> IF seen[c] = Unseen THEN Unseen
                                ELSE [seen[c] EXCEPT ![f] = @ \cup {v}]]
  /\ UNCHANGED <<clientVars, stored, cache, removed>>

(* create, delete, or replace by renaming *)
Replace ==
  /\ time < MaxTime /\ time' = time + 1
  /\ \E f \in Files, v \in States : v # files[f] /\ Change(f, v)
  /\ UNCHANGED edited

Overwrite ==
  /\ InPlaceEdits /\ edited' = TRUE /\ UNCHANGED time
  /\ \E f \in Files, v \in Versions :
       files[f] \notin {v, Absent} /\ Change(f, v)

-----------------------------------------------------------------------------
(* LocalInputData.__enter__.                                               *)

Start(c) ==
  /\ Goto(c, "idle", "lookup")
  /\ stamp' = [stamp EXCEPT ![c] = time]
  /\ seen' = [seen EXCEPT ![c] = [f \in Files |-> {files[f]}]]
  /\ UNCHANGED <<files, time, unread, tarball, wanted, temp, input, stored, cache,
                 removed, edited>>

(* get_input_id_from_metadata_or_none: the hash, then the file *)
LookUp(c) ==
  /\ pc[c] = "lookup"
  /\ IF cache[stamp[c]] = None
     THEN Goto(c, "lookup", "list") /\ UNCHANGED wanted
     ELSE Goto(c, "lookup", "cached") /\ wanted' = [wanted EXCEPT ![c] = cache[stamp[c]]]
  /\ UNCHANGED <<files, time, stamp, unread, tarball, temp, input, stored, cache,
                 seen, removed, edited>>

(* mutant: the id is good whether or not there is a file *)
LookUpTrusting(c) ==
  /\ Goto(c, "cached", "run")
  /\ removed' = [removed EXCEPT ![c] = FALSE]
  /\ UNCHANGED <<files, time, stamp, unread, tarball, wanted, temp, input, stored,
                 cache, seen, edited>>

LookUpFile(c) ==
  /\ pc[c] = "cached"
  /\ IF InputFileExists(wanted[c])
     THEN Goto(c, "cached", "run") /\ UNCHANGED wanted
     ELSE Goto(c, "cached", "list") /\ wanted' = [wanted EXCEPT ![c] = None]
  /\ removed' = [removed EXCEPT ![c] = FALSE]
  /\ UNCHANGED <<files, time, stamp, unread, tarball, temp, input, stored, cache,
                 seen, edited>>

List(c) ==
  /\ Goto(c, "list", "read")
  /\ unread' = [unread EXCEPT ![c] = {f \in Files : files[f] # Absent}]
  /\ UNCHANGED <<files, time, stamp, tarball, wanted, temp, input, stored, cache,
                 seen, removed, edited>>

(* Of each file the size is taken first: os.stat.  A file that is gone by  *)
(* now ends the client.                                                    *)
StatFile(c) ==
  /\ pc[c] = "read"
  /\ \E f \in unread[c] :
       \/ files[f] = Absent /\ End(c, "failed")
       \/ /\ files[f] # Absent /\ Goto(c, "read", "copy")
          /\ tarball' = [tarball EXCEPT ![c][f] = files[f]]
          /\ UNCHANGED <<unread, wanted, temp>>
  /\ UNCHANGED <<files, time, stamp, input, stored, cache, seen, removed, edited>>

(* Then the file is opened, and as many bytes are copied.  If it was       *)
(* replaced in between, it may be of the same size; of a longer one the    *)
(* end is missing, and a shorter one makes tarfile raise.                  *)
CopyFile(c) ==
  /\ pc[c] = "copy"
  /\ \E f \in unread[c] :
       /\ tarball[c][f] # Absent
       /\ \/ files[f] # tarball[c][f] /\ End(c, "failed")
          \/ /\ files[f] # Absent /\ Goto(c, "copy", "read")
             /\ unread' = [unread EXCEPT ![c] = @ \ {f}]
             /\ \/ tarball' = [tarball EXCEPT ![c][f] = files[f]]
                \/ /\ files[f] # tarball[c][f]
                   /\ tarball' = [tarball EXCEPT ![c][f] = Cut]
             /\ UNCHANGED <<wanted, temp>>
  /\ UNCHANGED <<files, time, stamp, input, stored, cache, seen, removed, edited>>

-----------------------------------------------------------------------------
(* LocalInputData.publish.                                                 *)

ComputeInputId(c) ==
  /\ Goto(c, "read", "check") /\ unread[c] = {}
  /\ wanted' = [wanted EXCEPT ![c] = tarball[c]]
  /\ UNCHANGED <<files, time, stamp, unread, tarball, temp, input, stored, cache,
                 seen, removed, edited>>

(* check_input_data: the file, then the hash *)
CheckFile(c) ==
  /\ pc[c] = "check"
  /\ IF InputFileExists(wanted[c]) THEN Goto(c, "check", "store")
                                   ELSE Goto(c, "check", "put")
  /\ removed' = [removed EXCEPT ![c] = FALSE]
  /\ UNCHANGED <<files, time, stamp, unread, tarball, wanted, temp, input, stored,
                 cache, seen, edited>>

StoreInputId(c, from, t) ==
  /\ Goto(c, from, "run")
  /\ cache' = [cache EXCEPT ![t] = wanted[c]]
  /\ UNCHANGED <<files, time, stamp, unread, tarball, wanted, temp, input, stored,
                 seen, removed, edited>>

(* mutant: the time is taken again *)
CheckStoreNow(c) == StoreInputId(c, "store", time)

CheckStore(c) == StoreInputId(c, "store", stamp[c])

-----------------------------------------------------------------------------
(* publish_input_data, on the controller.                                  *)

Put(c) ==
  /\ pc[c] = "put"
  /\ IF InputFileExists(wanted[c])
     THEN Goto(c, "put", "run") /\ UNCHANGED temp
     ELSE Goto(c, "put", "receive") /\ temp' = [temp EXCEPT ![c] = Torn]
  /\ removed' = [removed EXCEPT ![c] = FALSE]
  /\ UNCHANGED <<files, time, stamp, unread, tarball, wanted, input, stored, cache,
                 seen, edited>>

(* a stream that is cut short looks like one that ends *)
Receive(c) ==
  /\ Goto(c, "receive", "verify")
  /\ \/ temp' = [temp EXCEPT ![c] = tarball[c]]
     \/ CallsMayFail /\ UNCHANGED temp
  /\ UNCHANGED <<files, time, stamp, unread, tarball, wanted, input, stored, cache,
                 seen, removed, edited>>

Renamed(c) ==
  /\ Goto(c, "verify", "remember")
  /\ stored' = [stored EXCEPT ![wanted[c]] = temp[c]]
  /\ temp' = [temp EXCEPT ![c] = None]
  /\ removed' = [removed EXCEPT ![c] = FALSE]
  /\ UNCHANGED <<files, time, stamp, unread, tarball, wanted, input, cache, seen, edited>>

(* IncorrectInputIDException *)
Refused(c) ==
  /\ pc[c] = "verify" /\ End(c, "failed")
  /\ UNCHANGED <<files, time, stamp, input, stored, cache, seen, removed, edited>>

(* mutant: the hash is not compared *)
VerifyNothing(c) == Renamed(c)

Verify(c) ==
  \/ temp[c] = wanted[c] /\ Renamed(c)
  \/ temp[c] # wanted[c] /\ Refused(c)

Remember(c) == StoreInputId(c, "remember", stamp[c])

-----------------------------------------------------------------------------
(* A run with the input of an earlier one (`input_id://'), which was told  *)
(* that it is there.                                                       *)
StartById(c) ==
  /\ Goto(c, "idle", "run")
  /\ \E i \in Contents : stored[i] # None /\ wanted' = [wanted EXCEPT ![c] = i]
  /\ UNCHANGED <<files, time, stamp, unread, tarball, temp, input, stored, cache,
                 seen, removed, edited>>

(* prepare_input_stream *)
Open(c) ==
  /\ pc[c] = "run"
  /\ \/ /\ InputFileExists(wanted[c])
        /\ Goto(c, "run", "running")
        /\ input' = [input EXCEPT ![c] = stored[wanted[c]]]
        /\ UNCHANGED <<unread, tarball, wanted, temp>>
     \/ ~InputFileExists(wanted[c]) /\ End(c, "missing") /\ UNCHANGED input
  /\ UNCHANGED <<files, time, stamp, stored, cache, seen, removed, edited>>

DeleteInputData(i) ==
  /\ InputsDeleted /\ InputFileExists(i)
  /\ stored' = [stored EXCEPT ![i] = None]
  /\ removed' = [c \in Clients |-> removed[c] \/ wanted[c] = i]
  /\ UNCHANGED <<files, time, clientVars, cache, seen, edited>>

-----------------------------------------------------------------------------
(* A request raises: the client ends, and an upload removes its temporary  *)
(* file, if that was not renamed.                                          *)
InRequest == {"lookup", "cached", "check", "store", "put", "receive", "verify",
              "remember"}

Raise(c) ==
  /\ CallsMayFail
  /\ pc[c] \in InRequest /\ End(c, "failed")
  /\ UNCHANGED <<files, time, stamp, input, stored, cache, seen, removed, edited>>

Die(c) ==
  /\ ServerMayDie
  /\ pc[c] \in InRequest /\ End(c, "dead")
  /\ UNCHANGED <<files, time, stamp, input, stored, cache, seen, removed, edited>>

-----------------------------------------------------------------------------
Client(c) ==
  \/ Start(c) \/ LookUp(c) \/ LookUpFile(c) \/ List(c) \/ StatFile(c)
  \/ CopyFile(c) \/ ComputeInputId(c) \/ CheckFile(c) \/ CheckStore(c)
  \/ Put(c) \/ Receive(c) \/ Verify(c) \/ Remember(c) \/ StartById(c) \/ Open(c)

Next ==
  \/ Replace \/ Overwrite
  \/ \E i \in Contents : DeleteInputData(i)
  \/ \E c \in Clients : Client(c) \/ Raise(c) \/ Die(c)

Spec == Init /\ [][Next]_vars

-----------------------------------------------------------------------------
(* An input is stored under its own hash and whole, whatever uploads were  *)
(* cut short, died or raced: what a run opens is what its id says.         *)
StoredIsNamed ==
  /\ \A i \in Contents : stored[i] \in {None, i}
  /\ \A c \in Clients : input[c] \in {None, wanted[c]}

(* The client has its input, and it is one of these files.                 *)
Supplied(c) == pc[c] \in {"run", "running"} /\ seen[c] # Unseen


(* The file has been another since the client began. *)
Replaced(c, f) == \E v, w \in seen[c][f] : v # w

(* As much holds as long as files change only by being replaced, which     *)
(* moves the time of the directory: neither a slow upload nor a directory  *)
(* that changes while it is read puts an old input under a new time.  But  *)
(* a file replaced since the client began may have gone in with its end    *)
(* cut off.                                                                *)
FreshUnlessEdited ==
  ~edited =>
    \A c \in Clients :
      Supplied(c) => \A f \in Files :
                       \/ wanted[c][f] \in seen[c][f]
                       \/ wanted[c][f] = Cut /\ Replaced(c, f)

(* A run fails to find its input only if somebody deleted it after the     *)
(* client was told, or saw to it, that the controller has it: neither an   *)
(* id left in redis nor a race of two uploads leads there.                 *)
MissingWasDeleted ==
  \A c \in Clients :
    pc[c] = "missing" => InputsDeleted /\ removed[c]

=============================================================================
