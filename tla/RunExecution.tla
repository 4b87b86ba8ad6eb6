----------------------------- MODULE RunExecution -----------------------------
(***************************************************************************)
(* A request to run or rerun an execution, from the controller's side      *)
(* (controller/controller_impl.py, _do_run_execution and _create_instances;*)
(* controller/execution_composition.py; controller/redis_db_storage.py).   *)
(*                                                                         *)
(* The indices of a request are split into sub-executions.  Each of them   *)
(* gets its start metadata in redis and a generator that looks for an      *)
(* instance and starts it there; the generators are polled in rounds until *)
(* none has news.  Only when all have an instance is the composition, that *)
(* is, which sub-execution has which index, written to redis, entry by     *)
(* entry.  Meanwhile other requests read it (plz stop, logs, output).      *)
(* The localhost provider starts the container when the generator is made. *)
(*                                                                         *)
(* The answer is a stream: the id of the execution comes first, an error   *)
(* last, if at all.  What a generator does inside is EC2InstanceGroup's;   *)
(* here it reports a bounded number of times, then starts its container,   *)
(* gives up or raises.                                                     *)
(***************************************************************************)
EXTENDS Integers, FiniteSetsExt

CONSTANTS
  Requests,       \* the parallel runs that may be asked for
  Plain,          \* a request without a range of indices
  Whole,          \* the id of the execution the request creates
  MaxReports,     \* bound on the reports of a generator (max_tries)
  Providers,      \* the instance providers the controller may be set up with
  CallsMayFail,   \* redis, AWS, docker or opening the input may raise
  ServerMayDie,   \* the gunicorn worker may be killed, or the client go away
  Unset,          \* no entry in a hash
  Atomic          \* the type `atomic'

(* indices_per_execution is at least 1: None stands for 1, and range()     *)
(* raises on 0 before anything was done                                    *)
ASSUME RunAssumption ==
  /\ Requests \subseteq [lo : Int, hi : Int, per : Nat \ {0}]
  /\ Plain \notin Requests
  /\ Whole \notin Int
  /\ MaxReports \in Nat
  /\ Providers \subseteq {"aws", "localhost"}
  /\ {CallsMayFail, ServerMayDie} \subseteq BOOLEAN
  /\ Unset \notin {Atomic, Whole} /\ Unset \notin Int \X Int /\ Atomic \notin Int \X Int

VARIABLES
  request,    \* what was asked for
  provider,   \* the instance provider of the configuration
  pc,         \* where the handler of the request is
  next,       \* the index its loop is at
  assigned,   \* indices_to_compositions: the sub-execution of each index
  toRun,      \* index_range_to_run of each sub-execution, by first index
  described,  \* the executions that have start metadata in redis
  last,       \* the user's last execution id in redis
  generator,  \* what the generator of each sub-execution has come to
  reports,    \* how many reports it has left
  placed,     \* the sub-executions whose entry in `instances' is set
  polled,     \* the sub-executions polled in this round
  news,       \* was_there_status
  started,    \* the executions whose container was started
  kind,       \* redis, execution_composition_type, for Whole
  entry,      \* redis, composition_index_to_execution
  answer,     \* what the client was told last
  reader,     \* where a reader of the composition is, and what it concludes,
  upTo,       \*   the next index it reads,
  view,       \*   the entries it has read,
  asked       \*   and what the client had been told when it began

setting == <<request, provider>>
splitVars == <<next, assigned, toRun>>
pollVars == <<generator, reports, placed, polled, news, started>>
redisVars == <<described, last, kind, entry>>
readerVars == <<reader, upTo, view, asked>>
vars == <<setting, pc, splitVars, pollVars, redisVars, answer, readerVars>>

(* A sub-execution is named by the first of its indices; the ids the code  *)
(* generates (uuid1) are as distinct.                                      *)
Subs == IF request = Plain THEN {Whole} ELSE DOMAIN toRun
Ids == {Whole} \cup Subs
Indices == IF request = Plain THEN {} ELSE request.lo .. request.hi - 1
Answers == {"nothing", "id", "error", "ok"}
Entries(S) == UNION {[D -> S] : D \in SUBSET Indices}

TypeOK ==
  /\ request \in Requests \cup {Plain} /\ provider \in Providers
  /\ pc \in {"split", "describe", "announce", "open", "poll", "check", "store",
             "storeIndex", "ended", "dead"}
  /\ next \in Int
  /\ DOMAIN assigned \subseteq Indices
  /\ \A i \in DOMAIN assigned : assigned[i] \in DOMAIN toRun
  /\ DOMAIN toRun \subseteq Indices
  /\ described \subseteq Ids
  /\ last \in {Unset, Whole}
  /\ generator \in [Subs -> {"waiting", "started", "placed", "over"}]
  /\ reports \in [Subs -> 0..MaxReports]
  /\ placed \subseteq started /\ started \subseteq Subs /\ polled \subseteq Subs
  /\ news \in BOOLEAN
  /\ kind \in {Unset, Atomic} \cup (Int \X Int)
  /\ entry \in Entries(Subs)
  /\ answer \in Answers /\ asked \in Answers
  /\ reader \in {"idle", "reading", "atomic", "parallel", "error"}
  /\ upTo \in Int
  /\ view \in Entries(Subs)

None == [i \in {} |-> Unset]

Init ==
  /\ request \in Requests \cup {Plain} /\ provider \in Providers
  /\ pc = "split"
  /\ next = IF request = Plain THEN 0 ELSE request.lo
  /\ assigned = None
  /\ toRun = None
  /\ described = {}
  /\ last = Unset
  /\ generator = [s \in Subs |-> "waiting"]
  /\ reports = [s \in Subs |-> MaxReports]
  /\ placed = {} /\ polled = {} /\ started = {}
  /\ news = FALSE
  /\ kind = Unset
  /\ entry = None
  /\ answer = "nothing"
  /\ reader = "idle" /\ upTo = 0 /\ view = None /\ asked = "nothing"

(* on localhost the container is started when the generator is made *)
Eager == provider = "localhost"

Goto(from, to) == pc = from /\ pc' = to
With(f, S, v) == [x \in DOMAIN f \cup S |-> IF x \in S THEN v ELSE f[x]]

(* the first of some executions, in the order of all_metadatas *)
First(S, s) == s \in S /\ \A t \in S : s # Whole => (t # Whole /\ s <= t)

(* the loops over the generators *)
Turn(s) == First(Subs \ polled, s) /\ polled' = polled \cup {s}
Comes(s, to) == generator' = [generator EXCEPT ![s] = to]

-----------------------------------------------------------------------------
(* create_metadatas_for_all_executions.                                    *)

(* mutant: without the min() *)
SplitOverrun ==
  /\ Goto("split", "split")
  /\ request # Plain /\ next < request.hi
  /\ assigned' = With(assigned, next .. next + request.per - 1, next)
  /\ toRun' = With(toRun, {next}, <<next, next + request.per>>)
  /\ generator' = With(generator, {next}, "waiting")
  /\ reports' = With(reports, {next}, MaxReports)
  /\ next' = next + request.per
  /\ UNCHANGED <<setting, placed, polled, news, started, redisVars, answer,
                 readerVars>>

Split ==
  /\ Goto("split", "split")
  /\ request # Plain /\ next < request.hi
  /\ LET end == IF next + request.per <= request.hi
                THEN next + request.per ELSE request.hi
     IN /\ assigned' = With(assigned, next .. end - 1, next)
        /\ toRun' = With(toRun, {next}, <<next, end>>)
        /\ generator' = With(generator, {next}, "waiting")
        /\ reports' = With(reports, {next}, MaxReports)
  /\ next' = next + request.per
  /\ UNCHANGED <<setting, placed, polled, news, started, redisVars, answer,
                 readerVars>>

SplitEnd ==
  /\ Goto("split", "describe")
  /\ (request # Plain => next >= request.hi)
  /\ UNCHANGED <<setting, splitVars, pollVars, redisVars, answer, readerVars>>

-----------------------------------------------------------------------------
(* _do_run_execution, up to the generators.                                *)

Describe ==
  /\ pc = "describe"
  /\ \/ /\ \E s \in Ids : First(Ids \ described, s) /\ described' = described \cup {s}
        /\ UNCHANGED pc
     \/ /\ Ids \subseteq described
        /\ Goto("describe", "announce")
        /\ UNCHANGED described
  /\ UNCHANGED <<setting, splitVars, pollVars, last, kind, entry, answer, readerVars>>

(* the last execution id of the user, and the first line of the answer *)
Announce ==
  /\ Goto("announce", "open")
  /\ last' = Whole
  /\ answer' = "id"
  /\ UNCHANGED <<setting, splitVars, pollVars, described, kind, entry, readerVars>>

(* The input is opened and the generator made, once for each               *)
(* sub-execution; on localhost that starts the container.                  *)
Open(s) ==
  /\ pc = "open" /\ Turn(s)
  /\ IF Eager THEN Comes(s, "started") /\ started' = started \cup {s}
              ELSE UNCHANGED <<generator, started>>
  /\ UNCHANGED <<setting, pc, splitVars, reports, placed, news, redisVars, answer,
                 readerVars>>

Opened ==
  /\ Goto("open", "poll")
  /\ Subs \subseteq polled /\ polled' = {}
  /\ UNCHANGED <<setting, splitVars, generator, reports, placed, news, started,
                 redisVars, answer, readerVars>>

-----------------------------------------------------------------------------
(* _create_instances: one round after another over the generators.         *)

(* a message *)
Report(s) ==
  /\ pc = "poll" /\ Turn(s)
  /\ generator[s] = "waiting" /\ reports[s] > 0
  /\ reports' = [reports EXCEPT ![s] = @ - 1]
  /\ news' = TRUE
  /\ UNCHANGED <<setting, pc, splitVars, generator, placed, started, redisVars,
                 answer, readerVars>>

(* the container is started, and the message says `running' *)
StartContainer(s) ==
  /\ pc = "poll" /\ Turn(s)
  /\ ~Eager /\ generator[s] = "waiting" /\ Comes(s, "started")
  /\ started' = started \cup {s}
  /\ news' = TRUE
  /\ UNCHANGED <<setting, pc, splitVars, reports, placed, redisVars, answer,
                 readerVars>>

(* the next message has the instance *)
Place(s) ==
  /\ pc = "poll" /\ Turn(s)
  /\ generator[s] = "started" /\ Comes(s, "placed")
  /\ placed' = placed \cup {s}
  /\ news' = TRUE
  /\ UNCHANGED <<setting, pc, splitVars, reports, started, redisVars, answer,
                 readerVars>>

(* StopIteration: the generator has returned, or it gives up now *)
Stop(s) ==
  /\ pc = "poll" /\ Turn(s)
  /\ \/ generator[s] \in {"placed", "over"}
     \/ generator[s] = "waiting" /\ reports[s] = 0
  /\ Comes(s, "over")
  /\ UNCHANGED <<setting, pc, splitVars, reports, placed, news, started, redisVars,
                 answer, readerVars>>

(* mutant: was_there_status is not reset *)
EndRoundWithNews ==
  /\ pc = "poll" /\ Subs \subseteq polled
  /\ polled' = {}
  /\ IF news THEN UNCHANGED pc ELSE pc' = "check"
  /\ UNCHANGED <<setting, splitVars, generator, reports, placed, news, started,
                 redisVars, answer, readerVars>>

EndRound ==
  /\ pc = "poll" /\ Subs \subseteq polled
  /\ polled' = {}
  /\ news' = FALSE
  /\ IF news THEN UNCHANGED pc ELSE pc' = "check"
  /\ UNCHANGED <<setting, splitVars, generator, reports, placed, started,
                 redisVars, answer, readerVars>>

(* mutant: one instance is enough *)
CheckSome ==
  /\ pc = "check"
  /\ \/ placed # {} /\ Goto("check", "store") /\ UNCHANGED answer
     \/ placed = {} /\ Goto("check", "ended") /\ answer' = "error"
  /\ UNCHANGED <<setting, splitVars, pollVars, redisVars, readerVars>>

Check ==
  /\ pc = "check"
  /\ \/ Subs \subseteq placed /\ Goto("check", "store") /\ UNCHANGED answer
     \/ ~(Subs \subseteq placed) /\ Goto("check", "ended") /\ answer' = "error"
  /\ UNCHANGED <<setting, splitVars, pollVars, redisVars, readerVars>>

-----------------------------------------------------------------------------
(* store_execution_composition.                                            *)

StoreAtomic ==
  /\ Goto("store", "ended")
  /\ request = Plain
  /\ kind' = Atomic
  /\ answer' = "ok"
  /\ UNCHANGED <<setting, splitVars, pollVars, described, last, entry, readerVars>>

(* the minimum of no indices: ValueError *)
StoreNothing ==
  /\ Goto("store", "ended")
  /\ request # Plain /\ DOMAIN assigned = {}
  /\ answer' = "error"
  /\ UNCHANGED <<setting, splitVars, pollVars, redisVars, readerVars>>

StoreRange(top) ==
  /\ Goto("store", "storeIndex")
  /\ request # Plain /\ DOMAIN assigned # {}
  /\ kind' = <<Min(DOMAIN assigned), top>>
  /\ UNCHANGED <<setting, splitVars, pollVars, described, last, entry, answer,
                 readerVars>>

(* mutant: the last index is left out *)
StoreTypeShort ==
  StoreRange(Max(DOMAIN assigned))

StoreType ==
  StoreRange(Max(DOMAIN assigned) + 1)

(* The type of the sub-execution is stored too; a reader takes no type for *)
(* atomic all the same.                                                    *)
StoreIndex ==
  /\ pc = "storeIndex"
  /\ LET left == DOMAIN assigned \ DOMAIN entry
     IN IF left = {}
        THEN pc' = "ended" /\ answer' = "ok" /\ UNCHANGED entry
        ELSE /\ entry' = With(entry, {Min(left)}, assigned[Min(left)])
             /\ UNCHANGED <<pc, answer>>
  /\ UNCHANGED <<setting, splitVars, pollVars, described, last, kind, readerVars>>

-----------------------------------------------------------------------------
(* What may go wrong: an exception inside the try statement is the answer  *)
(* (the container whose turn it was may have been started before it); one  *)
(* before it, like a death, breaks the stream off.                         *)

Fail ==
  /\ CallsMayFail
  /\ pc \in {"open", "poll", "store", "storeIndex"} /\ pc' = "ended"
  /\ answer' = "error"
  /\ started' \in {started} \cup
       {started \cup {s} : s \in {t \in Subs : /\ First(Subs \ polled, t)
                                           /\ generator[t] = "waiting"
                                           /\ pc = IF Eager THEN "open" ELSE "poll"}}
  /\ UNCHANGED <<setting, splitVars, generator, reports, placed, polled, news,
                 redisVars, readerVars>>

Die ==
  /\ \/ CallsMayFail /\ pc \in {"describe", "announce"}
     \/ ServerMayDie /\ pc \notin {"ended", "dead"}
  /\ pc' = "dead"
  /\ UNCHANGED <<setting, splitVars, pollVars, redisVars, answer, readerVars>>

-----------------------------------------------------------------------------
(* retrieve_execution_composition, by someone who knows the id from the    *)
(* first line of the answer or as the last execution id.                   *)

ReadType ==
  /\ reader = "idle" /\ last = Whole
  /\ asked' = answer
  /\ IF kind \in {Unset, Atomic}
     THEN reader' = "atomic" /\ UNCHANGED upTo
     ELSE reader' = "reading" /\ upTo' = kind[1]
  /\ UNCHANGED <<setting, pc, splitVars, pollVars, redisVars, answer, view>>

(* mutant: an index without an entry is left out *)
ReadEntrySkipping ==
  /\ reader = "reading" /\ upTo < kind[2]
  /\ upTo' = upTo + 1
  /\ view' = IF upTo \in DOMAIN entry THEN With(view, {upTo}, entry[upTo]) ELSE view
  /\ UNCHANGED <<setting, pc, splitVars, pollVars, redisVars, answer, reader, asked>>

(* Without an entry the type of None is asked for, which the redis client  *)
(* refuses (DataError).                                                    *)
ReadEntry ==
  /\ reader = "reading" /\ upTo < kind[2]
  /\ IF upTo \in DOMAIN entry
     THEN /\ view' = With(view, {upTo}, entry[upTo])
          /\ upTo' = upTo + 1
          /\ UNCHANGED reader
     ELSE reader' = "error" /\ UNCHANGED <<view, upTo>>
  /\ UNCHANGED <<setting, pc, splitVars, pollVars, redisVars, answer, asked>>

ReadEnd ==
  /\ reader = "reading" /\ upTo >= kind[2] /\ reader' = "parallel"
  /\ UNCHANGED <<setting, pc, splitVars, pollVars, redisVars, answer, upTo, view,
                 asked>>

-----------------------------------------------------------------------------
(* rerun_execution, by the start metadata of an execution that was         *)
(* announced, whatever became of it.  The new execution takes the place of *)
(* the old one here.  The metadata of a sub-execution has no range of      *)
(* indices: it is rerun as a plain execution.                              *)

Rerun(id) ==
  /\ pc \in {"ended", "dead"} /\ id \in described /\ answer # "nothing"
  /\ request' = IF id = Whole THEN request ELSE Plain
  /\ UNCHANGED provider
  /\ pc' = "split"
  /\ next' = IF request' = Plain THEN 0 ELSE request'.lo
  /\ assigned' = None
  /\ toRun' = None
  /\ described' = {}
  /\ last' = Unset
  /\ generator' = [s \in Subs' |-> "waiting"]
  /\ reports' = [s \in Subs' |-> MaxReports]
  /\ placed' = {} /\ polled' = {} /\ started' = {}
  /\ news' = FALSE
  /\ kind' = Unset
  /\ entry' = None
  /\ answer' = "nothing"
  /\ reader' = "idle" /\ upTo' = 0 /\ view' = None /\ asked' = "nothing"

-----------------------------------------------------------------------------
Handle ==
  \/ Split \/ SplitEnd \/ Describe \/ Announce \/ Opened \/ EndRound \/ Check
  \/ StoreAtomic \/ StoreNothing \/ StoreType \/ StoreIndex
  \/ \E s \in Subs : Open(s) \/ Report(s) \/ StartContainer(s) \/ Place(s) \/ Stop(s)

Read == ReadType \/ ReadEntry \/ ReadEnd

Next ==
  \/ Handle \/ Fail \/ Die \/ Read
  \/ \E id \in Ids : Rerun(id)

Spec == Init /\ [][Next]_vars

(* The client reads the answer to its end, so that the handler goes on.    *)
FairSpec == Spec /\ WF_vars(Handle) /\ WF_vars(Read)

-----------------------------------------------------------------------------
(* Once split, every index of the range belongs to exactly the one         *)
(* sub-execution whose index_range_to_run has it, none is outside the      *)
(* range, and there are as few sub-executions as the size allows, the last *)
(* one taking what is left (test_parallel_indices).                        *)
Span(s) == toRun[s][1] .. toRun[s][2] - 1
SplitIsExact ==
  request # Plain /\ pc # "split" /\ ~(pc = "dead" /\ next < request.hi) =>
    /\ DOMAIN assigned = Indices
    /\ \A s \in DOMAIN toRun : Span(s) = {i \in Indices : assigned[i] = s}
    /\ \A s \in DOMAIN toRun : Cardinality(Span(s)) \in 1..request.per
    /\ (Cardinality(DOMAIN toRun) - 1) * request.per < Cardinality(Indices)
         \/ Indices = {}

(* When the client is told of no error, every sub-execution was started,   *)
(* has its instance, and is in the stored composition under its indices;   *)
(* and whatever it is told, a rerun finds the start metadata of each.      *)
OkMeansComplete ==
  /\ answer # "nothing" => Ids \subseteq described
  /\ answer = "ok" =>
       /\ started = Subs /\ placed = Subs
       /\ IF request = Plain THEN kind = Atomic
          ELSE kind = <<request.lo, request.hi>> /\ entry = assigned

(* A composition that was read in whole has every index, each with a       *)
(* sub-execution that was started for it, also when it was read while it   *)
(* was being stored.  A client that was told of no error before reads that *)
(* of what it asked for.                                                   *)
ViewIsRight ==
  /\ reader = "parallel" =>
       /\ DOMAIN view = Indices
       /\ \A i \in Indices : view[i] \in started /\ i \in Span(view[i])
  /\ asked = "ok" =>
       /\ reader # "error"
       /\ reader = "atomic" => request = Plain

(* To the client and to readers of its composition a request is AllOrError:*)
(* the loops over the parts, the entries and the reader's own, and what    *)
(* breaks off between two of their steps, do not show.                     *)
Abstract == INSTANCE AllOrError WITH
  divided <- request # Plain,
  parts <- Subs,
  stored <- IF kind = Unset THEN "none"
            ELSE IF kind = Atomic \/ DOMAIN entry = DOMAIN assigned THEN "whole"
            ELSE "partly"

AbstractSpec == Abstract!Spec

(* The answer to a request ends, be it a run or a rerun, whatever the      *)
(* generators do: the rounds of polling stop when none of them has news.   *)
RequestEnds == pc = "split" ~> pc \in {"ended", "dead"}
=============================================================================
