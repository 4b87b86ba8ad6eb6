--------------------------- MODULE RunExecutionProofs ---------------------------
(***************************************************************************)
(* What RunExecution guarantees for every range of indices, every size of  *)
(* a sub-execution, and whatever fails or dies on the way: the split is    *)
(* exact, an answer without an error is complete, and a composition that   *)
(* is read in whole is right, also while it is being stored.               *)
(*                                                                         *)
(* The argument goes along the request: the loop of the split has covered  *)
(* the indices below next, and nothing else (Splitting); beyond the check  *)
(* every sub-execution is placed (Placing); what redis has of the          *)
(* composition is part of what was assigned, under the right range         *)
(* (Storing); and a reader has read an initial part of that (Reading).     *)
(***************************************************************************)
EXTENDS RunExecution, FiniteSetTheorems, TLAPS

WholeRange == <<request.lo, request.hi>>

Splitting ==
  /\ request = Plain => DOMAIN assigned = {} /\ DOMAIN toRun = {}
  /\ request # Plain =>
       /\ request.lo <= next
       /\ DOMAIN assigned = {i \in Indices : i < next}
       /\ pc \notin {"split", "dead"} => request.hi <= next
  /\ assigned \in [DOMAIN assigned -> DOMAIN toRun]
  /\ \A i \in DOMAIN assigned : i \in Span(assigned[i])

(* each sub-execution has its range *)
Spans ==
  \A s \in DOMAIN toRun :
    /\ toRun[s] \in Int \X Int /\ toRun[s][1] = s
    /\ s < toRun[s][2] /\ toRun[s][2] <= s + request.per
    /\ toRun[s][2] <= request.hi /\ toRun[s][2] <= next
    /\ \A i \in Span(s) : assigned[i] = s

(* how many there are *)
Counted ==
  /\ IsFiniteSet(DOMAIN toRun)
  /\ request # Plain =>
       /\ next = request.lo + Cardinality(DOMAIN toRun) * request.per
       /\ next = request.lo \/ next - request.per < request.hi

Described ==
  /\ pc \in {"split", "describe", "announce"} => answer = "nothing"
  /\ pc \notin {"split", "describe", "dead"} => Ids \subseteq described
  /\ answer # "nothing" => Ids \subseteq described

Placing ==
  /\ pc = "split" => placed = {} /\ started = {}
  /\ \A s \in Subs : generator[s] = "started" => s \in started
  /\ pc \in {"store", "storeIndex"} \/ answer = "ok" => Subs \subseteq placed
  /\ answer = "ok" => pc = "ended"

Storing ==
  /\ kind = Atomic => request = Plain
  /\ kind \in Int \X Int => /\ request # Plain /\ kind = WholeRange
                            /\ Subs \subseteq placed
                            /\ DOMAIN assigned = Indices /\ Indices # {}
  /\ pc = "storeIndex" => kind \in Int \X Int
  /\ \A i \in DOMAIN entry : i \in DOMAIN assigned /\ entry[i] = assigned[i]
  /\ DOMAIN entry = {} \/ \E i \in Indices : DOMAIN entry = request.lo .. i
  /\ answer = "ok" => IF request = Plain THEN kind = Atomic
                      ELSE kind = WholeRange /\ DOMAIN entry = DOMAIN assigned

Reading ==
  /\ reader = "idle" => DOMAIN view = {}
  /\ reader \in {"reading", "parallel", "error"} => kind \in Int \X Int
  /\ reader = "reading" =>
       /\ request.lo <= upTo /\ upTo <= request.hi
       /\ DOMAIN view = request.lo .. upTo - 1
  /\ reader = "parallel" => DOMAIN view = Indices
  /\ \A i \in DOMAIN view : i \in DOMAIN assigned /\ view[i] = assigned[i]
  /\ asked = "ok" => /\ answer = "ok" /\ reader # "error"
                     /\ reader = "atomic" => request = Plain

Inv ==
  /\ TypeOK /\ Splitting /\ Spans /\ Counted /\ Described
  /\ Placing /\ Storing /\ Reading

-----------------------------------------------------------------------------
(* Ranges, and partial functions on them.                                  *)

LEMMA MinMaxOfRange ==
  ASSUME NEW lo \in Int, NEW hi \in Int, lo .. hi - 1 # {}
  PROVE  lo < hi /\ Min(lo .. hi - 1) = lo /\ Max(lo .. hi - 1) = hi - 1
<1>1. lo < hi
  OBVIOUS
<1>2. lo \in lo .. hi - 1 /\ \A i \in lo .. hi - 1 : lo <= i
  BY <1>1
<1>3. hi - 1 \in lo .. hi - 1 /\ \A i \in lo .. hi - 1 : hi - 1 >= i
  BY <1>1
<1>4. Min(lo .. hi - 1) \in lo .. hi - 1 /\ Min(lo .. hi - 1) <= lo
  BY <1>2 DEF Min
<1>5. Max(lo .. hi - 1) \in lo .. hi - 1 /\ Max(lo .. hi - 1) >= hi - 1
  BY <1>3 DEF Max
<1> QED
  BY <1>1, <1>4, <1>5

LEMMA EntriesMember ==
  ASSUME NEW S
  PROVE  /\ \A f \in Entries(S) : DOMAIN f \subseteq Indices /\ f \in [DOMAIN f -> S]
         /\ \A D : \A f : D \subseteq Indices /\ f \in [D -> S] => f \in Entries(S)
BY DEF Entries

LEMMA RequestFacts ==
  ASSUME TypeOK
  PROVE  /\ request # Plain => /\ request.lo \in Int /\ request.hi \in Int
                              /\ request.per \in Nat \ {0}
                              /\ Subs = DOMAIN toRun
                              /\ Indices = request.lo .. request.hi - 1
         /\ request = Plain => Subs = {Whole} /\ Indices = {}
BY RunAssumption DEF RunAssumption, TypeOK, Subs, Indices

-----------------------------------------------------------------------------
(* The split.                                                              *)

LEMMA SplitInv ==
  ASSUME Inv, Split
  PROVE  Inv'
<1> USE DEF Inv
<1>0. /\ UNCHANGED <<setting, placed, polled, news, started, redisVars, answer,
                     readerVars>>
      /\ pc = "split" /\ pc' = "split" /\ request # Plain /\ next < request.hi
      /\ next' = next + request.per
      /\ generator' = With(generator, {next}, "waiting")
      /\ reports' = With(reports, {next}, MaxReports)
  BY DEF Split, Goto
<1> USE DEF setting, redisVars, readerVars
<1>1. /\ request.lo \in Int /\ request.hi \in Int /\ request.per \in Nat \ {0}
      /\ next \in Int /\ request.lo <= next /\ next < request.hi
      /\ Subs = DOMAIN toRun /\ Indices = request.lo .. request.hi - 1
  BY <1>0, RequestFacts DEF TypeOK, Splitting
<1> DEFINE end == IF next + request.per <= request.hi THEN next + request.per
                                                    ELSE request.hi
<1>3. /\ assigned' = With(assigned, next .. end - 1, next)
      /\ toRun' = With(toRun, {next}, <<next, end>>)
  BY DEF Split
<1>2. /\ end \in Int /\ next < end /\ end <= request.hi /\ end <= next + request.per
      /\ end <= next' /\ \A i \in Indices : i < next' <=> i < end
      /\ next' \in Int
  BY <1>0, <1>1
<1> HIDE DEF end
<1>4. DOMAIN assigned = request.lo .. next - 1
  BY <1>0, <1>1 DEF Splitting
<1>5. /\ DOMAIN assigned' = request.lo .. end - 1
      /\ \A i \in DOMAIN assigned : assigned'[i] = assigned[i]
      /\ \A i \in next .. end - 1 : i \notin DOMAIN assigned /\ assigned'[i] = next
  BY <1>0, <1>1, <1>2, <1>3, <1>4 DEF With
<1>6. /\ DOMAIN toRun' = DOMAIN toRun \cup {next}
      /\ toRun'[next] = <<next, end>>
      /\ \A s \in DOMAIN toRun : s # next /\ toRun'[s] = toRun[s]
  BY <1>0, <1>1, <1>3 DEF With, Spans
<1>7. /\ Indices' = Indices /\ Subs \subseteq Subs' /\ Subs' = DOMAIN toRun'
      /\ Ids \subseteq Ids' /\ next \in Indices
  BY <1>0, <1>1, <1>6 DEF Indices, Subs, Ids
<1>8. TypeOK'
  <2>1. generator' \in [Subs' -> {"waiting", "started", "placed", "over"}]
    BY <1>0, <1>1, <1>6, <1>7 DEF With, TypeOK
  <2>2. reports' \in [Subs' -> 0..MaxReports]
    BY <1>0, <1>1, <1>6, <1>7, RunAssumption DEF With, TypeOK, RunAssumption
  <2>3. entry \in Entries(Subs)' /\ view \in Entries(Subs)'
    BY <1>0, <1>7 DEF TypeOK, Entries
  <2>4. DOMAIN assigned' \subseteq Indices /\ DOMAIN toRun' \subseteq Indices
    BY <1>0, <1>1, <1>2, <1>5, <1>6, <1>7 DEF TypeOK
  <2>5. \A i \in DOMAIN assigned' : assigned'[i] \in DOMAIN toRun'
    BY <1>0, <1>1, <1>2, <1>4, <1>5, <1>6 DEF TypeOK
  <2>6. described \subseteq Ids' /\ placed \subseteq started /\ started \subseteq Subs' /\ polled \subseteq Subs'
    BY <1>0, <1>7 DEF TypeOK
  <2> QED
    BY <1>0, <1>2, <1>7, <2>1, <2>2, <2>3, <2>4, <2>5, <2>6 DEF TypeOK
<1>9. Splitting'
  <2>1. DOMAIN assigned' = {i \in Indices : i < next'}
    BY <1>0, <1>1, <1>2, <1>5
  <2>2. assigned' \in [DOMAIN assigned' -> DOMAIN toRun']
    BY <1>3, <1>8 DEF TypeOK, With
  <2>3. ASSUME NEW i \in DOMAIN assigned'
        PROVE  i \in toRun'[assigned'[i]][1] .. toRun'[assigned'[i]][2] - 1
    <3>1. CASE i \in DOMAIN assigned
      BY <1>0, <1>5, <1>6, <3>1 DEF Splitting, Span, TypeOK
    <3>2. CASE i \in next .. end - 1
      BY <1>0, <1>5, <1>6, <3>2 DEF Span
    <3> QED
      BY <1>0, <1>1, <1>2, <1>4, <1>5, <3>1, <3>2
  <2> QED
    BY <1>0, <1>1, <1>2, <1>7, <2>1, <2>2, <2>3 DEF Splitting, Span
<1>10. Spans'
  <2>1. ASSUME NEW s \in DOMAIN toRun
        PROVE  /\ toRun'[s] \in Int \X Int /\ toRun'[s][1] = s
               /\ s < toRun'[s][2] /\ toRun'[s][2] <= s + request.per
               /\ toRun'[s][2] <= request.hi /\ toRun'[s][2] <= next'
               /\ \A i \in Span(s)' : assigned'[i] = s
    <3>1. /\ toRun[s] \in Int \X Int /\ toRun[s][1] = s
          /\ s < toRun[s][2] /\ toRun[s][2] <= s + request.per
          /\ toRun[s][2] <= request.hi /\ toRun[s][2] <= next
          /\ \A i \in Span(s) : assigned[i] = s
      BY DEF Spans
    <3>2. Span(s)' = Span(s)
      BY <1>6 DEF Span
    <3>3. \A i \in Span(s) : i \in DOMAIN assigned
      BY <1>0, <1>1, <1>4, <3>1 DEF Span, TypeOK
    <3> QED
      BY <1>0, <1>1, <1>2, <1>5, <1>6, <3>1, <3>2, <3>3
  <2>2. /\ toRun'[next] \in Int \X Int /\ toRun'[next][1] = next
        /\ toRun'[next][2] = end
        /\ \A i \in toRun'[next][1] .. toRun'[next][2] - 1 : assigned'[i] = next
    BY <1>0, <1>1, <1>2, <1>5, <1>6 DEF Span
  <2> QED
    BY <1>0, <1>2, <1>6, <2>1, <2>2 DEF Spans, Span
<1>11. Counted'
  <2>1. next \notin DOMAIN toRun /\ IsFiniteSet(DOMAIN toRun)
    BY <1>6 DEF Counted
  <2>2. /\ IsFiniteSet(DOMAIN toRun')
        /\ Cardinality(DOMAIN toRun') = Cardinality(DOMAIN toRun) + 1
    BY <1>6, <2>1, FS_AddElement
  <2>3. Cardinality(DOMAIN toRun) \in Nat
    BY <2>1, FS_CardinalityType
  <2>4. \A k \in Nat, p \in Nat : (k + 1) * p = k * p + p
    OBVIOUS
  <2>5. next' = request.lo + Cardinality(DOMAIN toRun') * request.per
    <3>1. Cardinality(DOMAIN toRun') * request.per
            = Cardinality(DOMAIN toRun) * request.per + request.per
      BY <1>0, <1>1, <2>2, <2>3, <2>4
    <3>2. next = request.lo + Cardinality(DOMAIN toRun) * request.per
      BY <1>0 DEF Counted
    <3>3. Cardinality(DOMAIN toRun) * request.per \in Nat
      BY <1>0, <1>1, <2>3
    <3> QED
      BY <1>0, <1>1, <1>2, <3>1, <3>2, <3>3
  <2> QED
    BY <1>0, <1>1, <1>2, <2>2, <2>5 DEF Counted
<1>12. Described' /\ Placing' /\ Storing' /\ Reading'
  <2>1. Described'
    BY <1>0, <1>7 DEF Described
  <2>2. Placing'
    BY <1>0, <1>1, <1>6, <1>7 DEF Placing, TypeOK, With
  <2>3. answer # "ok" /\ ~(kind \in Int \X Int)
    BY <1>0, <1>1, <1>7, <1>4 DEF Placing, Storing
  <2>4. \A i \in DOMAIN assigned : i \in DOMAIN assigned' /\ assigned'[i] = assigned[i]
    BY <1>1, <1>2, <1>4, <1>5
  <2>5. Storing'
    BY <1>0, <1>7, <2>3, <2>4 DEF Storing
  <2>6. Reading'
    BY <1>0, <1>7, <2>3, <2>4 DEF Reading
  <2> QED
    BY <2>1, <2>2, <2>5, <2>6
<1> QED
  BY <1>8, <1>9, <1>10, <1>11, <1>12

-----------------------------------------------------------------------------
(* The handler, beyond the split.                                          *)

(* the split stays as it is *)
LEMMA SplitKept ==
  ASSUME Inv, UNCHANGED <<setting, splitVars>>,
         pc' = "dead" \/ pc \notin {"split", "dead"} \/ pc' = pc
                      \/ (request # Plain => request.hi <= next)
  PROVE  /\ UNCHANGED <<Subs, Ids, Indices, WholeRange>>
         /\ Splitting' /\ Spans' /\ Counted'
<1> USE DEF Inv, setting, splitVars
<1>1. UNCHANGED <<Subs, Ids, Indices, WholeRange>>
  BY DEF Subs, Ids, Indices, WholeRange
<1>2. Splitting'
  BY <1>1 DEF Splitting, Span
<1>3. Spans' /\ Counted'
  BY DEF Spans, Counted, Span
<1> QED
  BY <1>1, <1>2, <1>3

LEMMA DescribeInv ==
  ASSUME Inv, SplitEnd \/ Describe \/ Announce
  PROVE  Inv'
<1> USE DEF Inv, Goto
<1>0. /\ UNCHANGED <<setting, splitVars, pollVars, kind, entry, readerVars>>
      /\ pc \in {"split", "describe", "announce"}
      /\ pc' \in {"describe", "announce", "open"}
      /\ pc = "split" /\ request # Plain => next >= request.hi
      /\ described \subseteq described' /\ described' \subseteq described \cup Ids
      /\ pc' \in {"announce", "open"} => Ids \subseteq described'
      /\ last' \in {last, Whole}
      /\ answer' = (IF pc' = "open" THEN "id" ELSE answer)
  BY DEF SplitEnd, Describe, Announce, redisVars, Described
<1>1. /\ UNCHANGED <<Subs, Ids, Indices, WholeRange>>
      /\ Splitting' /\ Spans' /\ Counted'
  <2>1. pc = "split" /\ request # Plain => request.hi <= next
    BY <1>0, RequestFacts DEF TypeOK
  <2> QED
    BY <1>0, <2>1, SplitKept
<1> USE DEF setting, splitVars, pollVars, readerVars
<1>2. TypeOK'
  BY <1>0, <1>1 DEF TypeOK, Entries, Answers
<1>3. Described'
  BY <1>0, <1>1 DEF Described
<1>4. Placing' /\ Storing' /\ Reading'
  <2>1. answer # "ok" /\ answer' # "ok"
    BY <1>0 DEF Described
  <2> QED
    BY <1>0, <1>1, <2>1 DEF Placing, Storing, Reading
<1> QED
  BY <1>1, <1>2, <1>3, <1>4

(* the generators are in order after a step, and those that started are    *)
(* known to have                                                           *)
StillPolled ==
  /\ generator' \in [Subs -> {"waiting", "started", "placed", "over"}]
  /\ reports' \in [Subs -> 0..MaxReports]
  /\ placed' \subseteq started' /\ started' \subseteq Subs /\ polled' \subseteq Subs
  /\ \A s \in Subs : generator'[s] = "started" => s \in started'

LEMMA PollInv ==
  ASSUME Inv,
         \/ Opened \/ EndRound \/ Check
         \/ \E s \in Subs : \/ Open(s) \/ Report(s) \/ StartContainer(s)
                           \/ Place(s) \/ Stop(s)
  PROVE  Inv'
<1> USE DEF Inv, StillPolled
<1>0. /\ UNCHANGED <<setting, splitVars, redisVars, readerVars>>
      /\ pc \in {"open", "poll", "check"}
      /\ pc' \in {"open", "poll", "check", "store", "ended"}
      /\ placed \subseteq placed' /\ started \subseteq started'
      /\ pc' = "store" => Subs \subseteq placed'
      /\ answer' \in {answer, "error"} /\ news' \in {news, TRUE, FALSE}
  <2>1. CASE Opened \/ EndRound \/ Check
    BY <2>1 DEF Opened, EndRound, Check, Goto, pollVars
  <2>2. CASE \E s \in Subs : Open(s) \/ Report(s) \/ StartContainer(s)
    BY <2>2 DEF Open, Report, StartContainer
  <2>3. CASE \E s \in Subs : Place(s) \/ Stop(s)
    BY <2>3 DEF Place, Stop
  <2> QED
    BY <2>1, <2>2, <2>3
<1>1. /\ UNCHANGED <<Subs, Ids, Indices, WholeRange>>
      /\ Splitting' /\ Spans' /\ Counted'
  BY <1>0, SplitKept
<1>2. StillPolled
  <2>1. CASE Opened \/ EndRound \/ Check
    BY <2>1 DEF Opened, EndRound, Check, pollVars, TypeOK, Placing
  <2>2. ASSUME NEW s \in Subs, Open(s) \/ StartContainer(s) \/ Place(s) \/ Stop(s)
        PROVE  StillPolled
    BY <2>2 DEF Open, StartContainer, Place, Stop, Turn, Comes, TypeOK, Placing
  <2>3. ASSUME NEW s \in Subs, Report(s)
        PROVE  StillPolled
    BY <2>3, RunAssumption DEF Report, Turn, TypeOK, Placing, RunAssumption
  <2> QED
    BY <2>1, <2>2, <2>3
<1> USE DEF setting, splitVars, redisVars, readerVars
<1>3. TypeOK'
  <2>1. news' \in BOOLEAN
    BY <1>0 DEF TypeOK
  <2> QED
    BY <1>0, <1>1, <1>2, <2>1 DEF TypeOK, Entries, Answers
<1>4. Described'
  BY <1>0, <1>1 DEF Described
<1>5. answer # "ok" /\ answer' # "ok"
  BY <1>0 DEF Placing
<1>6. Placing' /\ Storing' /\ Reading'
  BY <1>0, <1>1, <1>2, <1>5 DEF Placing, Storing, Reading
<1> QED
  BY <1>1, <1>3, <1>4, <1>6

LEMMA BreakInv ==
  ASSUME Inv, Fail \/ Die
  PROVE  Inv'
<1> USE DEF Inv
<1>0. /\ UNCHANGED <<setting, splitVars, generator, reports, placed, polled, news,
                     redisVars, readerVars>>
      /\ pc \notin {"ended", "dead"} /\ pc' \in {"ended", "dead"}
      /\ pc' = "ended" => pc \in {"open", "poll", "store", "storeIndex"}
                         /\ answer' = "error"
      /\ pc' = "dead" => answer' = answer
      /\ started \subseteq started' /\ started' \subseteq Subs
  BY DEF Fail, Die, pollVars, TypeOK
<1>1. /\ UNCHANGED <<Subs, Ids, Indices, WholeRange>>
      /\ Splitting' /\ Spans' /\ Counted'
  BY <1>0, SplitKept
<1> USE DEF setting, splitVars, redisVars, readerVars
<1>2. TypeOK'
  BY <1>0, <1>1 DEF TypeOK, Entries, Answers
<1>3. Described'
  BY <1>0, <1>1 DEF Described
<1>4. answer # "ok" /\ answer' # "ok"
  BY <1>0 DEF Placing
<1>5. Placing' /\ Storing' /\ Reading'
  BY <1>0, <1>1, <1>4 DEF Placing, Storing, Reading
<1> QED
  BY <1>1, <1>2, <1>3, <1>5

-----------------------------------------------------------------------------
(* The composition is stored, and read.                                    *)

(* by then all indices are assigned *)
LEMMA AllAssigned ==
  ASSUME Inv, pc \in {"store", "storeIndex"}, request # Plain
  PROVE  DOMAIN assigned = Indices
BY RequestFacts DEF Inv, Splitting, TypeOK

LEMMA StoreInv ==
  ASSUME Inv, StoreAtomic \/ StoreNothing \/ StoreType \/ StoreIndex
  PROVE  Inv'
<1> USE DEF Inv
<1>0. /\ UNCHANGED <<setting, splitVars, pollVars, described, last, readerVars>>
      /\ pc \in {"store", "storeIndex"} /\ pc' \in {"storeIndex", "ended"}
      /\ answer' \in {answer, "error", "ok"}
  BY DEF StoreAtomic, StoreNothing, StoreType, StoreRange, StoreIndex, Goto, redisVars
<1>1. /\ UNCHANGED <<Subs, Ids, Indices, WholeRange>>
      /\ Splitting' /\ Spans' /\ Counted'
  BY <1>0, SplitKept
<1>2. answer # "ok" /\ asked # "ok"
  BY <1>0 DEF Placing, Reading
<1>3. CASE StoreAtomic
  <2> USE <1>3 DEF StoreAtomic, Goto, setting, splitVars, pollVars, readerVars
  <2>1. ~(kind \in Int \X Int) /\ ~(Atomic \in Int \X Int)
    BY RunAssumption DEF RunAssumption, Storing
  <2>2. TypeOK' /\ Described'
    BY <1>1 DEF TypeOK, Entries, Answers, Described
  <2>3. Placing' /\ Storing' /\ Reading'
    BY <1>1, <1>2, <2>1 DEF Placing, Storing, Reading
  <2> QED
    BY <1>1, <2>2, <2>3
<1>4. CASE StoreNothing
  <2> USE <1>4 DEF StoreNothing, Goto, setting, splitVars, pollVars, redisVars, readerVars
  <2>1. TypeOK' /\ Described'
    BY <1>1 DEF TypeOK, Entries, Answers, Described
  <2>2. Placing' /\ Storing' /\ Reading'
    BY <1>1, <1>2 DEF Placing, Storing, Reading
  <2> QED
    BY <1>1, <2>1, <2>2
<1>5. CASE StoreType
  <2> USE <1>5 DEF StoreType, StoreRange, Goto, setting, splitVars, pollVars, readerVars
  <2>1. DOMAIN assigned = Indices /\ Indices # {}
    BY AllAssigned
  <2>2. kind' = WholeRange /\ WholeRange \in Int \X Int
    BY <2>1, RequestFacts, MinMaxOfRange DEF WholeRange
  <2>3. kind' # Atomic
    BY <2>2, RunAssumption DEF RunAssumption
  <2>4. TypeOK' /\ Described'
    BY <1>1, <2>2 DEF TypeOK, Entries, Answers, Described
  <2>5. Placing' /\ Storing' /\ Reading'
    BY <1>1, <1>2, <2>1, <2>2, <2>3 DEF Placing, Storing, Reading
  <2> QED
    BY <1>1, <2>4, <2>5
<1>6. CASE StoreIndex
  <2> DEFINE left == DOMAIN assigned \ DOMAIN entry
  <2>0. /\ pc = "storeIndex" /\ kind' = kind
        /\ left = {} => pc' = "ended" /\ answer' = "ok" /\ entry' = entry
        /\ left # {} => /\ entry' = With(entry, {Min(left)}, assigned[Min(left)])
                       /\ pc' = pc /\ answer' = answer
    BY <1>6 DEF StoreIndex
  <2> USE DEF setting, splitVars, pollVars, readerVars
  <2>1. /\ request # Plain /\ kind \in Int \X Int /\ kind = WholeRange
        /\ request.lo \in Int /\ request.hi \in Int
        /\ DOMAIN assigned = Indices /\ Indices = request.lo .. request.hi - 1
    BY <2>0, RequestFacts DEF Storing
  <2>2. /\ entry \in [DOMAIN entry -> Subs] /\ DOMAIN entry \subseteq Indices
    BY EntriesMember DEF TypeOK
  <2>3. CASE left = {}
    <3>1. DOMAIN entry = DOMAIN assigned
      BY <2>1, <2>2, <2>3
    <3>2. TypeOK' /\ Described'
      BY <1>0, <1>1, <2>0, <2>3 DEF TypeOK, Entries, Answers, Described
    <3>3. Placing' /\ Storing' /\ Reading'
      BY <1>0, <1>1, <1>2, <2>0, <2>1, <2>3, <3>1 DEF Placing, Storing, Reading
    <3> QED
      BY <1>1, <3>2, <3>3
  <2>4. CASE left # {}
    <3>1. PICK k \in Indices : left = k .. request.hi - 1 /\ DOMAIN entry = request.lo .. k - 1
      <4>1. CASE DOMAIN entry = {}
        BY <2>1, <2>4, <4>1
      <4>2. CASE \E i \in Indices : DOMAIN entry = request.lo .. i
        <5>1. PICK i \in Indices : DOMAIN entry = request.lo .. i
          BY <4>2
        <5>2. /\ i + 1 \in Indices /\ left = i + 1 .. request.hi - 1
              /\ DOMAIN entry = request.lo .. (i + 1) - 1
          BY <2>1, <2>4, <5>1
        <5> QED
          BY <5>2
      <4>3. DOMAIN entry = {} \/ \E i \in Indices : DOMAIN entry = request.lo .. i
        BY DEF Storing
      <4> QED
        BY <4>1, <4>2, <4>3
    <3>2. Min(left) = k
      <4>1. k \in Int /\ k .. request.hi - 1 # {}
        BY <2>1, <2>4, <3>1
      <4>2. Min(k .. request.hi - 1) = k
        BY <2>1, <4>1, MinMaxOfRange
      <4> QED
        BY <3>1, <4>2
    <3>3. /\ DOMAIN entry' = request.lo .. k
          /\ \A i \in DOMAIN entry' : i \in DOMAIN assigned /\ entry'[i] = assigned[i]
          /\ entry' \in [DOMAIN entry' -> Subs]
      <4>1. entry' = [x \in DOMAIN entry \cup {k} |-> IF x \in {k} THEN assigned[k] ELSE entry[x]]
        BY <2>0, <2>4, <3>2 DEF With
      <4>2. assigned[k] \in Subs
        BY <2>1, RequestFacts DEF TypeOK
      <4>3. \A i \in DOMAIN entry : entry[i] = assigned[i]
        BY DEF Storing
      <4> QED
        BY <2>1, <2>2, <3>1, <4>1, <4>2, <4>3
    <3>4. entry' \in Entries(Subs)
      BY <2>1, <3>1, <3>3, EntriesMember
    <3>5. TypeOK' /\ Described'
      BY <1>0, <1>1, <2>0, <2>4, <3>4 DEF TypeOK, Entries, Answers, Described
    <3>6. Placing' /\ Storing' /\ Reading'
      BY <1>0, <1>1, <1>2, <2>0, <2>1, <2>4, <3>1, <3>3 DEF Placing, Storing, Reading
    <3> QED
      BY <1>1, <3>5, <3>6
  <2> QED
    BY <2>3, <2>4
<1> QED
  BY <1>3, <1>4, <1>5, <1>6

LEMMA ReaderTypes ==
  ASSUME TypeOK, UNCHANGED <<setting, pc, splitVars, pollVars, redisVars, answer>>,
         UNCHANGED <<Subs, Ids, Indices>>,
         reader' \in {"idle", "reading", "atomic", "parallel", "error"},
         upTo' \in Int, view' \in Entries(Subs), asked' \in Answers
  PROVE  TypeOK'
BY DEF TypeOK, Entries, setting, splitVars, pollVars, redisVars, Answers

LEMMA ReadInv ==
  ASSUME Inv, Read
  PROVE  Inv'
<1> USE DEF Inv
<1>0. UNCHANGED <<setting, pc, splitVars, pollVars, redisVars, answer>>
  BY DEF Read, ReadType, ReadEntry, ReadEnd
<1>1. /\ UNCHANGED <<Subs, Ids, Indices, WholeRange>>
      /\ Splitting' /\ Spans' /\ Counted'
  BY <1>0, SplitKept
<1> USE DEF setting, splitVars, pollVars, redisVars
<1>2. Described' /\ Placing' /\ Storing'
  BY <1>0, <1>1 DEF Described, Placing, Storing
<1>3. CASE ReadType
  <2>1. kind \in {Unset, Atomic} \/ (kind \in Int \X Int /\ kind = WholeRange)
    BY DEF TypeOK, Storing
  <2>2. TypeOK'
    BY <1>0, <1>1, <1>3, <2>1 DEF TypeOK, Entries, ReadType
  <2>3. CASE kind \in {Unset, Atomic}
    <3>1. answer = "ok" => request = Plain
      <4>1. WholeRange \in Int \X Int \/ request = Plain
        BY RequestFacts DEF WholeRange
      <4> QED
        BY <2>3, <4>1, RunAssumption DEF RunAssumption, Storing
    <3> QED
      BY <1>0, <1>1, <1>2, <1>3, <2>2, <2>3, <3>1 DEF Reading, ReadType
  <2>4. CASE kind \notin {Unset, Atomic}
    <3>1. request # Plain /\ upTo' = request.lo /\ reader' = "reading"
      BY <1>3, <2>1, <2>4 DEF ReadType, WholeRange, Storing
    <3>2. /\ request.lo \in Int /\ request.hi \in Int /\ request.lo <= request.hi
          /\ request.lo .. request.lo - 1 = {}
      BY <2>1, <2>4, <3>1, RequestFacts DEF Storing
    <3> QED
      BY <1>0, <1>1, <1>2, <1>3, <2>1, <2>2, <2>4, <3>1, <3>2 DEF Reading, ReadType
  <2> QED
    BY <2>3, <2>4
<1>4. CASE ReadEntry
  <2>1. /\ request # Plain /\ kind \in Int \X Int /\ kind = WholeRange
        /\ kind[2] = request.hi /\ DOMAIN assigned = Indices
        /\ request.lo \in Int /\ request.hi \in Int
        /\ Indices = request.lo .. request.hi - 1
        /\ request.lo <= upTo /\ upTo < request.hi /\ upTo \in Int
        /\ DOMAIN view = request.lo .. upTo - 1
    BY <1>4, RequestFacts DEF ReadEntry, Reading, Storing, WholeRange, TypeOK
  <2>2. CASE upTo \in DOMAIN entry
    <3>1. /\ view' = [x \in DOMAIN view \cup {upTo} |->
                       IF x \in {upTo} THEN entry[upTo] ELSE view[x]]
          /\ upTo' = upTo + 1 /\ reader' = "reading" /\ asked' = asked
      BY <1>4, <2>2 DEF ReadEntry, With
    <3>2. entry[upTo] = assigned[upTo] /\ assigned[upTo] \in Subs
      BY <2>1, <2>2, RequestFacts DEF Storing, TypeOK
    <3>3. /\ DOMAIN view' = request.lo .. upTo' - 1
          /\ \A i \in DOMAIN view' : i \in DOMAIN assigned /\ view'[i] = assigned[i]
          /\ view' \in [DOMAIN view' -> Subs]
      <4>1. \A i \in DOMAIN view : view[i] = assigned[i]
        BY DEF Reading
      <4>2. view \in [DOMAIN view -> Subs]
        BY EntriesMember DEF TypeOK
      <4> QED
        BY <2>1, <3>1, <3>2, <4>1, <4>2
    <3>4. view' \in Entries(Subs)
      <4>1. DOMAIN view' \subseteq Indices
        BY <2>1, <3>1, <3>3
      <4> QED
        BY <3>3, <4>1, EntriesMember
    <3>5. upTo' \in Int
      BY <2>1, <3>1
    <3>6. reader' = "reading" /\ asked' \in Answers
      BY <3>1 DEF TypeOK
    <3>7. TypeOK'
      BY <1>0, <1>1, <3>4, <3>5, <3>6, ReaderTypes
    <3>8. request.lo <= upTo' /\ upTo' <= request.hi
      BY <2>1, <3>1
    <3>9. reader' = "reading" /\ asked' = asked
      BY <3>1
    <3>10. Reading'
      BY <1>0, <1>1, <2>1, <3>3, <3>8, <3>9 DEF Reading
    <3> QED
      BY <1>1, <1>2, <3>7, <3>10
  <2>3. CASE upTo \notin DOMAIN entry
    <3>1. reader' = "error" /\ UNCHANGED <<view, upTo, asked>>
      BY <1>4, <2>3 DEF ReadEntry
    <3>2. answer # "ok"
      BY <2>1, <2>3 DEF Storing
    <3>3. TypeOK'
      BY <1>0, <1>1, <3>1 DEF TypeOK, Entries
    <3>4. Reading'
      BY <1>0, <1>1, <2>1, <3>1, <3>2 DEF Reading
    <3> QED
      BY <1>1, <1>2, <3>3, <3>4
  <2> QED
    BY <2>2, <2>3
<1>5. CASE ReadEnd
  <2>1. /\ request # Plain /\ kind[2] = request.hi /\ upTo \in Int
        /\ request.lo \in Int /\ request.hi \in Int
        /\ Indices = request.lo .. request.hi - 1
        /\ request.hi = upTo
        /\ DOMAIN view = Indices
    <3>1. reader = "reading" /\ upTo >= kind[2]
      BY <1>5 DEF ReadEnd
    <3>2. /\ request # Plain /\ kind = WholeRange /\ upTo <= request.hi
          /\ DOMAIN view = request.lo .. upTo - 1
      BY <3>1 DEF Reading, Storing
    <3>3. kind[2] = request.hi /\ request.hi \in Int /\ request.lo \in Int /\ upTo \in Int
      BY <3>2, RequestFacts DEF WholeRange, TypeOK
    <3> QED
      BY <3>1, <3>2, <3>3, RequestFacts
  <2>2. TypeOK'
    BY <1>0, <1>1, <1>5 DEF TypeOK, Entries, ReadEnd
  <2>3. Reading'
    BY <1>0, <1>1, <1>5, <2>1 DEF Reading, ReadEnd
  <2> QED
    BY <1>1, <1>2, <2>2, <2>3
<1> QED
  BY <1>3, <1>4, <1>5 DEF Read

-----------------------------------------------------------------------------
(* A request begins.                                                       *)

LEMMA RequestBounds ==
  ASSUME NEW r \in Requests
  PROVE  /\ r.lo \in Int /\ r.hi \in Int /\ r.per \in Nat \ {0}
         /\ r # Plain /\ r.lo = r.lo + 0 * r.per
BY RunAssumption DEF RunAssumption

LEMMA InitInv == Init => Inv
<1> SUFFICES ASSUME Init PROVE Inv
  OBVIOUS
<1>0. /\ request # Plain => /\ request.lo \in Int /\ request.hi \in Int /\ next = request.lo
                           /\ request.lo = request.lo + 0 * request.per
      /\ DOMAIN assigned = {} /\ DOMAIN toRun = {} /\ DOMAIN entry = {} /\ DOMAIN view = {}
      /\ kind = Unset /\ Unset # Atomic /\ ~(Unset \in Int \X Int)
  BY RequestBounds, RunAssumption DEF RunAssumption, Init, None
<1>1. Subs = (IF request = Plain THEN {Whole} ELSE {})
  BY <1>0 DEF Subs
<1>2. TypeOK
  <2>1. None \in Entries(Subs)
    BY DEF None, Entries
  <2>2. next \in Int
    BY <1>0 DEF Init
  <2>3. reports \in [Subs -> 0..MaxReports]
    BY RunAssumption DEF RunAssumption, Init
  <2>4. view \in Entries(Subs) /\ entry \in Entries(Subs)
    BY <2>1 DEF Init
  <2>5. generator \in [Subs -> {"waiting", "started", "placed", "over"}]
    BY DEF Init
  <2>6. /\ described \subseteq Ids /\ last \in {Unset, Whole}
        /\ placed \subseteq started /\ started \subseteq Subs /\ polled \subseteq Subs
    BY DEF Init
  <2>7. request \in Requests \cup {Plain} /\ provider \in Providers
    BY <1>0 DEF Init
  <2>8. /\ pc = "split" /\ upTo \in Int /\ reader = "idle"
        /\ answer \in Answers /\ asked \in Answers
    BY DEF Init, Answers
  <2>9. /\ DOMAIN assigned \subseteq Indices /\ DOMAIN toRun \subseteq Indices
        /\ \A i \in DOMAIN assigned : assigned[i] \in DOMAIN toRun
        /\ kind \in {Unset, Atomic} \cup (Int \X Int)
    BY <1>0
  <2>10. news \in BOOLEAN
    BY DEF Init
  <2> QED
    BY <2>2, <2>3, <2>4, <2>5, <2>6, <2>7, <2>8, <2>9, <2>10 DEF TypeOK
<1>3. Splitting /\ Spans
  <2>1. request # Plain => {i \in Indices : i < next} = {}
    BY <1>0 DEF Indices
  <2>2. assigned \in [DOMAIN assigned -> DOMAIN toRun]
    BY DEF Init, None
  <2> QED
    BY <1>0, <2>1, <2>2 DEF Init, Splitting, Spans
<1>4. Counted
  BY <1>0, FS_EmptySet DEF Counted
<1>5. Described /\ Placing /\ Storing /\ Reading
  BY <1>0 DEF Init, Described, Placing, Storing, Reading
<1> QED
  BY <1>2, <1>3, <1>4, <1>5 DEF Inv

LEMMA RerunInv ==
  ASSUME Inv, NEW id \in Ids, Rerun(id)
  PROVE  Inv'
<1> USE DEF Rerun
<1>0. /\ request' \in Requests \cup {Plain} /\ provider' \in Providers
      /\ request' # Plain => /\ request'.lo \in Int /\ request'.hi \in Int /\ next' = request'.lo
                            /\ request'.lo = request'.lo + 0 * request'.per
      /\ DOMAIN assigned' = {} /\ DOMAIN toRun' = {} /\ DOMAIN entry' = {} /\ DOMAIN view' = {}
      /\ kind' = Unset /\ Unset # Atomic /\ ~(Unset \in Int \X Int)
  <2>1. request' \in Requests \cup {Plain} /\ provider' \in Providers
    BY DEF Inv, TypeOK
  <2> QED
    BY <2>1, RequestBounds, RunAssumption DEF RunAssumption, None
<1>1. Subs' = (IF request' = Plain THEN {Whole} ELSE {})
  BY <1>0 DEF Subs
<1>2. TypeOK'
  <2>1. None \in Entries(Subs)'
    BY DEF None, Entries
  <2>2. next' \in Int
    BY <1>0
  <2>3. reports' \in [Subs' -> 0..MaxReports]
    BY RunAssumption DEF RunAssumption
  <2>4. view' \in Entries(Subs)' /\ entry' \in Entries(Subs)'
    BY <2>1
  <2>5. generator' \in [Subs' -> {"waiting", "started", "placed", "over"}]
    OBVIOUS
  <2>6. /\ described' \subseteq Ids' /\ last' \in {Unset, Whole}
        /\ placed' \subseteq started' /\ started' \subseteq Subs' /\ polled' \subseteq Subs'
    OBVIOUS
  <2>7. request' \in Requests \cup {Plain} /\ provider' \in Providers
    BY <1>0
  <2>8. /\ pc' = "split" /\ upTo' \in Int /\ reader' = "idle"
        /\ answer' \in Answers /\ asked' \in Answers
    BY DEF Answers
  <2>9. /\ DOMAIN assigned' \subseteq Indices' /\ DOMAIN toRun' \subseteq Indices'
        /\ \A i \in DOMAIN assigned' : assigned'[i] \in DOMAIN toRun'
        /\ kind' \in {Unset, Atomic} \cup (Int \X Int)
    BY <1>0
  <2>10. news' \in BOOLEAN
    OBVIOUS
  <2> QED
    BY <2>2, <2>3, <2>4, <2>5, <2>6, <2>7, <2>8, <2>9, <2>10 DEF TypeOK
<1>3. Splitting' /\ Spans'
  <2>1. request' # Plain => {i \in Indices' : i < next'} = {}
    BY <1>0 DEF Indices
  <2>2. assigned' \in [DOMAIN assigned' -> DOMAIN toRun']
    BY DEF None
  <2> QED
    BY <1>0, <2>1, <2>2 DEF Splitting, Spans
<1>4. Counted'
  BY <1>0, FS_EmptySet DEF Counted
<1>5. Described' /\ Placing' /\ Storing' /\ Reading'
  BY <1>0 DEF Described, Placing, Storing, Reading
<1> QED
  BY <1>2, <1>3, <1>4, <1>5 DEF Inv

LEMMA NextInv == Inv /\ [Next]_vars => Inv'
<1> SUFFICES ASSUME Inv, [Next]_vars PROVE Inv'
  OBVIOUS
<1>1. CASE Handle
  BY <1>1, SplitInv, DescribeInv, PollInv, StoreInv DEF Handle
<1>2. CASE Fail \/ Die
  BY <1>2, BreakInv
<1>3. CASE Read
  BY <1>3, ReadInv
<1>4. CASE \E id \in Ids : Rerun(id)
  BY <1>4, RerunInv
<1>5. CASE UNCHANGED vars
  <2> USE <1>5 DEF vars, setting, splitVars, pollVars, redisVars, readerVars
  <2>1. /\ UNCHANGED <<Subs, Ids, Indices, WholeRange>>
        /\ Splitting' /\ Spans' /\ Counted'
    BY SplitKept
  <2>2. TypeOK'
    BY <2>1, ReaderTypes DEF Inv, TypeOK
  <2>3. Described' /\ Placing' /\ Storing' /\ Reading'
    BY <2>1 DEF Inv, Described, Placing, Storing, Reading
  <2> QED
    BY <2>1, <2>2, <2>3 DEF Inv
<1> QED
  BY <1>1, <1>2, <1>3, <1>4, <1>5 DEF Next

LEMMA Invariant == Spec => []Inv
<1> QED
  BY InitInv, NextInv, PTL DEF Spec

-----------------------------------------------------------------------------
(* The theorems.                                                           *)

(* Every variable keeps its type: the handler assigns no index out of      *)
(* range, and polls no generator below its last try.                       *)
THEOREM TypeCorrect == Spec => []TypeOK
<1>1. Inv => TypeOK
  BY DEF Inv
<1> QED
  BY <1>1, Invariant, PTL

(* Any range is split exactly: an index in one sub-execution each, none    *)
(* too large, and none too many.                                           *)
THEOREM SplitExactly == Spec => []SplitIsExact
<1>1. ASSUME Inv, request # Plain, pc # "split", ~(pc = "dead" /\ next < request.hi)
      PROVE  SplitIsExact
  <2> USE <1>1 DEF Inv
  <2>1. /\ request.lo \in Int /\ request.hi \in Int /\ request.per \in Nat \ {0}
        /\ next \in Int /\ request.lo <= next /\ request.hi <= next
        /\ Indices = request.lo .. request.hi - 1
    BY <1>1, RequestFacts DEF TypeOK, Splitting
  <2>2. DOMAIN assigned = Indices
    BY <1>1, <2>1 DEF Splitting
  <2>3. ASSUME NEW s \in DOMAIN toRun
        PROVE  /\ Span(s) = {i \in Indices : assigned[i] = s}
               /\ Cardinality(Span(s)) \in 1..request.per
    <3>1. /\ toRun[s] \in Int \X Int /\ toRun[s][1] = s
          /\ s < toRun[s][2] /\ toRun[s][2] <= s + request.per
          /\ toRun[s][2] <= request.hi
          /\ \A i \in Span(s) : assigned[i] = s
          /\ s \in Indices
      BY DEF Spans, TypeOK
    <3>2. Span(s) \subseteq Indices
      BY <2>1, <3>1 DEF Span
    <3>3. \A i \in Indices : assigned[i] = s => i \in Span(s)
      BY <2>2 DEF Splitting
    <3>4. s \in Int /\ toRun[s][2] \in Int /\ Span(s) = s .. toRun[s][2] - 1
      BY <2>1, <3>1 DEF Span
    <3>5. Cardinality(s .. toRun[s][2] - 1) = toRun[s][2] - s
      BY <3>1, <3>4, FS_Interval
    <3> QED
      BY <2>1, <3>1, <3>2, <3>3, <3>4, <3>5
  <2>4. \/ (Cardinality(DOMAIN toRun) - 1) * request.per < Cardinality(Indices)
        \/ Indices = {}
    <3> DEFINE n == Cardinality(DOMAIN toRun)
    <3>1. n \in Nat
      BY FS_CardinalityType DEF Counted
    <3>2. n * request.per \in Nat /\ (n - 1) * request.per = n * request.per - request.per
      BY <2>1, <3>1
    <3>3. next = request.lo + n * request.per
      BY <1>1 DEF Counted
    <3>4. CASE next = request.lo
      BY <2>1, <3>4
    <3>5. CASE next - request.per < request.hi
      <4>1. Indices # {} => Cardinality(Indices) = request.hi - request.lo
        BY <2>1, FS_Interval
      <4> QED
        BY <2>1, <3>2, <3>3, <3>5, <4>1
    <3> QED
      BY <1>1, <3>4, <3>5 DEF Counted
  <2> QED
    BY <2>2, <2>3, <2>4 DEF SplitIsExact
<1>2. Inv => SplitIsExact
  BY <1>1 DEF SplitIsExact
<1> QED
  BY <1>2, Invariant, PTL

(* An answer without an error stands for a whole execution: started,       *)
(* placed, described, and its composition stored entry by entry.           *)
THEOREM OkIsComplete == Spec => []OkMeansComplete
<1>1. ASSUME Inv PROVE OkMeansComplete
  <2> USE <1>1 DEF Inv
  <2>1. answer = "ok" => started = Subs /\ placed = Subs
    BY DEF Placing, TypeOK
  <2>2. ASSUME answer = "ok", request # Plain
        PROVE  kind = <<request.lo, request.hi>> /\ entry = assigned
    <3>1. DOMAIN entry = DOMAIN assigned /\ \A i \in DOMAIN entry : entry[i] = assigned[i]
      BY <2>2 DEF Storing
    <3>2. entry \in [DOMAIN entry -> Subs] /\ assigned \in [DOMAIN assigned -> DOMAIN toRun]
      BY EntriesMember DEF TypeOK, Splitting
    <3>3. entry = assigned
      BY <3>1, <3>2
    <3> QED
      BY <2>2, <3>3 DEF Storing, WholeRange
  <2> QED
    BY <2>1, <2>2 DEF OkMeansComplete, Described, Storing
<1> QED
  BY <1>1, Invariant, PTL

(* Who reads a composition in whole reads the right one, at whatever       *)
(* moment of its being stored.                                             *)
THEOREM ReadRightly == Spec => []ViewIsRight
<1>1. ASSUME Inv PROVE ViewIsRight
  <2> USE <1>1 DEF Inv
  <2>1. ASSUME reader = "parallel"
        PROVE  /\ DOMAIN view = Indices
               /\ \A i \in Indices : view[i] \in started /\ i \in Span(view[i])
    <3>1. DOMAIN view = Indices /\ Subs \subseteq placed /\ request # Plain
      BY <2>1 DEF Reading, Storing
    <3>2. \A i \in Indices : i \in DOMAIN assigned /\ view[i] = assigned[i]
      BY <3>1 DEF Reading
    <3>3. Subs \subseteq started /\ \A i \in DOMAIN assigned : assigned[i] \in Subs
      BY <3>1 DEF TypeOK, Subs
    <3> QED
      BY <3>1, <3>2, <3>3 DEF Splitting
  <2> QED
    BY <2>1 DEF ViewIsRight, Reading
<1> QED
  BY <1>1, Invariant, PTL

-----------------------------------------------------------------------------
(* The request as its client and the readers see it.                       *)

(* No part is started twice, none once the composition begins to be        *)
(* stored, and nobody reads an entry that is not there.                    *)
Launching ==
  /\ pc \in {"split", "describe", "announce"} =>
       polled = {} /\ \A s \in Subs : generator[s] = "waiting"
  /\ pc = "open" => \A s \in Subs \ polled : generator[s] = "waiting"
  /\ pc \notin {"ended", "dead"} => \A s \in started : generator[s] # "waiting"
  /\ pc \in {"open", "poll", "check", "store", "storeIndex"} => answer = "id"
  /\ pc \notin {"storeIndex", "ended", "dead"} => kind = Unset
  /\ kind = Unset => DOMAIN entry = {}
  /\ DOMAIN view \subseteq DOMAIN entry
  /\ last = Whole \/ reader # "idle" => answer # "nothing"

(* It holds at the start, *)
LEMMA InitLaunching == Init => Launching
BY RunAssumption DEF RunAssumption, Init, None, Launching

(* the loop over the generators keeps it, each generator starting its part *)
(* as it stops waiting,                                                    *)
LEMMA PollLaunching ==
  ASSUME Inv, Launching,
         \/ Opened \/ EndRound \/ Check
         \/ \E s \in Subs : \/ Open(s) \/ Report(s) \/ StartContainer(s)
                           \/ Place(s) \/ Stop(s)
  PROVE  Launching'
<1> USE DEF setting, splitVars, redisVars, readerVars, pollVars, Goto
<1>1. Subs' = Subs /\ generator \in [Subs -> {"waiting", "started", "placed", "over"}]
  BY DEF Opened, EndRound, Check, Open, Report, StartContainer, Place, Stop,
         Subs, Inv, TypeOK
<1>2. CASE Opened \/ EndRound \/ Check
  BY <1>1, <1>2 DEF Opened, EndRound, Check, Launching
<1>3. ASSUME NEW s \in Subs, \/ Open(s) \/ Report(s) \/ StartContainer(s)
                              \/ Place(s) \/ Stop(s)
      PROVE  Launching'
  <2>1. /\ UNCHANGED <<pc, answer, redisVars, readerVars>>
        /\ pc \in {"open", "poll"} /\ polled' = polled \cup {s}
    BY <1>3 DEF Open, Report, StartContainer, Place, Stop, Turn
  <2>2. \/ UNCHANGED <<generator, started>>
        \/ \E to \in {"started", "placed", "over"} :
             /\ generator' = [generator EXCEPT ![s] = to]
             /\ started' \in {started, started \cup {s}}
    BY <1>3 DEF Open, Report, StartContainer, Place, Stop, Comes
  <2> QED
    BY <1>1, <2>1, <2>2 DEF Launching, Inv, TypeOK
<1> QED
  BY <1>2, <1>3

(* and so does every other step.                                           *)
LEMMA LaunchingInv == Inv /\ Launching /\ [Next]_vars => Launching'
<1> SUFFICES ASSUME Inv, Launching, [Next]_vars PROVE Launching'
  OBVIOUS
<1> USE DEF setting, splitVars, redisVars, readerVars, pollVars, Goto
<1>1. CASE Split
  <2>1. request # Plain /\ Subs = DOMAIN toRun /\ Subs' = Subs \cup {next}
    BY <1>1 DEF Split, With, Subs
  <2> QED
    BY <1>1, <2>1 DEF Split, With, Launching, Inv, TypeOK
<1>2. CASE SplitEnd \/ Describe \/ Announce
  BY <1>2 DEF SplitEnd, Describe, Announce, Launching, Subs
<1>3. CASE \/ Opened \/ EndRound \/ Check
           \/ \E s \in Subs : \/ Open(s) \/ Report(s) \/ StartContainer(s)
                             \/ Place(s) \/ Stop(s)
  BY <1>3, PollLaunching
<1>4. CASE StoreAtomic \/ StoreNothing \/ StoreType
  BY <1>4, RunAssumption DEF StoreAtomic, StoreNothing, StoreType, StoreRange, Launching, Subs,
     RunAssumption
<1>5. CASE StoreIndex
  <2>1. /\ UNCHANGED <<Subs, generator, polled, kind, last, readerVars, started>>
        /\ pc = "storeIndex" /\ pc' \in {"storeIndex", "ended"}
        /\ DOMAIN entry \subseteq DOMAIN entry'
        /\ answer' = "ok" \/ UNCHANGED answer
        /\ pc' = pc => UNCHANGED answer
    BY <1>5 DEF StoreIndex, With, Subs
  <2>2. kind # Unset
    BY <2>1, RunAssumption DEF Inv, Storing, RunAssumption
  <2> QED
    BY <2>1, <2>2 DEF Launching
<1>6. CASE Fail \/ Die
  BY <1>6 DEF Fail, Die, Launching, Subs
<1>7. CASE Read
  BY <1>7 DEF Read, ReadType, ReadEntry, ReadEnd, With, Launching, Subs
<1>8. ASSUME NEW id \in Ids, Rerun(id) PROVE Launching'
  BY <1>8, RunAssumption DEF Rerun, None, Launching, RunAssumption
<1>9. CASE UNCHANGED vars
  BY <1>9 DEF vars, Launching, Subs
<1> QED
  BY <1>1, <1>2, <1>3, <1>4, <1>5, <1>6, <1>7, <1>8, <1>9 DEF Next, Handle

Stored == IF kind = Unset THEN "none"
          ELSE IF kind = Atomic \/ DOMAIN entry = DOMAIN assigned THEN "whole"
          ELSE "partly"

(* The steps of the handler.                                               *)
LEMMA HandleRefines ==
  ASSUME Inv, Launching, Handle
  PROVE  [Abstract!Next]_Abstract!vars
<1> USE DEF setting, splitVars, redisVars, readerVars, pollVars, Goto
<1>1. CASE Split
  BY <1>1 DEF Split, With, Subs, Launching, Inv, Described, Abstract!Next, Abstract!Divide
<1>2. ASSUME UNCHANGED <<request, toRun, assigned, answer, started, kind, entry, reader>>
      PROVE  UNCHANGED Abstract!vars
  BY <1>2 DEF Abstract!vars, Subs
<1>3. CASE SplitEnd \/ Describe \/ Opened \/ EndRound
  BY <1>2, <1>3 DEF SplitEnd, Describe, Opened, EndRound
<1>4. CASE Announce
  BY <1>4 DEF Announce, Subs, Inv, Described, Abstract!Next, Abstract!Announce
<1>5. ASSUME NEW s \in Subs, Report(s) \/ Place(s) \/ Stop(s)
      PROVE  UNCHANGED Abstract!vars
  BY <1>2, <1>5 DEF Report, Place, Stop
<1>6. ASSUME NEW s \in Subs, Open(s) \/ StartContainer(s)
      PROVE  [Abstract!Next]_Abstract!vars
  <2>1. CASE started' = started
    BY <1>2, <1>6, <2>1 DEF Open, StartContainer
  <2>2. CASE started' = started \cup {s}
    <3>1. generator[s] = "waiting" /\ pc \in {"open", "poll"}
      BY <1>6 DEF Open, StartContainer, Turn, First, Launching
    <3>2. /\ s \notin started /\ answer = "id" /\ kind = Unset
      BY <3>1 DEF Launching
    <3>3. UNCHANGED <<request, toRun, assigned, answer, kind, entry, reader>>
      BY <1>6 DEF Open, StartContainer
    <3> QED
      BY <2>2, <3>2, <3>3 DEF Subs, Abstract!Next, Abstract!Launch
  <2> QED
    BY <1>6, <2>1, <2>2 DEF Open, StartContainer
<1>7. CASE Check \/ StoreNothing
  <2>1. UNCHANGED <<request, toRun, assigned, started, kind, entry, reader>>
    BY <1>7 DEF Check, StoreNothing
  <2>2. answer' = answer \/ (answer = "id" /\ answer' = "error")
    BY <1>7 DEF Check, StoreNothing, Launching
  <2> QED
    BY <1>2, <2>1, <2>2 DEF Subs, Abstract!Next, Abstract!Refuse
<1>8. ASSUME pc \in {"store", "storeIndex"},
             UNCHANGED <<request, toRun, assigned, started, reader>>,
             Stored' \in {"partly", "whole"},
             Stored = "whole" => Stored' = "whole",
             answer' = answer \/ (answer' = "ok" /\ Stored' = "whole")
      PROVE  Abstract!Next
  <2>1. answer = "id" /\ started = Subs
    BY <1>8 DEF Launching, Inv, Placing, TypeOK
  <2> QED
    BY <1>8, <2>1 DEF Stored, Subs, Abstract!Next, Abstract!Store
<1>9. CASE StoreAtomic
  <2>1. Stored' = "whole"
    BY <1>9, RunAssumption DEF StoreAtomic, Stored, RunAssumption
  <2> QED
    BY <1>8, <1>9, <2>1 DEF StoreAtomic
<1>10. CASE StoreType
  <2>1. kind = Unset /\ DOMAIN entry = {}
    BY <1>10 DEF StoreType, StoreRange, Launching
  <2>2. kind' \in Int \X Int
    BY <1>10, StoreInv DEF StoreType, StoreRange, Inv, Storing
  <2>3. Stored = "none" /\ Stored' \in {"partly", "whole"}
    BY <2>1, <2>2, RunAssumption DEF Stored, RunAssumption
  <2> QED
    BY <1>8, <1>10, <2>3 DEF StoreType, StoreRange
<1>11. CASE StoreIndex
  <2>1. kind \in Int \X Int /\ kind # Unset /\ DOMAIN entry \subseteq DOMAIN assigned
    BY <1>11, RunAssumption DEF StoreIndex, Inv, Storing, RunAssumption
  <2>2. CASE entry' = entry
    BY <1>8, <1>11, <2>1, <2>2 DEF StoreIndex, Stored
  <2>3. CASE entry' # entry
    <3>1. Stored # "whole"
      BY <1>11, <2>1, <2>3, RunAssumption DEF StoreIndex, Stored, RunAssumption
    <3> QED
      BY <1>8, <1>11, <2>1, <2>3, <3>1 DEF StoreIndex, Stored
  <2> QED
    BY <2>2, <2>3
<1> QED
  BY <1>1, <1>3, <1>4, <1>5, <1>6, <1>7, <1>9, <1>10, <1>11 DEF Handle

(* A reader finds what was there when it came to the end of its reading.   *)
LEMMA ReadRefines ==
  ASSUME Inv, Launching, Read
  PROVE  [Abstract!Next]_Abstract!vars
<1> USE DEF setting, splitVars, redisVars, readerVars, pollVars, Goto
<1>1. /\ UNCHANGED <<request, toRun, assigned, answer, started, kind, entry>>
      /\ answer # "nothing"
  BY RunAssumption DEF Read, ReadType, ReadEntry, ReadEnd, Launching
<1>2. UNCHANGED Stored /\ UNCHANGED Subs
  BY <1>1 DEF Stored, Subs
<1>3. CASE ReadType
  <2>1. reader = "idle"
    BY <1>3 DEF ReadType
  <2>2. reader' = IF request # Plain /\ Stored # "none" THEN "reading" ELSE "atomic"
    BY <1>3, RunAssumption DEF ReadType, Stored, Inv, TypeOK, Storing, RunAssumption
  <2> QED
    BY <1>1, <1>2, <2>1, <2>2 DEF Stored, Abstract!Next, Abstract!Read
<1>4. ASSUME reader = "reading"
      PROVE  /\ kind = WholeRange /\ DOMAIN assigned = Indices /\ kind \in Int \X Int
             /\ DOMAIN view = request.lo .. upTo - 1
             /\ DOMAIN view \subseteq DOMAIN entry /\ DOMAIN entry \subseteq Indices
             /\ request.lo <= upTo /\ upTo <= request.hi
             /\ kind[2] = request.hi
             /\ Indices = request.lo .. request.hi - 1
             /\ upTo \in Int /\ request.lo \in Int /\ request.hi \in Int
  BY <1>4, RequestFacts DEF Inv, Reading, Storing, Launching, WholeRange, TypeOK
<1>5. CASE ReadEntry
  <2>1. CASE upTo \in DOMAIN entry
    <3>1. UNCHANGED reader
      BY <1>5, <2>1 DEF ReadEntry
    <3> QED
      BY <1>1, <1>2, <3>1 DEF Stored, Abstract!vars
  <2>2. CASE upTo \notin DOMAIN entry
    <3>1. reader = "reading" /\ reader' = "error" /\ upTo < kind[2]
      BY <1>5, <2>2 DEF ReadEntry
    <3>2. upTo \in DOMAIN assigned
      BY <1>4, <3>1
    <3>3. Stored = "partly"
      BY <1>4, <2>2, <3>1, <3>2, RunAssumption DEF Stored, RunAssumption
    <3> QED
      BY <1>1, <1>2, <3>1, <3>3 DEF Stored, Abstract!Next, Abstract!Read
  <2> QED
    BY <2>1, <2>2
<1>6. CASE ReadEnd
  <2>1. reader = "reading" /\ reader' = "parallel" /\ upTo >= kind[2]
    BY <1>6 DEF ReadEnd
  <2>2. DOMAIN entry = DOMAIN assigned
    <3>1. upTo = request.hi
      BY <1>4, <2>1
    <3> QED
      BY <1>4, <2>1, <3>1
  <2>3. Stored = "whole"
    BY <1>4, <2>1, <2>2, RunAssumption DEF Stored, RunAssumption
  <2> QED
    BY <1>1, <1>2, <2>1, <2>3 DEF Stored, Abstract!Next, Abstract!Read
<1> QED
  BY <1>3, <1>5, <1>6 DEF Read

(* A request is answered with an error or with the whole of what was asked *)
(* for, once; nothing is started twice, or once the composition begins to  *)
(* be stored; and who reads it meanwhile reads all of it or an error.      *)
THEOREM Refinement == Spec => AbstractSpec
<1> USE DEF setting, splitVars, redisVars, readerVars, pollVars
<1>1. Init => Abstract!Init
  BY DEF Init, Abstract!Init, Abstract!Start
<1>2. Spec => []Launching
  BY Invariant, InitLaunching, LaunchingInv, PTL DEF Spec
<1>3. ASSUME Inv, Launching, [Next]_vars
      PROVE  [Abstract!Next]_Abstract!vars
  <2>1. CASE Fail
    <3>1. /\ UNCHANGED <<request, toRun, assigned, kind, entry, reader>>
          /\ answer = "id" /\ answer' = "error"
      BY <1>3, <2>1 DEF Fail, Launching
    <3>2. started' = started \/ \E s \in Subs \ started : started' = started \cup {s}
      BY <1>3, <2>1 DEF Fail, Launching
    <3> QED
      BY <3>1, <3>2 DEF Subs, Abstract!Next, Abstract!Refuse
  <2>2. CASE Die \/ UNCHANGED vars
    BY <2>2 DEF Die, vars, Subs, Abstract!vars
  <2>3. ASSUME NEW id \in Ids, Rerun(id) PROVE Abstract!Next
    BY <2>3 DEF Rerun, Abstract!Next, Abstract!Again, Abstract!Start
  <2> QED
    BY <1>3, <2>1, <2>2, <2>3, HandleRefines, ReadRefines DEF Next
<1> QED
  BY <1>1, <1>2, <1>3, Invariant, PTL DEF Spec, AbstractSpec, Abstract!Spec
=============================================================================
