---------------------------- MODULE AtomicResults ----------------------------
(***************************************************************************)
(* What the results storage promises about one execution                   *)
(* (controller/results/results_base.py): in one step, and once, it gets    *)
(* its results or a tombstone, and whoever asks is told what there is at   *)
(* one moment of the asking.  EC2InstanceGroup counts on this (`record').  *)
(***************************************************************************)
CONSTANT Readers    \* requests that ask for the results

VARIABLES
  record,   \* "none", "results" or "tombstone"
  answer    \* what each reader was told: a record, or "nothing" yet

vars == <<record, answer>>

Init ==
  /\ record = "none"
  /\ answer = [r \in Readers |-> "nothing"]

Settle ==
  /\ record = "none"
  /\ record' \in {"results", "tombstone"}
  /\ UNCHANGED answer

Answer(r) ==
  /\ answer[r] = "nothing"
  /\ answer' = [answer EXCEPT ![r] = record]
  /\ UNCHANGED record

AskAnew(r) ==
  /\ answer' = [answer EXCEPT ![r] = "nothing"]
  /\ UNCHANGED record

Next == Settle \/ \E r \in Readers : Answer(r) \/ AskAnew(r)

Spec == Init /\ [][Next]_vars
=============================================================================
