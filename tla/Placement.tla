------------------------------ MODULE Placement ------------------------------
(***************************************************************************)
(* What a provider of instances promises about executions, whatever        *)
(* becomes of requests, workers and machines: an execution is put on an    *)
(* instance once at most; its results are recorded once, while its         *)
(* container is there and its process is not (any more) alive; the         *)
(* container goes away only with its instance, or after the results were   *)
(* recorded; and only an execution whose instance went away from under it  *)
(* gets a tombstone.                                                       *)
(***************************************************************************)
CONSTANTS
  Instances,
  Executions

VARIABLES
  waiting,   \* executions that may still be put on an instance
  on,        \* of each execution, the instances that hold its container
  alive,     \* executions whose process runs there
  record     \* "none", "results" or "tombstone"

vars == <<waiting, on, alive, record>>

Init ==
  /\ waiting = Executions
  /\ on = [e \in Executions |-> {}]
  /\ alive = {}
  /\ record = [e \in Executions |-> "none"]

Place(e, i) ==
  /\ e \in waiting
  /\ waiting' = waiting \ {e}
  /\ on' = [on EXCEPT ![e] = {i}]
  /\ alive' \in {alive, alive \cup {e}}
  /\ UNCHANGED record

GiveUp(e) ==
  /\ waiting' = waiting \ {e}
  /\ UNCHANGED <<on, alive, record>>

End(e) ==
  /\ alive' = alive \ {e}
  /\ UNCHANGED <<waiting, on, record>>

Publish(e) ==
  /\ on[e] # {} /\ e \notin alive /\ record[e] = "none"
  /\ record' = [record EXCEPT ![e] = "results"]
  /\ UNCHANGED <<waiting, on, alive>>

Remove(e) ==
  /\ e \notin alive /\ record[e] = "results"
  /\ on' = [on EXCEPT ![e] = {}]
  /\ UNCHANGED <<waiting, alive, record>>

Lose(i) ==
  /\ on' = [e \in Executions |-> on[e] \ {i}]
  /\ alive' = {e \in alive : on'[e] # {}}
  /\ UNCHANGED <<waiting, record>>

Bury(e) ==
  /\ e \notin waiting /\ on[e] = {} /\ record[e] = "none"
  /\ record' = [record EXCEPT ![e] = "tombstone"]
  /\ UNCHANGED <<waiting, on, alive>>

Next ==
  \/ \E e \in Executions :
       \/ \E i \in Instances : Place(e, i)
       \/ GiveUp(e) \/ End(e) \/ Publish(e) \/ Remove(e) \/ Bury(e)
  \/ \E i \in Instances : Lose(i)

Spec == Init /\ [][Next]_vars
=============================================================================
