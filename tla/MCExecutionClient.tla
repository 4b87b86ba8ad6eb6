-------------------------- MODULE MCExecutionClient --------------------------
(* An atomic execution, or one of two sub-executions of an index each. *)
EXTENDS ExecutionClient

CONSTANTS e1, e2

MCCompositions ==
  {[i \in {NoIndex} |-> e1], [i \in 1..2 |-> IF i = 1 THEN e1 ELSE e2]}
=============================================================================
