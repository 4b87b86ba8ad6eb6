--------------------------- MODULE MCRunExecution ---------------------------
(* Ranges that divide evenly, that do not, that are one sub-execution, and *)
(* that are empty; a start other than 0.                                   *)
EXTENDS RunExecution

MCRequests ==
  {[lo |-> 0, hi |-> 2, per |-> 2], [lo |-> 1, hi |-> 4, per |-> 1],
   [lo |-> 0, hi |-> 3, per |-> 2], [lo |-> 2, hi |-> 2, per |-> 1]}
=============================================================================
