------------------------------ MODULE AllOrError ------------------------------
(***************************************************************************)
(* What a request to run an execution promises, whatever fails or dies on  *)
(* the way.  The execution is divided into parts before its id is given    *)
(* away; each part is started once at most, and only until the request is  *)
(* answered.  It is answered once: with an error, or else with all parts   *)
(* started and the composition stored, which nobody begins to store before *)
(* all are started.  Who reads the composition, which takes its time while *)
(* the store does too, finds what was there at one moment of the reading:  *)
(* nothing yet, all of it, or an error for a part of it.                   *)
(***************************************************************************)
VARIABLES
  divided,   \* into parts with ranges of indices of their own
  parts,     \* the sub-executions, or the execution itself
  answer,    \* "nothing", "id", "error" or "ok"
  started,   \* parts that were started
  stored,    \* of the composition: "none", "partly" or "whole"
  reader     \* "idle", "reading", or "atomic", "parallel" or "error"

vars == <<divided, parts, answer, started, stored, reader>>

Start ==
  /\ answer = "nothing" /\ started = {}
  /\ stored = "none" /\ reader = "idle"

Init == Start

Divide ==
  /\ answer = "nothing" /\ parts \subseteq parts'
  /\ UNCHANGED <<divided, answer, started, stored, reader>>

Announce ==
  /\ answer = "nothing" /\ answer' = "id"
  /\ UNCHANGED <<divided, parts, started, stored, reader>>

Launch ==
  /\ answer = "id" /\ stored = "none"
  /\ \E s \in parts \ started : started' = started \cup {s}
  /\ UNCHANGED <<divided, parts, answer, stored, reader>>

Store ==
  /\ answer = "id" /\ started = parts
  /\ stored' \in {"partly", "whole"} /\ (stored = "whole" => stored' = "whole")
  /\ answer' = "id" \/ (answer' = "ok" /\ stored' = "whole")
  /\ UNCHANGED <<divided, parts, started, reader>>

(* what was going to be started may have been *)
Refuse ==
  /\ answer = "id" /\ answer' = "error"
  /\ started' = started \/ \E s \in parts \ started : started' = started \cup {s}
  /\ UNCHANGED <<divided, parts, stored, reader>>

Read ==
  /\ answer # "nothing"
  /\ \/ /\ reader = "idle"
        /\ reader' = IF divided /\ stored # "none" THEN "reading" ELSE "atomic"
     \/ /\ reader = "reading"
        /\ reader' = IF stored = "whole" THEN "parallel" ELSE "error"
  /\ UNCHANGED <<divided, parts, answer, started, stored>>

(* the same again, or one of its parts *)
Again == answer # "nothing" /\ Start'

Next ==
  Divide \/ Announce \/ Launch \/ Store \/ Refuse \/ Read \/ Again

Spec == Init /\ [][Next]_vars
=============================================================================
