-------------------------- MODULE MCLocalhostProvider --------------------------
EXTENDS LocalhostProvider, TLC

CONSTANTS e1, e2, u1, u2, k1

MCExecutions == {e1, e2}
MCUsers == {u1, u2}
MCOwner == (e1 :> u1) @@ (e2 :> u2)

AskFor(ids, force, berserk) ==
  [user |-> u1, all |-> ids = {}, ids |-> ids, force |-> force, berserk |-> berserk]

MCAsks == {AskFor({}, TRUE, FALSE), AskFor({e1, e2}, FALSE, FALSE),
           AskFor({e1, e2}, TRUE, TRUE)}
=============================================================================
