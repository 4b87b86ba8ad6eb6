--------------------------- MODULE MCInstanceLock ---------------------------
(* Two request workers and the harvester; the workers are interchangeable  *)
(* in a safety run.                                                        *)
EXTENDS InstanceLock, TLC

MCSymmetry == Permutations(Workers)
=============================================================================
