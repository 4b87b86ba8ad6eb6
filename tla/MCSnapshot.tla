------------------------------ MODULE MCSnapshot ------------------------------
EXTENDS Snapshot, TLC

CONSTANTS r1, r2
=============================================================================
