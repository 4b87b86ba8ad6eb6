------------------------- MODULE MCEC2InstanceGroup -------------------------
EXTENDS EC2InstanceGroup, TLC

MCSymmetry == Permutations(Instances) \cup Permutations(Executions)
=============================================================================
