----------------------------- MODULE MCInputData -----------------------------
EXTENDS InputData, TLC

MCSymmetry ==
  Permutations(Clients) \cup Permutations(Files) \cup Permutations(Versions)
=============================================================================
