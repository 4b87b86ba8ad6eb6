SPECIFICATION Spec
CONSTANTS
  Clients = {c1, c2, c3}
  Files = {f1}
  Versions = {v1, v2}
  Absent = Absent
  Cut = Cut
  MaxTime = 1
  InPlaceEdits = TRUE
  InputsDeleted = TRUE
  CallsMayFail = TRUE
  ServerMayDie = TRUE
  None = None
  Torn = Torn
SYMMETRY MCSymmetry
INVARIANTS
  StoredIsNamed
  MissingWasDeleted
  FreshUnlessEdited
CHECK_DEADLOCK FALSE
