\* Bindings in any order, a shadowed field, a var, assignments from elsewhere.
SPECIFICATION UpdateSpec
CONSTANTS
  Elements = {"a", "b", "c", "d"}
  Classes <- MCClasses
  Values <- MCValues
  Eval <- MCEval
  Offset <- MCOffset
  Bytes <- MCBytes
  Numbers = {"a", "c"}
  Dynamic = {"d"}
  LocalStores = {4, 8}
  Shadows = {{}, {"b"}}
INVARIANTS
  UpdateTypeOK
  
  
PROPERTIES
  AssignmentEnds
CHECK_DEADLOCK FALSE
