\* Locals of every kind of type; sources that compile.
SPECIFICATION Spec
CONSTANTS
  Names = {"a", "b", "c"}
  Fields = {"a", "b"}
  Types <- MCTypes
  Var = "var"
  Native = {"array"}
  Size <- MCSize
  SlotSize = 8
  Half = 128
  Kinds = {"static", "method", "ctor"}
  ParamTypes = {"ptr"}
  LocalTypes = {"int32", "array", "var"}
  Failures = FALSE
  BlockResults = {"ok"}
  MaxFns = 1
  MaxLocals = 3
  MaxOffset = 70
  MaxScopes = 5
INVARIANTS
  CanaryHonest
  CanaryBalanced
CHECK_DEADLOCK FALSE
