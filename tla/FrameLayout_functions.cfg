\* Static, non-native locals in every kind of function; any statement may fail.
SPECIFICATION FairSpec
CONSTANTS
  Names = {"a", "b", "c"}
  Fields = {"a", "b"}
  Types <- MCTypes
  Var = "var"
  Native = {"array"}
  Size <- MCSize
  SlotSize = 8
  Half = 128
  Kinds = {"static", "method", "ctor"}
  ParamTypes = {"ptr"}
  LocalTypes = {"int32", "ptr"}
  Failures = TRUE
  BlockResults = {"ok", "aborted"}
  MaxFns = 2
  MaxLocals = 4
  MaxOffset = 130
  MaxScopes = 4
INVARIANTS
  OnlyParametersRemain
  TypeOK
  SlotsInFrame
  ArgumentsReleased
  SlotsContiguous
PROPERTY BlocksClose
CHECK_DEADLOCK FALSE
