\* Two builds in one engine, that declare classes again or not.
SPECIFICATION Spec
CONSTANTS
  Classes = {"App", "T"}
  Methods = {"main"}
  Empty <- MCEmpty
  HostTypes = {"int32"}
  HostSize <- MCHostSize
  NoType = "none"
  Modules = {"std"}
  Batches <- MCBatches
  MaxBuilds = 2
  MaxMembers = 2
  MaxErrors = 1
INVARIANTS
  TypeOK
  LookupIsCurrent
  SlotsInObject
  ObjectsHoldFields
  GeneratedWhenCompiled
CHECK_DEADLOCK FALSE
