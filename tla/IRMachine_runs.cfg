SPECIFICATION Spec
CONSTANTS
  Fields <- MCFields
  Natives <- MCNatives
  Scripts <- MCScripts
  Memory <- MCMemory
INVARIANTS TypeOK StackBalanced FieldsConstructed
PROPERTY Implements
CHECK_DEADLOCK FALSE
