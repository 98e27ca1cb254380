SPECIFICATION Spec
CONSTANTS
  Fields <- MCFields
  Natives <- MCNatives
  Scripts <- MCDraw
  Memory <- MCMemory
INVARIANT ReceiverIsObject
CHECK_DEADLOCK FALSE
