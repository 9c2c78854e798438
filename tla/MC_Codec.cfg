CONSTANTS
  Messages <- MC_Messages
  Sizes <- MC_Sizes
  MaxPayload = 32
  RxSize = 42
SPECIFICATION Spec
INVARIANTS FramesAligned FitsBuffer FieldsUnderstood
