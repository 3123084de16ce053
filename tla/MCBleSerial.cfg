SPECIFICATION Spec
CONSTANTS
  MaxText = 1
  Frames <- MCFrames
INVARIANTS
  TypeOK
  RoomLeft
  StreamIntact
