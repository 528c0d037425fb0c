SPECIFICATION Spec
CONSTANTS
  Register = 8192
  V4Len = 2
  V6Len = 3
  HashLen = 2
  TimeBase = 6
  SecLen = 2
  NanoLen = 1
  MaxSecs = 20
  Billion = 4
  U32 = 4
  NoText = NoText
  Base = 4
  MaxGroups = 3
  Word = 32
  Sizes = {4, 32}
  IdLen = 1
  MaxName = 1
  MaxLen = 6
INVARIANT TextsOk
 
INVARIANT PacketsOk
INVARIANT FormsOk
INVARIANT HandshakeOk
CHECK_DEADLOCK FALSE
