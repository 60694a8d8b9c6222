CONSTANTS
  Dirs = {data, other}
  Default = data
  Arches = {arm, x86}
  Words = {{}, {"all"}, {"capture"}, {"host"}, {"decode"}, {"sim"}}
  MaxCaptures = 2
  MaxFaults = 2
SPECIFICATION Spec
INVARIANTS
  SameCapture
  ReplaysWhole
  RepeatIsSafe
PROPERTIES
  NothingLost
  ForcedIsCurrent
  CaptureCompletes
CHECK_DEADLOCK FALSE
