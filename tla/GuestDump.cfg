CONSTANTS
  Pids = {app, neighbour}
  Held = {app}
  NumGroups = 3
  Tables <- MCTables
  GroupSize = 2
  BufferRows = 2
  MaxChanges = 1
SPECIFICATION Spec
INVARIANTS
  OwnRows
  DumpIsBetween
PROPERTIES
  ReadEnds
CHECK_DEADLOCK FALSE
