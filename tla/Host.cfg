SPECIFICATION StageSpec
CONSTANTS
  Dumps <- MCDumps
  Chain <- MCChain
  Qemus = {q1, q2}
  NoQemu = NoQemu
  FirstCapacity = 1
  MaxGap = 3
SYMMETRY Alike
INVARIANTS
  WrittenIsDone
  
  DeliveredFromTarget
  LoadedUpToCut
PROPERTIES
  ImplementsHostTable
