SPECIFICATION Spec
CONSTANTS
  Runs = {1, 2}
INVARIANTS
  HeldByDriver
  PidIsOwn
  
  
PROPERTIES
  HeldResumes
  DriverEnds
CHECK_DEADLOCK FALSE
