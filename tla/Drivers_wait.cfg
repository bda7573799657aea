SPECIFICATION Spec
CONSTANTS
  Machines <- SomeMachines
  Requests <- SomeRequests
  Base = 2
  Nib = 2
  Words = 2
  Junk = Junk
  Keys = {a}
  KeyBuffer = 2
  MaxStrokes = 4
  MaxCalls = 2
INVARIANTS
  DataRight
  ErrorSeen
  ProbeRight
  KeysRight
PROPERTIES
  CallsReturn
CHECK_DEADLOCK FALSE
