SPECIFICATION Spec
CONSTANTS
  Periods <- TickLengths
  Cost = 1
  PRECISION = 3
  MILLISEC = 4
  WordMod = 256
INVARIANTS
  Calibrated
  HandlerReady
PROPERTIES
  Finishes
