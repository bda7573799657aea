SPECIFICATION Spec
CONSTANTS
  Row = 3
  Col = 6
  PromptLen = 2
  ClearX = 3
  MaxLine = 3
  Echoes = {1}
INVARIANTS OnScreen IndexFollowsCursor EchoMatchesBuffer
PROPERTY NoOverwrite
