SPECIFICATION ShellSpec
CONSTANTS
  Sessions <- SomeSessions
  LowStrings <- SomeLow
  Partitions = {1, 2}
  CMDLEN = 14
  ARGNUM = 5
  WordMod = 4096
  Uninit = {0, 7}
INVARIANTS
  ArgsRight
  HandedOn
CHECK_DEADLOCK FALSE
