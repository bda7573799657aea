SPECIFICATION Spec
CONSTANTS
  Heap = 4
  WordMod = 256
  Requests = {0, 8, 9}
  Junk = {3}
PROPERTY NoneLeft
