SPECIFICATION FairSpec
CONSTANTS
  Heap = 6
  WordMod = 256
  Requests = {0, 8, 9}
  Junk = {3}
INVARIANTS TypeOK HeldNotFree HeldDisjoint FreeListIsGaps BigEnough
PROPERTIES KeepsContract CallsReturn
