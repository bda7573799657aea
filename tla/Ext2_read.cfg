SPECIFICATION Spec
CONSTANTS
  Volumes <- SomeVolumes
  Direct = 2
  PerBlock = 2
  BufSize = 4
  Names = {"dot", "d", "f", "g", "x", "none"}
  DeadStack = {0}
  Null = Null
INVARIANTS InodeFound ListingRight FileRight
PROPERTY CallsReturn
