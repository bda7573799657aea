SPECIFICATION FatSpec
CONSTANTS
  Volumes <- AllVolumes
  PerSector = 3
  LongMax = 6
  SectorBytes = 2
  LbaSpace = 32
  OtherEnds = {90, 99}
  Goals <- SomeGoals
  Nil = Nil
INVARIANTS ListingRight FileRight
PROPERTY CallsReturn
