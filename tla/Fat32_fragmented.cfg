SPECIFICATION FatSpec
CONSTANTS
  Volumes <- SoundVolumes
  PerSector = 3
  LongMax = 6
  SectorBytes = 2
  LbaSpace = 32
  OtherEnds = {90, 99}
  Goals <- SomeGoals
  Nil = Nil
INVARIANT FileLoaded
