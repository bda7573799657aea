SPECIFICATION GuardedSpec
CONSTANTS
  Modules = {"vfat"}
  DriverType <- Type
  Parts <- OneDrive
  Written = {"native", "hidden", "fat32", "fat32_lba"}
  StaleType = {"other", "fat32_lba"}
  Root = "/"
  Dirs <- MCDirs
  Names <- MCNames
  Lookup <- MCLookup
  Paths <- LongPaths
  MaxDepth = 2
  MaxDrivers = 3
  Null = Null
INVARIANTS TypeOK ActiveRegistered Ext2Shown RootMatches
