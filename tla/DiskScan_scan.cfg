SPECIFICATION Spec
CONSTANTS
  Drives = 2
  Slots = 3
  Disks <- OneExtDisks
  Stale <- StaleBlank
  StaleByte <- Bytes
  Unreadable = Unreadable
INVARIANTS ScanFinds SavedOnce SavedFromSigned
PROPERTY ShellEntered
