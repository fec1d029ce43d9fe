CONSTANTS
  d1 = d1
  d2 = d2
  atr = atr
  folder = folder
  PCLINK = PCLINK
  RCL = RCL
  NoDevice = NoDevice
  NoAddress = NoAddress
  Slots <- MCSlots
  Images <- MCImages
  Folders <- MCFolders
SPECIFICATION Spec
INVARIANT AutoSaveNeedsNoLock
