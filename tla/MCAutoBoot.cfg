CONSTANTS
  D1 = D1
  d2 = d2
  x = x
  y = y
  loader1 = loader1
  loader2 = loader2
  NoDevice = NoDevice
  NoAddress = NoAddress
  Slots <- MCSlots
  Images <- MCImages
  Loaders <- MCLoaders
  MaxPosted = 1
SPECIFICATION Spec
INVARIANTS
  TypeOK
  BootKeepsTable
  PassedToLivingDevice
  NothingLost
PROPERTY BootEnds
