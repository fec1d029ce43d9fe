CONSTANTS
  d1 = d1
  d2 = d2
  Slots <- MCSlots
  Plain = {atr}
  Folders = {folder}
  None = None
  MaxDepth = 2
SYMMETRY Symmetry
SPECIFICATION Spec
INVARIANTS
  TypeOK
  ButtonsTellDrives
  ClickMeetsImage
  AutoCommits
