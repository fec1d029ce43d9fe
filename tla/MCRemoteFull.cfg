CONSTANTS
  NDrives = 2
  RemoteFiles = {remote}
  UserFiles = {own}
  Empty = Empty
  Raw = Raw
  NoName = NoName
  MaxQueue = 2
SPECIFICATION Spec
PROPERTY
  FullIsRefused
