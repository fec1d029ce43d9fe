SPECIFICATION Spec
CONSTANTS
  MaxRetries = 6
  Tapes <- MCTapes
  NoTape = NoTape
  BadTape = BadTape
INVARIANTS
  TypeOK
  GivesUpOnNoise
  RecordingRecords
  SettingGivenBack
