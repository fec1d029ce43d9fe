CONSTANTS
  NUnits = 2
  MaxHandle = 0
  Sizes = {1}
  Modes = {12}
  MaxLen = 1
  MaxPos = 2
SPECIFICATION Spec
INVARIANT RetryIsRetry
