SPECIFICATION Spec
CONSTANTS
  None = None
  Words = {"", "0", "1", "2", "3", "4", "6", "Attic", "Den", "Hall", "server"}
  Numerals = {"0", "1", "2", "3"}
  Levels = {"0", "1"}
  MaxDisturbances <- MCMaxDisturbances
  Elements <- MCElements
  Settings <- MCSettings
  Initially <- MCInitially
  Stepped <- MCStepped
  Mean <- MCMean
  CommandLines <- MCCommandLines
PROPERTIES
  SuccessFollowsDispatch
  EndsOnceDone
CHECK_DEADLOCK FALSE
