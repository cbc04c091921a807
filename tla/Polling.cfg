SPECIFICATION FairSpec
CONSTANTS
  Low <- MCLow
  High <- MCHigh
  Default <- MCDefault
  EnvTexts <- MCEnvTexts
  Forms <- MCForms
  MaxSleep = 3
  MaxDevices = 3
  MaxSaves = 2
  MaxRestarts = 1
  NaN = NaN
  NoNumber = NoNumber
INVARIANT TypeOK
PROPERTIES AllRequested KeepsPolling SavedIsUsed
CHECK_DEADLOCK FALSE
