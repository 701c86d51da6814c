\* Recording with PCM devices and files that may fail to open.
CONSTANTS
  CallIds <- MC_CallIds
  MaxActiveCalls = 3
  ModeCodes = {"GSM"}
  RecThreads <- MC_RecThreads
  ToneThreads <- MC_ToneThreads
  ExternalCodec = FALSE
  IoCanFail = TRUE
  StorageCanRunOut = FALSE
  AutoRecModes = {0, 1, 2}
  ToneSettings = {FALSE}
  UserRecords = TRUE
SPECIFICATION Spec
PROPERTY
  RecordingFlagReleased
CHECK_DEADLOCK FALSE
