\* Recording across consecutive calls, storage that may run out.
CONSTANTS
  CallIds <- MC_CallIds
  MaxActiveCalls = 3
  ModeCodes = {"GSM"}
  RecThreads <- MC_RecThreads
  ToneThreads <- MC_ToneThreads
  ExternalCodec = FALSE
  IoCanFail = FALSE
  StorageCanRunOut = TRUE
  AutoRecModes = {0, 1, 2}
  ToneSettings = {FALSE}
  UserRecords = TRUE
SPECIFICATION Spec
INVARIANT
  NoRecorderUseAfterClose
CHECK_DEADLOCK FALSE
