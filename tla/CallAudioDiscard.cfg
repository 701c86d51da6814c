\* Automatic recording in every mode together with record_next_call.
CONSTANTS
  CallIds <- MC_CallIds
  MaxActiveCalls = 3
  ModeCodes = {"GSM"}
  RecThreads <- MC_RecThreads
  ToneThreads <- MC_ToneThreads
  ExternalCodec = FALSE
  IoCanFail = FALSE
  StorageCanRunOut = FALSE
  AutoRecModes = {0, 1, 2}
  ToneSettings = {FALSE}
  UserRecords = TRUE
SPECIFICATION Spec
PROPERTY
  RequestedRecordingKept
CHECK_DEADLOCK FALSE
