\* Recording: every automatic-recording mode and the record commands, two
\* recording threads, two calls; no custom tone.  PCM always opens.
CONSTANTS
  CallIds <- MC_CallIds
  MaxActiveCalls = 3
  ModeCodes = {"GSM"}
  RecThreads <- MC_RecThreads
  ToneThreads <- MC_ToneThreads
  ExternalCodec = FALSE
  IoCanFail = FALSE
  StorageCanRunOut = FALSE
  AutoRecModes = {0, 1, 2}
  ToneSettings = {FALSE}
  UserRecords = TRUE
SPECIFICATION Spec
PROPERTIES
  RecordingFlagReleased
  RecorderStopsAfterCall
CHECK_DEADLOCK FALSE
