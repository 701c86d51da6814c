\* Voice path and alert tone: two calls (call waiting, hold, SRVCC), the
\* custom tone on or off, recording never asked for.  PCM always opens.
CONSTANTS
  CallIds <- MC_CallIds
  MaxActiveCalls = 3
  ModeCodes <- MC_ModeCodes
  RecThreads <- MC_RecThreads
  ToneThreads <- MC_ToneThreads
  ExternalCodec = TRUE
  IoCanFail = FALSE
  StorageCanRunOut = FALSE
  AutoRecModes = {0}
  ToneSettings = {FALSE, TRUE}
  UserRecords = FALSE
SPECIFICATION Spec
INVARIANTS
  TypeOK
  AudioFollowsCall
PROPERTIES
  ToneStopsAfterAlerting
CHECK_DEADLOCK FALSE
