\* Relay: both endpoints produce two frames of the services
\* that get different verdicts, the host may close and the
\* suspend-state file may fail to read; the injector stays quiet.
CONSTANTS
  Svcs <- MC_Svcs
  MaxFrames = 2
  StatCap = 4
  CanClose = {"HOST"}
  WriteCanFail = FALSE
  ReadCanFail = FALSE
  SysfsCanFail = TRUE
  Collaborators = FALSE
SPECIFICATION Spec
PROPERTIES
  RelaySpec
