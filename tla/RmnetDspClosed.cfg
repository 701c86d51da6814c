\* The baseband endpoint closes (read() returns 0) while the host still
\* has frames to send.
CONSTANTS
  Svcs <- MC_Svcs
  MaxFrames = 2
  StatCap = 4
  CanClose = {"DSP"}
  WriteCanFail = FALSE
  ReadCanFail = FALSE
  SysfsCanFail = FALSE
  Collaborators = FALSE
SPECIFICATION Spec
PROPERTY
  RelaySpec
