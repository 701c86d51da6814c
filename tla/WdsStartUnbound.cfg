\* Commands 46 and 47, two in all, against a modem that may fail the bind
\* and a transport that may lose an answer.
CONSTANTS
  MaxCmds = 2
  ReplyCanBeLost = TRUE
SPECIFICATION Spec
PROPERTY
  StartNeedsBoundMux
CHECK_DEADLOCK FALSE
