\* The injector: every flag its collaborators raise, between single frames
\* of the signal-report request it bypasses during a simulated call.
CONSTANTS
  Svcs = {"NAS_SIG"}
  MaxFrames = 1
  StatCap = 4
  CanClose = {}
  WriteCanFail = FALSE
  ReadCanFail = FALSE
  SysfsCanFail = FALSE
  Collaborators = TRUE
SPECIFICATION Spec
INVARIANTS
  TypeOK
PROPERTIES
  InjectorPriority
