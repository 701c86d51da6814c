\* The suspend gate with a sysfs file that always reads and a host side
\* that always opens: only the rmnet thread's call to the reader interferes.
CONSTANTS
  GpsMax = 1
  MaxCloses = 0
  SysfsCanFail = FALSE
  UsbOpenCanFail = FALSE
  RmnetCalls = TRUE
SPECIFICATION Spec
PROPERTY
  GateFollowsSysfs
