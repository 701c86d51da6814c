\* The GPS thread with the rmnet thread calling the suspend-state reader:
\* one frame per side, one closing, the sysfs file and open(USB_GPS) may
\* fail, and the host suspends and wakes at any time.
CONSTANTS
  GpsMax = 1
  MaxCloses = 1
  SysfsCanFail = TRUE
  UsbOpenCanFail = TRUE
  RmnetCalls = TRUE
SPECIFICATION Spec
INVARIANTS
  TypeOK
PROPERTIES
  SmdDrained
