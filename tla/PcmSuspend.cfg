SPECIFICATION Spec
CONSTANTS
  Buffer = 7
  Period = 2
  MaxSuspends = 1
  MaxFails = 0
  MayUnplug = FALSE

PROPERTIES RecoversFromSuspend
CHECK_DEADLOCK FALSE
