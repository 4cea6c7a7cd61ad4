\* The player: a ring of 7 frames, periods of 2, 2 suspends, 1 failing call
\* The lamp panel: 2 rows of 2 columns, 2 bit planes, an int of 12 values
\* The sensor: answers of 3 and 2 bytes, 2 in one read, 3 late bytes at most
\* The watchdog: 3 seconds, 3 clicks.  The camera: 1 set back of the clock
SPECIFICATION DevSpec
CONSTANTS
  Buffer = 7
  Period = 2
  MaxSuspends = 2
  MaxFails = 1
  MayUnplug = TRUE
  RgbRows = 2
  RgbCols = 2
  RgbBits = 2
  RgbFrames = 3
  RgbRange = 12
  RgbLate = 3
  RgbSets = 1
  ParkLong = 3
  ParkShort = 2
  ParkChunk = 2
  ParkBacklog = 3
  DogLimit = 3
  DogStarts = 3
  CamTracks <- CTracks
  CamStarts <- CStarts
  CamLen = 4
  CamRun = 4
  CamFadeLen = 3
  CamMax = 18
  CamBacks = 1
INVARIANTS DevTypeOK RoomForThePeriod GivesUpOnlyWhenLost LitLineIsWhole WaitsForItsTime QuitsAfterTheLimit CameraInTable TrackOfTheTick
PROPERTIES PlaysOn ScansInOrder AnswerIsOwn WindowComesBack StallIsNoticed ChangesUnderFade
CHECK_DEADLOCK FALSE
