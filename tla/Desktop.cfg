\* The viewer: two streams of each kind.  The window: three events
\* Shared memory: three processes, two of the privileged user
\* The archive: three members at most, two sizes that reach over half of the word
SPECIFICATION Spec
CONSTANTS
  TvAv = {"audio", "video"}
  TvIds = {1, 2}
  TvChannels <- TChannels
  TvShort = {"mbc"}
  WinSizes = {"small", "large"}
  WinDefault = "small"
  WinEvents = 3
  ShmProcs = {1, 2, 3}
  ShmRoot = {1, 2}
  TarBlock = 4
  TarWord = 256
  TarSizes = {0, 5, 60, 252}
  TarMembers = 3
  TarLines = 4
  TarCut = 3
INVARIANTS DeskTypeOK OneDecoderOfAKind PlaysinkIsFed NeverSeesLess ListsTheMembers StaysOnHeaders
PROPERTIES PingsAreAnswered LastSizeIsShown
CHECK_DEADLOCK FALSE
