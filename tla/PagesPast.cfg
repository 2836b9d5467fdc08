\* Blank lines at the end of a content.
CONSTANTS
  NoSink = NoSink
  None = NoSink
  Nodes <- MCNodes
  Targets <- MCTargets
  Sizes = {0, 6, 9, 10, 11, 12, 13, 14}
  NextSize = 2
  PrevSize = 1
  NextSym = 2
  PrevSym = 1
  ErrSize = 2
  U32 = 1000
  MaxPage = 3
SPECIFICATION PagesSpec
INVARIANT FailsOutOfRange
