\* Labels of browse items are longer than their symbols.
CONSTANTS
  NoSink = NoSink
  None = NoSink
  Nodes <- MCNodes
  Targets <- MCTargets
  Sizes = {12, 13, 14, 15}
  NextSize = 4
  PrevSize = 1
  NextSym = 2
  PrevSym = 1
  ErrSize = 2
  U32 = 1000
  MaxPage = 3
SPECIFICATION PagesSpec
INVARIANT PagesFit
