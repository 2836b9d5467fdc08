\* Capacity 4, two symbols, lengths 0 to 3, limits none, 1 and 2, three levels.
CONSTANTS
  Key = {k1, k2}
  e = e
  a = a
  b = b
  c = c
  Value = {e, a, b, c}
  Size <- ShortSize
  Empty = e
  CacheSize = 4
  U16 = 65536
  Limits = {0, 1, 2}
  MaxLevels = 3
SPECIFICATION Spec
INVARIANTS
  TypeOK
  UseIsExact
  WithinCapacity
  KeyInOneFrame
  LimitsKnown
  ValuesWithinLimits
PROPERTY ImplementsMemory
