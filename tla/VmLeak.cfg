\* CATCH with a symbol mapped.
CONSTANTS
  v0 = v0
  v1 = v1
  v2 = v2
  x = x
  y = y
  uf = uf
  Key = {x, y}
  Value = {v0, v1, v2}
  Size <- MCSize
  Empty = v0
  CacheSize = 3
  U16 = 65536
  Node = {"root", "foo", "bar", "_catch"}
  NoSym = ""
  UserFlag = {uf}
  NoInput = NoInput
  EmptyInput = ""
  NoLang = NoLang
  MaxLevel = 3
  IdxMod = 65536
  Catch = "_catch"
  Root = "root"
  Code <- LeakCode
  Lost = {"foo", "bar"}
  Ext <- MCExt
  LangCode = {}
  Selector = {"0", "1", "2", "3"}
  Input = {"", "0", "1", "2", "3"}
  Wildcard = "*"
  None = None
  MaxIdx = 1
SPECIFICATION Spec
CHECK_DEADLOCK FALSE
INVARIANT MappedIsCurrent
