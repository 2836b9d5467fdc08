\* No first function, a database that does not fail.
CONSTANTS
  v0 = v0
  v1 = v1
  v2 = v2
  sx = sx
  sy = sy
  uf = uf
  Key = {sx, sy, "_first"}
  Value = {v0, v1, v2}
  Size <- MCSize
  Empty = v0
  CacheSize = 4
  U16 = 65536
  Node = {"root", "foo", "bar", "_catch", "_first"}
  NoSym = ""
  UserFlag = {uf}
  NoInput = NoInput
  EmptyInput = ""
  NoLang = NoLang
  MaxLevel = 3
  IdxMod = 65536
  Catch = "_catch"
  Root = "root"
  Code <- MenuCode
  Lost = {"bar"}
  Ext <- MCExt
  LangCode = {}
  Selector = {"0", "1", "2"}
  Input = {"", "0", "1", "2", "!"}
  Wildcard = "*"
  None = None
  MaxIdx = 1
  ConfigLang = NoLang
  Configs <- Plain
  FirstSym = "_first"
  BadInput = {"!"}
  NoSession = NoSession
SPECIFICATION EngineSpec
INVARIANT EntryOnce
