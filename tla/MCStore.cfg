\* One handle for resource, persister and application, over each of the stores.
CONSTANTS
  Session <- MCSessions
  Name <- MCNames
  Lang = {"nor"}
  NoLang = ""
  Value = {v0, v1}
  NoEntry = None
  Handled <- MCHandled
  Local <- MCLocal
  Mask <- MCMask
  MaxPuts = 2
  Laid <- MCLaid
  Seeds <- MCSeeds
  Width <- MCWidth
  Rank <- MCRank
  Suffix <- MCSuffix
SYMMETRY Symmetry
SPECIFICATION Spec
INVARIANTS
  StoreTypeOK
  Partitioned
  ResourceAnswers
  DumpsComplete
  LogTells
PROPERTY SealHolds
