SPECIFICATION Spec
CONSTANTS
  LastAction = 2
  Texts <- MCTexts
  Parse <- MCParse
  Ids <- MCIds
  Id <- MCId
  Unbound = Unbound
INVARIANTS
  MapsAgree
  ActiveMeansLive
  NothingStrays
  StoreFollowsRegistry
