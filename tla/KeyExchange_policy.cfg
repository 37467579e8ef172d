\* Any list at any time, every answer late or twice: policy holds, keys agree,
\* and the exchange ends.
CONSTANTS
  k768 = k768  k1024 = k1024  x768 = x768
  p256 = p256  modp2 = modp2  modp4 = modp4  unheard = unheard
  Kems <- MCKems
  Composites <- MCComposites
  PureLadder <- MCPureLadder
  Strength <- MCStrength
  DefaultKem = k768
  Groups <- MCGroups
  Curves <- MCCurves
  GroupOrder <- MCGroupOrder
  Bits <- MCBits
  Foreign = Foreign  NoAlg = NoAlg  NoKey = NoKey  NoResult = NoResult
  ClientConfigs <- MCFewClientConfigs
  Kdcs = {kdc1}
  KdcConfigs <- MCKdcConfigs
  ForeignLists <- MCForeignLists
  MaxRequests = 3
  Restarts = TRUE
  StaleDelivery = TRUE
SPECIFICATION FairSpec
CHECK_DEADLOCK FALSE
INVARIANTS TypeOK NeverBelowPolicy NoFallBackAfterKem DecapsulationKeyIsFresh KeysAgree
PROPERTIES Ends
