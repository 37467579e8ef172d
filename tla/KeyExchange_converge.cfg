\* One KDC, no disturbance: compatible policies end in a key.
CONSTANTS
  k768 = k768  k1024 = k1024  x768 = x768
  p256 = p256  modp2 = modp2  modp4 = modp4  unheard = unheard
  Kems <- MCKems
  Composites <- MCComposites
  PureLadder <- MCPureLadder
  Strength <- MCStrength
  DefaultKem = k768
  Groups <- MCGroups
  Curves <- MCCurves
  GroupOrder <- MCGroupOrder
  Bits <- MCBits
  Foreign = Foreign  NoAlg = NoAlg  NoKey = NoKey  NoResult = NoResult
  ClientConfigs <- MCClientConfigs
  Kdcs = {kdc1}
  KdcConfigs <- MCKdcPolicies
  ForeignLists = {}
  MaxRequests = 3
  Restarts = FALSE
  StaleDelivery = FALSE
SPECIFICATION FairSpec
CHECK_DEADLOCK FALSE
INVARIANTS RefusalOffersAlternatives
PROPERTIES Converges
