\* A hint that leaves out what the KDC accepts turns a client away.
CONSTANTS
  k768 = k768  k1024 = k1024  x768 = x768
  p256 = p256  modp2 = modp2  modp4 = modp4  unheard = unheard
  Kems <- MCKems
  Composites <- MCComposites
  PureLadder <- MCPureLadder
  Strength <- MCStrength
  DefaultKem = k768
  Groups <- MCGroups
  Curves <- MCCurves
  GroupOrder <- MCGroupOrder
  Bits <- MCBits
  Foreign = Foreign  NoAlg = NoAlg  NoKey = NoKey  NoResult = NoResult
  ClientConfigs <- MCClientConfigs
  Kdcs = {kdc1}
  KdcConfigs <- MCKdcPolicies
  ForeignLists = {}
  MaxRequests = 2
  Restarts = FALSE
  StaleDelivery = FALSE
SPECIFICATION Spec
CHECK_DEADLOCK FALSE
INVARIANTS HintTurnsNobodyAway
