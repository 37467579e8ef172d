\* One realm, a PKINIT client and another caller: trust comes from consent only,
\* and so does what the client accepts.
CONSTANTS
  r1 = r1
  kdc = kdc  kdcX = kdcX  inter = inter  caA = caA  caB = caB
  NoConn = NoConn  NoCall = NoCall  Forever = Forever
  Certs <- MCCerts
  Chains <- MCChains
  Realms = {r1}
  Conns = {c1, c2}
  Clients = {c1}
  Names <- MCNames
  Folded <- MCFolded
  Leaf <- MCLeaf
  Anchored <- MCAnchored
  Tofu = TRUE
  Checks <- MCChecks
  Ttls = {2}
  MaxTime = 4
  PromptTimeout = 1
  Gui = TRUE
  HasStateFile = TRUE
  DiskErrors = TRUE
SPECIFICATION KdcSpec
INVARIANTS KdcTypeOK AcceptedUnderGrant BrokerNeverOverrulesAnchors TypeOK FileHoldsNoSupersededGrant TrustedReplyMatchesPin
PROPERTIES PinIsOfTheAnonymousExchange TrustOnlyByConsent 
