\* A crash inside persist() costs every pin, the forever ones too.
CONSTANTS
  kdc = kdc  inter = inter  caA = caA  caB = caB
  NoConn = NoConn  NoCall = NoCall  Forever = Forever
  Certs <- MCCerts
  Chains <- MCTwoChains
  Realms = {r1, r2}
  Conns = {c1}
  Ttls = {2}
  MaxTime = 1
  PromptTimeout = 1
  Gui = FALSE
  HasStateFile = TRUE
  DiskErrors = FALSE
SPECIFICATION Spec
PROPERTIES ForeverPinSurvives
