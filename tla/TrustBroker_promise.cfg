\* Two realms share the file, two callers the one server: the broker keeps the
\* abstract promise and gets back to its queue.
CONSTANTS
  kdc = kdc  inter = inter  caA = caA  caB = caB
  NoConn = NoConn  NoCall = NoCall  Forever = Forever
  Certs <- MCCerts
  Chains <- MCThreeChains
  Realms = {r1, r2}
  Conns = {c1, c2}
  Ttls = {1}
  MaxTime = 1
  PromptTimeout = 0
  Gui = TRUE
  HasStateFile = TRUE
  DiskErrors = FALSE
SPECIFICATION FairSpec
PROPERTIES KeepsPromise ServerKeepsServing
