\* Notification prompter: an unanswered prompt keeps the server for ever.
CONSTANTS
  kdc = kdc  inter = inter  caA = caA  caB = caB
  NoConn = NoConn  NoCall = NoCall  Forever = Forever
  Certs <- MCCerts
  Chains <- MCTwoChains
  Realms = {r1}
  Conns = {c1}
  Ttls = {2}
  MaxTime = 2
  PromptTimeout = 1
  Gui = TRUE
  HasStateFile = FALSE
  DiskErrors = TRUE
SPECIFICATION FairSpec
PROPERTIES PromptFailsClosed
