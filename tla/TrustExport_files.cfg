\* Two realms, one of them with a name that is no file name: exports over and
\* over beside a broker that changes its mind.
CONSTANTS
  kdc = kdc  caA = caA  caB = caB
  NoConn = NoConn  NoCall = NoCall  Forever = Forever
  NoFile = NoFile  Torn = Torn
  Certs <- MCCerts
  Chains <- MCChains
  Realms = {r1, odd}
  SafeRealms = {r1}
  Conns = {c1}
  Ttls = {1}
  MaxTime = 1
  PromptTimeout = 0
  Gui = FALSE
  HasStateFile = TRUE
  DiskErrors = FALSE
SPECIFICATION ExportSpec
INVARIANTS ExportTypeOK PermanentTrustWasGranted SnippetNamesWrittenFiles
