\* An anonymous exchange and a password login with one context.
CONSTANTS
  r1 = r1  r2 = r2
  plain = plain  locked = locked  broken = broken
  good = good  bad = bad
  Realms = {r1, r2}
  Idents = {plain, locked, broken}
  Locked = {locked}
  Broken = {broken}
  Anchors = {good, bad}
  BadAnchors = {bad}
  Profiles <- MCProfiles
  MaxExchanges = 2
SPECIFICATION Spec
INVARIANT NoIdentityNoState
CHECK_DEADLOCK FALSE
