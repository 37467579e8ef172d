\* Matching rules on certificates: right when they match, justified when not.
CONSTANTS
  Characters <- MCCharacters
  Rules <- MCRules
  Certificates <- MCCertificates
SPECIFICATION Spec
CHECK_DEADLOCK FALSE
INVARIANTS MatchTypeOK TrueIsRight FalseIsJustified
