\* One KDC, its start and its requests.
CONSTANTS
  Certs <- MCCerts
  KeyOf <- MCKeyOf
  IdOf <- MCIdOf
  IssuerOf <- MCIssuerOf
  SaysOf <- MCSaysOf
  Undecodable = {"garbled"}
  PqCerts = {"aliceQ", "kdcQ"}
  Revoked = {"carol"}
  Names <- MCNames
  Folded <- MCFolded
  Anonymous <- MCAnonymous
  SeedLength <- MCSeedLength
  SecretLength <- MCSecretLength
  ServerNonce <- MCServerNonce
  Now = 10
  MaxSkew = 2
  U32 = 100000
  Base = 10
  SignBit = 4
  Profiles <- MCProfiles
  Requests <- MCRequests
  AlgBytes <- MCAlgBytes
  Ticket <- MCTicket
  DefaultEnctype = "aes256"
SPECIFICATION Spec
INVARIANTS
  RequestTypeOK
  ReplyKeyOnlyForTheNamed
  IndicatorsOnlyForSigned
  OnlyTheKeyIsRefused
  FittingClientsAreServed
  ReplyReachesTheClient
  KxConveysTheSession
  HintIsReadBack
  DefaultGroupIsAccepted
