------------------------------- MODULE CertAuth --------------------------------
(***************************************************************************)
(* What a certificate says of its holder and what each side concludes from *)
(* it: certauth.rs over the extensions san.rs reads.                       *)
(*                                                                         *)
(* A certificate is the record of the sets san.rs extracts.  An extension  *)
(* that is absent gives the empty set, one that does not decode is listed  *)
(* under `broken`, and reading it is an error.                             *)
(***************************************************************************)
CONSTANTS
  Names,   \* principals, UPNs and host names
  Folded   \* eq_ignore_ascii_case: names that differ in case share an image

Extensions == {"san", "eku", "usage"}
Ekus == {"KPClientAuth", "MsScLogon", "KPKdc", "ServerAuth", "other"}
Usages == {"digitalSignature", "keyCertSign"}

Certificate == [pkinit : SUBSET Names, upn : SUBSET Names, dns : SUBSET Names,
                ekus : SUBSET Ekus, usage : SUBSET Usages,
                broken : SUBSET Extensions]

\* CertauthResult, or the error of the extraction.
Verdicts == {"Authorized", "Rejected", "Error"}

\* eq_ignore_ascii_case with some name of the set.
NamedIn(name, set) == \E n \in set : Folded[n] = Folded[name]

\* A KeyUsage that is absent (or empty) permits everything.
MaySign(cert) == cert.usage = {} \/ "digitalSignature" \in cert.usage

\* verify_client_san: the id-pkinit-san entries match exactly, a UPN without
\* regard to case and only where pkinit_allow_upn says so.
ClientSanMatches(cert, principal, allowUpn) ==
  \/ principal \in cert.pkinit
  \/ allowUpn /\ NamedIn(principal, cert.upn)

VerifyClientSan(cert, principal, allowUpn) ==
  IF "san" \in cert.broken THEN "Error"
  ELSE IF ClientSanMatches(cert, principal, allowUpn) THEN "Authorized"
  ELSE "Rejected"

\* verify_client_eku: the key usage is looked at last.
VerifyClientEku(cert, acceptSecondary) ==
  IF "eku" \in cert.broken THEN "Error"
  ELSE IF /\ "KPClientAuth" \notin cert.ekus
          /\ ~(acceptSecondary /\ "MsScLogon" \in cert.ekus) THEN "Rejected"
  ELSE IF "usage" \in cert.broken THEN "Error"
  ELSE IF MaySign(cert) THEN "Authorized"
  ELSE "Rejected"

\* verify_kdc_eku
VerifyKdcEku(cert) ==
  IF "eku" \in cert.broken THEN "Error"
  ELSE IF cert.ekus \cap {"KPKdc", "ServerAuth"} = {} THEN "Rejected"
  ELSE IF "usage" \in cert.broken THEN "Error"
  ELSE IF MaySign(cert) THEN "Authorized"
  ELSE "Rejected"

\* verify_kdc_san: the host name, if there is one, counts like the principal.
VerifyKdcSan(cert, principal, hostname) ==
  IF "san" \in cert.broken THEN "Error"
  ELSE IF \/ principal \in cert.pkinit
          \/ \E host \in hostname : NamedIn(host, cert.dns) THEN "Authorized"
  ELSE "Rejected"
===============================================================================
