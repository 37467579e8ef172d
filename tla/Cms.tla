--------------------------------- MODULE Cms -----------------------------------
(***************************************************************************)
(* The three wrappings of a PKINIT payload (crypto/cms.rs): a SignedData   *)
(* with a signer, one without, and a bare ContentInfo; and what each       *)
(* reader makes of each.                                                   *)
(*                                                                         *)
(* Certificates, keys and payloads are opaque.  A digest or a signature is *)
(* the record of what it was made from, so it matches only that.  A field  *)
(* that may be absent is a set of at most one element.                     *)
(***************************************************************************)
EXTENDS SequencesExt

CONSTANTS
  Certs,         \* certificates, as DER
  KeyOf,         \* the key pair a certificate certifies
  IdOf,          \* its issuer and serial number
  Undecodable,   \* certificates whose DER does not parse
  PqCerts        \* those with an ML-DSA or composite key

ASSUME CmsAssumption ==
  /\ Undecodable \subseteq Certs
  /\ PqCerts \subseteq Certs
  /\ DOMAIN KeyOf = Certs /\ DOMAIN IdOf = Certs

Digests == {"sha1", "sha256", "sha384", "sha512"}

DigestOf(alg, payload) == [alg |-> alg, of |-> payload]
Signature(key, attrs) == [by |-> key, over |-> attrs]

\* digest_for_signer: a signer with a PQ key must not use SHA-256.
DigestForSigner(cert) == IF cert \in PqCerts THEN "sha512" ELSE "sha256"

\* build_signed_attrs: a DER SET OF, so the order is the encoding's.
SignedAttrs(type, alg, payload) ==
  <<[kind |-> "contentType", value |-> type],
    [kind |-> "messageDigest", value |-> DigestOf(alg, payload)]>>

\* create_signed_data, for a certificate that decodes (CanSign).
CreateSignedData(payload, type, key, cert, extras, alg) ==
  LET attrs == SignedAttrs(type, alg, payload) IN
  [outer |-> "signedData", body |-> "SignedData", type |-> type,
   content |-> {payload}, certs |-> <<cert>> \o extras,
   signers |-> <<[sid |-> IdOf[cert], digest |-> alg, attrs |-> {attrs},
                  signature |-> Signature(key, attrs)]>>]

\* The signer's own certificate is parsed for its issuer and serial number; the
\* key is not compared with it.
CanSign(cert, alg) == cert \notin Undecodable /\ alg \in Digests

\* create_unsigned_data
CreateUnsignedData(payload, type) ==
  [outer |-> "signedData", body |-> "SignedData", type |-> type,
   content |-> {payload}, certs |-> <<>>, signers |-> <<>>]

\* What others send: id-pkinit-authData around an OCTET STRING.
Bare(payload, type) ==
  [outer |-> type, body |-> "OctetString", type |-> type,
   content |-> {payload}, certs |-> <<>>, signers |-> <<>>]
-------------------------------------------------------------------------------
\* find_signer_cert: the first that matches, unless one before it does not parse.
Matches(m, i) ==
  m.certs[i] \in Undecodable \/ IdOf[m.certs[i]] = m.signers[1].sid

SignerCert(m) ==
  {m.certs[i] : i \in {j \in DOMAIN m.certs :
     /\ Matches(m, j) /\ m.certs[j] \notin Undecodable
     /\ \A h \in 1..(j - 1) : ~Matches(m, h)}}

\* The values a scan of the signed attributes for one kind stops at: none if an
\* attribute that does not parse comes first.
FirstAttr(attrs, kind) ==
  {attrs[i].value : i \in {j \in DOMAIN attrs :
     /\ attrs[j].kind = kind
     /\ \A h \in 1..(j - 1) : attrs[h].kind \notin {kind, "garbled"}}}

\* verify_message_digest, verify_content_type and the signature over the
\* attributes, which retag_as_set puts into the signed form again.
AttrsBind(m, s) ==
  /\ s.digest \in Digests
  /\ \E attrs \in s.attrs, payload \in m.content, cert \in SignerCert(m) :
       /\ FirstAttr(attrs, "messageDigest") = {DigestOf(s.digest, payload)}
       /\ FirstAttr(attrs, "contentType") = {m.type}
       /\ s.signature = Signature(KeyOf[cert], attrs)

\* verify_signed_data succeeds: the first signer counts, the others are not
\* looked at.
Verifies(m) ==
  /\ m.outer = "signedData" /\ m.body = "SignedData" /\ m.signers # <<>>
  /\ m.content # {} /\ SignerCert(m) # {}
  /\ AttrsBind(m, m.signers[1])

\* Its error: another ContentInfo type has one of its own.
VerifyError(m) ==
  IF m.outer # "signedData" THEN "CmsContentTypeMismatch" ELSE "CmsVerifyFailed"

\* Slip: the signers of an unsigned message are not looked at.
IsUnsigned_AnySigners(m) ==
  m.outer = "signedData" /\ m.body = "SignedData" /\ m.content # {}

\* extract_unsigned_content succeeds.
IsUnsigned(m) ==
  /\ m.outer = "signedData" /\ m.body = "SignedData"
  /\ m.signers = <<>> /\ m.content # {}

\* extract_bare_content succeeds; its content type is the outer one.
IsBare(m) == m.body = "OctetString" /\ m.content # {}

\* The content type each reader reports.
TypeOf(m) == IF m.body = "OctetString" THEN m.outer ELSE m.type
===============================================================================
