---------------------------- MODULE PkinitMessages -----------------------------
(***************************************************************************)
(* What an AS-REQ and an AS-REP carry for PKINIT, and how each side makes  *)
(* and reads them: build_as_req and process_as_rep of PkinitClientState    *)
(* (client.rs), verify_as_req and build_as_rep of PkinitKdcState           *)
(* (server.rs).                                                            *)
(*                                                                         *)
(* Both ends of an exchange are records.  A client: its name, identity     *)
(* (none for an anonymous one), algorithm, KDFs, nonces, clock, freshness  *)
(* token, anchors and the KDC it expects.  A KDC: its configuration,       *)
(* identity and trust store.  A key pair is known by its owner and its     *)
(* algorithm.                                                              *)
(***************************************************************************)
EXTENDS Cms, Identities, CertAuth, Wire, Derivation, Profile

CONSTANTS
  SaysOf,         \* what each certificate says of its holder (CertAuth)
  IssuerOf,       \* the certificate that signed each certificate
  Revoked,        \* the certificates the CRLs list
  Now,            \* the KDC's clock
  MaxSkew,        \* krb5.conf clockskew
  SecretLength,   \* the bytes of a shared secret in each DH group
  ServerNonce     \* the bytes of a KDC's DH nonce

ASSUME MessagesAssumption ==
  /\ DOMAIN SaysOf = Certs
  /\ Revoked \subseteq Certs
  /\ Now \in Int /\ MaxSkew \in Nat

Kems == PureKems \cup CompositeKems

Sign(identity, payload, type) ==
  CreateSignedData(payload, type, identity.key, identity.cert, identity.chain,
                   DigestForSigner(identity.cert))

\* The first row of a table whose condition holds names the error.
FirstFailure(table) ==
  LET failing == {i \in DOMAIN table : table[i][1]} IN
  IF failing = {} THEN "none" ELSE table[Min(failing)][2]
-------------------------------------------------------------------------------
(* The request *)

PublicKey(owner, alg) == [of |-> owner, alg |-> alg]

\* The AuthPack of build_as_req: a KEM key goes without a nonce, and with the
\* one KDF of that path.  For DH cl.kdfs is all of KdfPreference; {} stands for
\* a client from before KDFs were negotiated, which is the same otherwise.
AuthPack(cl) ==
  LET kem == cl.alg \in Kems IN
  [parses |-> TRUE, ctime |-> cl.clock, freshness |-> cl.token,
   spki |-> {[decodes |-> TRUE, alg |-> cl.alg, params |-> FALSE,
              usable |-> TRUE, key |-> PublicKey("client", cl.alg)]},
   dhNonce |-> IF kem THEN {} ELSE {cl.dhNonce},
   nonce |-> EncodeNonce(cl.nonce),
   kdfs |-> IF kem THEN {"hkdf"} ELSE cl.kdfs]

\* build_as_req: signed by the client's identity, if it has one.
BuildAsReq(cl) ==
  IF cl.identity = {} THEN CreateUnsignedData(AuthPack(cl), "authData")
  ELSE Sign(CHOOSE id \in cl.identity : TRUE, AuthPack(cl), "authData")

\* Unsigned data is told by its structure, not by a signature that fails.
IsAnonymous(m) == IsUnsigned(m) \/ IsBare(m)

\* The signer's certificate and where it leads.
Trusts(kdc, m) ==
  \E cert \in SignerCert(m) :
    ValidatesChain(kdc.store, cert, m.certs, kdc.config.requireCrl, IssuerOf,
                   Revoked, Undecodable)

EkuVerdicts(kdc, m) ==
  IF ~kdc.config.requireEku THEN {}
  ELSE {VerifyClientEku(SaysOf[c], kdc.config.secondaryEku) : c \in SignerCert(m)}

\* The first half of verify_as_req: who signed the AuthPack.
OpenError(kdc, m) ==
  IF IsAnonymous(m)
  THEN IF TypeOf(m) = "authData" THEN "none" ELSE "CmsContentTypeMismatch"
  ELSE FirstFailure(<<
    <<~Verifies(m), VerifyError(m)>>,
    <<m.type # "authData", "CmsContentTypeMismatch">>,
    <<~Trusts(kdc, m), "ChainValidationFailed">>,
    <<"Error" \in EkuVerdicts(kdc, m), "Asn1">>,
    <<"Rejected" \in EkuVerdicts(kdc, m), "EkuMismatch">> >>)

\* accepts_kem and validate_dh_params, which knows only the groups it lists.
AcceptsKem(config, key) == ~key.params /\ key.alg \in config.kems
AcceptsGroup(config, key) == ~config.requireKem /\ key.alg \in config.groups

IsKem(key) == key.alg \in Kems
Absolute(n) == IF n < 0 THEN -n ELSE n

\* Its second half: what the AuthPack says.
PackError(config, pack) ==
  IF ~pack.parses THEN "Asn1"
  ELSE FirstFailure(<<
    <<Absolute(pack.ctime - Now) > MaxSkew, "ClockSkew">>,
    <<config.freshness /\ ~pack.freshness, "Config">>,
    <<pack.spki = {}, "DhParamsRejected">>,
    <<\E key \in pack.spki : ~key.decodes, "Asn1">>,
    <<\E key \in pack.spki : IsKem(key) /\ ~AcceptsKem(config, key),
      "KemAlgorithmNotSupported">>,
    <<(\E key \in pack.spki : IsKem(key)) /\ pack.dhNonce # {},
      "KemNonceNotAllowed">>,
    <<\E key \in pack.spki : ~IsKem(key) /\ ~AcceptsGroup(config, key),
      "DhParamsRejected">>,
    <<DecodeNonce(pack.nonce) = {}, "Asn1">> >>)

\* Slip: the key is judged before the signature.
VerifyError_KeyFirst(kdc, r) ==
  LET Pack(p) == PackError(kdc.config, p) IN
  IF ~r.parses THEN "Asn1"
  ELSE IF \E p \in r.body.content : Pack(p) # "none"
  THEN CHOOSE e \in {Pack(p) : p \in r.body.content} : TRUE
  ELSE OpenError(kdc, r.body)

\* The error of verify_as_req for a PA-PK-AS-REQ.
VerifyAsReqError(kdc, r) ==
  LET open == OpenError(kdc, r.body) IN
  IF ~r.parses THEN "Asn1"
  ELSE IF open # "none" THEN open
  ELSE CHOOSE e \in {PackError(kdc.config, p) : p \in r.body.content} : TRUE

\* Slip: the nonce is taken as it came.
VerifiedRequest_RawNonce(m) ==
  LET pack == CHOOSE p \in m.content : TRUE IN
  [cert |-> IF IsAnonymous(m) THEN {} ELSE SignerCert(m),
   key |-> CHOOSE k \in pack.spki : TRUE, nonce |-> pack.nonce,
   kdfs |-> pack.kdfs, dhNonce |-> pack.dhNonce, anonymous |-> IsAnonymous(m)]

\* VerifiedRequest, where there was none.
VerifiedRequest(m) ==
  LET pack == CHOOSE p \in m.content : TRUE IN
  [cert |-> IF IsAnonymous(m) THEN {} ELSE SignerCert(m),
   key |-> CHOOSE k \in pack.spki : TRUE,
   nonce |-> CHOOSE n \in DecodeNonce(pack.nonce) : TRUE,
   kdfs |-> pack.kdfs, dhNonce |-> pack.dhNonce, anonymous |-> IsAnonymous(m)]
-------------------------------------------------------------------------------
(* The reply *)

\* What a key agreement of two public keys yields: its bytes, or a secret.
DhSecret(alg, a, b) == [i \in 1..SecretLength[alg] |-> <<a, b, i>>]
KemSecret(publicKey, ciphertext) == <<publicKey, ciphertext>>

OrEmpty(bytes) == IF bytes = {} THEN <<>> ELSE CHOOSE b \in bytes : TRUE

\* build_dh_rep: the KDC's key, signed with the request's nonce; the KDF and
\* the KDC's own nonce travel outside of the signature.
BuildDhRep(kdc, v, enctype, asReq, client, server) ==
  LET mine == PublicKey("kdc", v.key.alg)
      kdf == PickKdf(v.kdfs)
      rep == [kind |-> "dhInfo", kdf |-> kdf, serverNonce |-> {ServerNonce},
              signed |-> Sign(kdc.identity,
                              [key |-> mine, nonce |-> EncodeNonce(v.nonce)],
                              "dhKeyData")]
  IN [padata |-> rep,
      key |-> DhReplyKey(kdf, DhSecret(v.key.alg, v.key.key, mine),
                         OrEmpty(v.dhNonce), ServerNonce, enctype, client,
                         server, asReq, rep)]

\* build_kem_rep
BuildKemRep(kdc, v, enctype, asReq) ==
  LET ciphertext == PublicKey("kdc", v.key.alg)
      signed == Sign(kdc.identity,
                     [alg |-> v.key.alg, ct |-> ciphertext, kdf |-> "hkdf",
                      nonce |-> EncodeNonce(v.nonce)], "kemKeyData")
  IN [padata |-> [kind |-> "kemInfo", signed |-> signed],
      key |-> PkinitKemKdf(KemSecret(v.key.key, ciphertext), enctype, asReq,
                           signed)]

\* build_as_rep fails where the KDC cannot sign, where nothing can be encapsulated
\* to the client's KEM key or agreed with its DH key, and where the client names
\* KDFs but not the one for KEMs.
BuildAsRepFails(kdc, v) ==
  \/ ~CanSign(kdc.identity.cert, DigestForSigner(kdc.identity.cert))
  \/ ~v.key.usable
  \/ IsKem(v.key) /\ v.kdfs # {} /\ "hkdf" \notin v.kdfs

BuildAsRep(kdc, v, enctype, asReq, client, server) ==
  IF IsKem(v.key) THEN BuildKemRep(kdc, v, enctype, asReq)
  ELSE BuildDhRep(kdc, v, enctype, asReq, client, server)

\* validate_kdc_chain without a broker: never with CRLs, the host name only
\* along with the principal.
AcceptsSigner(cl, m) ==
  \E cert \in SignerCert(m) :
    /\ ValidatesChain(cl.store, cert, m.certs, FALSE, IssuerOf, Revoked,
                      Undecodable)
    /\ VerifyKdcEku(SaysOf[cert]) = "Authorized"
    /\ \A p \in cl.kdc :
         VerifyKdcSan(SaysOf[cert], p, cl.hostname) = "Authorized"

\* process_dh_rep: the reply key, or none.
ProcessDhRep(cl, rep, enctype, asReq, server) ==
  {DhReplyKey(rep.kdf,
              DhSecret(cl.alg, PublicKey("client", cl.alg), info.key),
              cl.dhNonce, OrEmpty(rep.serverNonce), enctype, cl.name, server,
              asReq, rep) :
     info \in {i \in rep.signed.content :
                 /\ Verifies(rep.signed) /\ rep.signed.type = "dhKeyData"
                 /\ AcceptsSigner(cl, rep.signed)
                 /\ DecodeNonce(i.nonce) = {cl.nonce}}}

\* process_kem_rep: a client with a PQ certificate wants a PQ signature.
ProcessKemRep(cl, rep, enctype, asReq) ==
  {PkinitKemKdf(KemSecret(PublicKey("client", cl.alg), info.ct), enctype, asReq,
                rep.signed) :
     info \in {i \in rep.signed.content :
                 /\ Verifies(rep.signed) /\ rep.signed.type = "kemKeyData"
                 /\ (\E id \in cl.identity : id.cert \in PqCerts)
                      => SignerCert(rep.signed) \subseteq PqCerts
                 /\ AcceptsSigner(cl, rep.signed)
                 /\ DecodeNonce(i.nonce) = {cl.nonce}
                 /\ i.alg = cl.alg /\ i.kdf = "hkdf"}}

\* process_as_rep: the kind of reply decides, not what was asked for; each
\* needs a key of its kind.
ProcessAsRep(cl, rep, enctype, asReq, server) ==
  IF (rep.kind = "kemInfo") # (cl.alg \in Kems) THEN {}
  ELSE IF rep.kind = "dhInfo" THEN ProcessDhRep(cl, rep, enctype, asReq, server)
  ELSE ProcessKemRep(cl, rep, enctype, asReq)
===============================================================================
