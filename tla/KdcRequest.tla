------------------------------ MODULE KdcRequest -------------------------------
(***************************************************************************)
(* A KDC with the PKINIT module (kdc_plugin.rs): how it starts, and one    *)
(* AS-REQ after another on its way through the module's callbacks.         *)
(*                                                                         *)
(*  down --InitModule--> idle --Receive--> received --Verify--> verified   *)
(*    ^-----Restart------/ ^                   |                  |        *)
(*                         |                refused <----------   |        *)
(*                      Finish <-- sent <--ReturnKx-- keyed <--ReturnDh    *)
(*                                                                         *)
(* The KDC core (external) calls the callbacks in this order, modules that *)
(* replace the reply key before those that do not, and drops a request     *)
(* when one of them fails.  Nothing but the module outlives a request.     *)
(***************************************************************************)
EXTENDS PkinitMessages

CONSTANTS
  Profiles,        \* the krb5.conf of the realm, one for each start
  Requests,        \* the AS-REQs to explore
  AlgBytes,        \* the AlgorithmIdentifier of each algorithm, encoded
  Ticket,          \* the session key the KDC core puts into a ticket
  DefaultEnctype   \* aes256-cts-hmac-sha1-96

\* What any message has: certificates in a sequence, at most one content with at
\* most one key, and signers in a SignedData only.
WellFormed(m) ==
  /\ m.certs \in Seq(Certs)
  /\ m.signers \in Seq(ToSet(m.signers))
  /\ m.body = "OctetString" => m.signers = <<>>
  /\ \A p, q \in m.content : p = q
  /\ \A p \in m.content : p.ctime \in Int /\ \A x, y \in p.spki : x = y

\* A request of this code's client is the one it builds, in its own name; the
\* core may spell that of the anonymous principal in another way.
BuiltBy(cl, r) ==
  /\ r.body = BuildAsReq(cl) /\ ~r.empty /\ r.parses
  /\ \E name \in r.client :
       r.client = {name} /\ (name = cl.name \/ {name, cl.name} \subseteq Anonymous)
  /\ cl.nonce \in Signed /\ cl.clock \in Int
  /\ \A x, y \in cl.identity : x = y
  /\ \A id \in cl.identity : id.chain \in Seq(Certs)

ASSUME RequestsAssumption ==
  \A r \in Requests : WellFormed(r.body) /\ \A cl \in r.from : BuiltBy(cl, r)

\* What any source of an identity has: at most one scheme, finitely many files
\* with blocks in a sequence, and certificates where certificates belong.
IsFile(f) ==
  /\ f.blocks \in Seq(ToSet(f.blocks))
  /\ \A b \in ToSet(f.blocks) : b.label = "CERTIFICATE" => b.der \in Certs

IsSource(uri) ==
  /\ \A s, t \in uri.scheme : s = t
  /\ IsFiniteSet(uri.files)
  /\ \A f \in uri.certFiles \cup uri.keyFiles \cup uri.files : IsFile(f)
  /\ uri.archive.certs \in Seq(Certs) /\ uri.token.certs \in Seq(Certs)

\* A number in a profile is an i32; the names of composites come in a sequence.
ASSUME ProfilesAssumption ==
  \A p \in Profiles :
    /\ Lookup(p, "pkinit_dh_min_bits") \subseteq Int
    /\ \A uri \in Lookup(p, "pkinit_identity") : IsSource(uri)
    /\ \A ks \in Lookup(p, "pkinit_pqc_composite_algorithms") : ks \in Seq(ToSet(ks))

\* A random key is not one that was derived.
ASSUME TicketAssumption == "prf" \notin DOMAIN Ticket

VARIABLES
  profile,      \* the configuration files, fixed
  inFlight,     \* the AS-REQs under way: each may arrive, again, or never
  kdc,          \* PkinitKdc, if the module is loaded
  stage,        \* where the KDC core is
  request,      \* the AS-REQ it serves
  modreq,       \* PkinitModReq, from verify to return_padata
  refusal,      \* the error a callback gave: code and whether typed data goes
  indicators,   \* authentication indicators asserted for the ticket
  replyKey,     \* the reply key that replaces the client's long-term key
  session,      \* the ticket's session key; none once it was freed
  padata        \* what goes into the reply, or into the error that asks for it

fixedVars == <<profile, inFlight>>
requestVars == <<request, modreq, refusal, indicators, replyKey, session, padata>>
vars == <<fixedVars, kdc, stage, requestVars>>

Stages == {"down", "failed", "idle", "advertised", "received", "verified", "keyed", "sent",
           "refused"}

Refusals == {"EINVAL", "ENOMEM", "NoHandle", "PREAUTH_FAILED", "INVALID_SIG",
             "CLIENT_NOT_TRUSTED", "INCONSISTENT_KEY_PURPOSE",
             "CLIENT_NAME_MISMATCH", "EPHEMERAL_KEY_PARAMS", "NO_ACCEPTABLE_KDF"}

TheKdc == CHOOSE k \in kdc : TRUE
TheRequest == CHOOSE r \in request : TRUE
-------------------------------------------------------------------------------
(* Starting *)

\* PkinitIdentity::load, for each order in which a directory may be listed.
LoadIdentity(uri) ==
  CASE uri.scheme \subseteq {"FILE", "ENV"} -> {LoadFile(uri.certFiles, uri.keyFiles)}
    [] uri.scheme = {"DIR"} -> LoadDir(uri.files, uri.readable)
    [] uri.scheme = {"PKCS12"} -> {LoadPkcs12(uri.archive, "")}
    [] uri.scheme = {"PKCS11"} -> {LoadPkcs11(uri.token)}

\* init_module: its error or a module.  A profile without pkinit_identity is
\* no handle, everything else that goes wrong is EINVAL.
Starts ==
  LET config == KdcConfig(profile)
      store == LoadAll(config.anchors) IN
  IF BadKemNames(profile) THEN {Failed("EINVAL")}
  ELSE IF config.identity = {} THEN {Failed("NoHandle")}
  ELSE IF \E uri \in config.identity : ParseError(uri) THEN {Failed("EINVAL")}
  ELSE {IF loaded.error # "none" \/ store.error # "none" THEN Failed("EINVAL")
        ELSE Loaded([config |-> config,
                     identity |-> CHOOSE i \in loaded.value : TRUE,
                     store |-> CHOOSE s \in store.value : TRUE]) :
          loaded \in UNION {LoadIdentity(uri) : uri \in config.identity}}

NoRequest ==
  /\ request = {} /\ modreq = {} /\ refusal = {} /\ indicators = {}
  /\ replyKey = {} /\ session = {} /\ padata = {}

Init ==
  /\ profile \in Profiles /\ inFlight = Requests
  /\ kdc = {} /\ stage = "down"
  /\ NoRequest

InitModule ==
  /\ stage = "down"
  /\ \E started \in Starts :
       /\ kdc' = started.value
       /\ stage' = IF started.value = {} THEN "failed" ELSE "idle"
       /\ refusal' = IF started.value # {} THEN {}
                     ELSE {[code |-> started.error, edata |-> FALSE]}
  /\ UNCHANGED <<fixedVars, request, modreq, indicators, replyKey, session, padata>>

\* The list of a hint, as the library encodes it, and what it takes to fit into
\* four gigabytes (scaled) with its two wrappers.
AlgList(algs) == Joined([i \in DOMAIN algs |-> AlgBytes[algs[i]]])

ASSUME HintAssumption ==
  /\ AlgBytes \in [Kems \cup Groups -> Seq(Nat)]
  /\ \A p \in Profiles :
       ~BadKemNames(p) => Len(AlgList(KdcConfig(p).listed)) + 6 < LengthLimit

\* get_edata: an AS-REQ without pre-authentication is answered with what this
\* KDC offers; a list with nothing in it is not sent.
Advertise ==
  /\ stage = "idle"
  /\ stage' = "advertised"
  /\ LET listed == TheKdc.config.listed IN
     padata' = IF listed = <<>> THEN {}
               ELSE {[kind |-> "hint", bytes |-> EncodeHint(AlgList(listed))]}
  /\ UNCHANGED <<fixedVars, kdc, request, modreq, refusal, indicators, replyKey,
                 session>>

\* A KDC that is restarted reads its files again.
Restart ==
  /\ stage \in {"failed", "idle"}
  /\ stage' = "down" /\ kdc' = {} /\ refusal' = {}
  /\ UNCHANGED <<fixedVars, request, modreq, indicators, replyKey, session, padata>>
-------------------------------------------------------------------------------
(* One request *)

\* The KDC core accepts an AS-REQ and makes up the ticket's session key.
Receive(r) ==
  /\ stage = "idle"
  /\ request' = {r} /\ session' = {Ticket}
  /\ stage' = "received"
  /\ UNCHANGED <<fixedVars, kdc, modreq, refusal, indicators, replyKey, padata>>

\* error_response after kem_error_class.
CodeOf(error) ==
  CASE error \in {"KemAlgorithmNotSupported", "DhParamsRejected"} -> "EPHEMERAL_KEY_PARAMS"
    [] error = "KemNonceNotAllowed" -> "PREAUTH_FAILED"
    [] error = "CmsVerifyFailed" -> "INVALID_SIG"
    [] error = "ChainValidationFailed" -> "CLIENT_NOT_TRUSTED"
    [] error = "EkuMismatch" -> "INCONSISTENT_KEY_PURPOSE"
    [] OTHER -> "EINVAL"

\* Typed data goes along with one code only.
Refusal(code) == [code |-> code, edata |-> code = "EPHEMERAL_KEY_PARAMS"]

\* authorize_client: an unsigned request is for the anonymous principal only, a
\* signed one for whom its certificate names.
AuthorizeError(k, r, v) ==
  IF r.client = {} THEN "PREAUTH_FAILED"
  ELSE IF v.anonymous
  THEN IF r.client \subseteq Anonymous THEN "none" ELSE "PREAUTH_FAILED"
  ELSE IF \A name \in r.client, cert \in v.cert :
            VerifyClientSan(SaysOf[cert], name, k.config.allowUpn) = "Authorized"
  THEN "none" ELSE "CLIENT_NAME_MISMATCH"

\* Why verify refuses a request, if it does.
RefusedWith(k, r) ==
  IF r.empty THEN "EINVAL"
  ELSE LET error == VerifyAsReqError(k, r) IN
       IF error # "none" THEN CodeOf(error)
       ELSE AuthorizeError(k, r, VerifiedRequest(r.body))

\* A callback has failed: the core drops the request.
Refuse(code) ==
  /\ refusal' = {Refusal(code)}
  /\ stage' = "refused"

\* Slip: indicators are asserted as soon as the signature is verified.
Verify_IndicatorsFirst ==
  /\ stage = "received"
  /\ LET code == RefusedWith(TheKdc, TheRequest) IN
     IF code # "none"
     THEN /\ Refuse(code)
          /\ indicators' = IF code = "CLIENT_NAME_MISMATCH"
                           THEN TheKdc.config.indicators ELSE {}
          /\ UNCHANGED modreq
     ELSE LET v == VerifiedRequest(TheRequest.body) IN
          /\ modreq' = {v} /\ stage' = "verified" /\ UNCHANGED refusal
          /\ indicators' = IF v.anonymous THEN {} ELSE TheKdc.config.indicators
  /\ UNCHANGED <<fixedVars, kdc, request, replyKey, session, padata>>

\* verify.  The core may fail to keep an indicator; nobody looks.
Verify ==
  /\ stage = "received"
  /\ LET code == RefusedWith(TheKdc, TheRequest) IN
     IF code # "none"
     THEN Refuse(code) /\ UNCHANGED <<modreq, indicators>>
     ELSE LET v == VerifiedRequest(TheRequest.body) IN
          /\ modreq' = {v} /\ stage' = "verified" /\ UNCHANGED refusal
          /\ indicators' \in IF v.anonymous THEN {{}}
                             ELSE SUBSET TheKdc.config.indicators
  /\ UNCHANGED <<fixedVars, kdc, request, replyKey, session, padata>>

\* callbacks.fast_armor()
EnctypeFor(r) ==
  IF r.armor = {} THEN DefaultEnctype ELSE CHOOSE e \in r.armor : TRUE

\* return_padata for PA-PK-AS-REQ (return_pkinit_dh): the AS-REP and its key.
\* Every failure is EINVAL.
ReturnDh ==
  /\ stage = "verified"
  /\ LET r == TheRequest
         v == CHOOSE m \in modreq : TRUE
         name == CHOOSE n \in r.client : TRUE
         rep == BuildAsRep(TheKdc, v, EnctypeFor(r), r.body, name, r.server) IN
     IF BuildAsRepFails(TheKdc, v)
     THEN Refuse("EINVAL") /\ UNCHANGED <<replyKey, padata>>
     ELSE /\ replyKey' = {rep.key} /\ padata' = {rep.padata}
          /\ stage' = "keyed" /\ UNCHANGED refusal
  /\ UNCHANGED <<fixedVars, kdc, request, modreq, indicators, session>>

FxCf2(key, other) == [prf |-> <<key, other>>]
Encrypted(key, content) == [kind |-> "kx", under |-> key, content |-> content]

\* The core calls for PA-PKINIT-KX only if the client sent it, and only an
\* anonymous client gets it.
WantsKx(r) == r.kx /\ r.client # {} /\ r.client \subseteq Anonymous

\* Slip: the new session key is encrypted, not the one it was made from.
ReturnKx_NewKey ==
  /\ stage = "keyed" /\ WantsKx(TheRequest)
  /\ \E key \in replyKey, old \in session :
       /\ padata' = padata \cup {Encrypted(key, FxCf2(old, key))}
       /\ session' = {FxCf2(old, key)}
  /\ stage' = "sent"
  /\ UNCHANGED <<fixedVars, kdc, request, modreq, refusal, indicators, replyKey>>

\* return_pkinit_kx: the old session key goes to the client, encrypted, and a
\* key made from it and the reply key takes its place.
ReturnKx ==
  /\ stage = "keyed" /\ WantsKx(TheRequest)
  /\ \E key \in replyKey, old \in session :
       /\ padata' = padata \cup {Encrypted(key, old)}
       /\ session' = {FxCf2(old, key)}
  /\ stage' = "sent"
  /\ UNCHANGED <<fixedVars, kdc, request, modreq, refusal, indicators, replyKey>>

\* The PRF or the encryption fails, or, after the old key was freed, malloc.
ReturnKxFails ==
  /\ stage = "keyed" /\ WantsKx(TheRequest)
  /\ session' \in {session, {}}
  /\ Refuse(IF session' = {} THEN "ENOMEM" ELSE "EINVAL")
  /\ UNCHANGED <<fixedVars, kdc, request, modreq, indicators, replyKey, padata>>

\* No key exchange for this client.
SkipKx ==
  /\ stage = "keyed" /\ ~WantsKx(TheRequest)
  /\ stage' = "sent"
  /\ UNCHANGED <<fixedVars, kdc, requestVars>>

\* The reply or the error is on its way; the core forgets the request.
Finish ==
  /\ stage \in {"advertised", "sent", "refused"}
  /\ stage' = "idle"
  /\ request' = {} /\ modreq' = {} /\ refusal' = {} /\ indicators' = {}
  /\ replyKey' = {} /\ session' = {} /\ padata' = {}
  /\ UNCHANGED <<fixedVars, kdc>>

Next ==
  \/ InitModule \/ Restart \/ Advertise
  \/ \E r \in inFlight : Receive(r)
  \/ Verify \/ ReturnDh \/ ReturnKx \/ ReturnKxFails \/ SkipKx
  \/ Finish

Spec == Init /\ [][Next]_vars
-------------------------------------------------------------------------------
(* Invariants *)

\* Every request that got past verify has a nonce an i32 can hold and a key the
\* configuration accepts; the stage says which of the results are there.
RequestTypeOK ==
  /\ stage \in Stages /\ Cardinality(kdc) <= 1
  /\ (kdc = {}) <=> stage \in {"down", "failed"}
  /\ (request = {}) <=> stage \in {"down", "failed", "idle", "advertised"}
  /\ \A f \in refusal : f.code \in Refusals /\ f.edata \in BOOLEAN
  /\ \A v \in modreq :
       /\ v.nonce \in Signed /\ v.anonymous \in BOOLEAN
       /\ v.key.alg \in TheKdc.config.kems \cup TheKdc.config.groups
  /\ stage \in {"keyed", "sent"} => Cardinality(replyKey) = 1 /\ padata # {}
  /\ stage \in {"verified", "keyed", "sent"} => Cardinality(modreq) = 1

\* The reference for the checks of verify, from the relation of the message to
\* the certificates: a signature by this certificate's key over attributes that
\* hold the digest of the content and its type.
SignedBy(m, cert) ==
  \E i \in DOMAIN m.signers, payload \in m.content :
    \E attrs \in m.signers[i].attrs :
      /\ m.signers[i].signature = Signature(KeyOf[cert], attrs)
      /\ \E a \in ToSet(attrs) :
           a.kind = "messageDigest" /\ a.value = DigestOf(m.signers[i].digest, payload)
      /\ \E a \in ToSet(attrs) : a.kind = "contentType" /\ a.value = "authData"

VouchedFor(k, m, cert) ==
  /\ SignedBy(m, cert)
  /\ LeadsTo(cert, ToSet(m.certs), k.store.anchors, IssuerOf,
             IF k.config.requireCrl THEN Revoked ELSE {})
  /\ k.config.requireEku =>
       \/ "KPClientAuth" \in SaysOf[cert].ekus
       \/ k.config.secondaryEku /\ "MsScLogon" \in SaysOf[cert].ekus

MayActFor(k, cert, name) ==
  \/ name \in SaysOf[cert].pkinit
  \/ k.config.allowUpn /\ \E upn \in SaysOf[cert].upn : Folded[upn] = Folded[name]

\* Somebody proved to be this request's client.
SpeaksForItself(k, r) ==
  \E cert \in Certs, name \in r.client :
    VouchedFor(k, r.body, cert) /\ MayActFor(k, cert, name)

\* A reply key goes only to the client the request names: to one whose trusted
\* certificate says so, or, unsigned, to the anonymous principal.
ReplyKeyOnlyForTheNamed ==
  \A k \in kdc, r \in request :
    replyKey # {} =>
      \/ SpeaksForItself(k, r)
      \/ r.body.signers = <<>> /\ r.client # {} /\ r.client \subseteq Anonymous

\* Authentication indicators vouch for a certificate: they are never asserted
\* for an anonymous client, nor left behind by a request that was refused
\* because its certificate does not name the client.
IndicatorsOnlyForSigned ==
  \A k \in kdc, r \in request : indicators # {} => SpeaksForItself(k, r)

\* What is in order about a request but for its key.
InOrder(k, r) ==
  /\ r.parses /\ ~r.empty
  /\ r.body.signers = <<>> \/ \E cert \in Certs : VouchedFor(k, r.body, cert)
  /\ \A pack \in r.body.content :
       /\ pack.parses
       /\ pack.ctime \in (Now - MaxSkew)..(Now + MaxSkew)
       /\ k.config.freshness => pack.freshness

\* A chain can be validated at all: CRLs are there if they are asked for, and
\* everything that goes into the validation decodes.
Checkable(k, m) ==
  /\ k.config.requireCrl => k.store.crls # {}
  /\ (k.store.anchors \cup ToSet(m.certs)) \cap Undecodable = {}

KeyAccepted(k, key) ==
  IF key.alg \in Kems THEN ~key.params /\ key.alg \in k.config.kems
  ELSE ~k.config.requireKem /\ key.alg \in k.config.groups

OwnKey(cl) == [alg |-> cl.alg, params |-> FALSE]

\* A client of this code whose settings fit the KDC's, but perhaps for its key.
FitsButForItsKey(k, r, cl) ==
  /\ cl.clock \in (Now - MaxSkew)..(Now + MaxSkew)
  /\ k.config.freshness => cl.token
  /\ IF cl.identity = {} THEN r.client \subseteq Anonymous
     ELSE \E id \in cl.identity :
            /\ KeyOf[id.cert] = id.key
            /\ VouchedFor(k, r.body, id.cert)
            /\ \A name \in r.client : MayActFor(k, id.cert, name)
            /\ SaysOf[id.cert].broken = {} /\ MaySign(SaysOf[id.cert])

\* The typed data that make a client choose another key go to clients whose message
\* is in order but for the key, before anybody asks whether the certificate may act
\* for the name; and each client of this code with only its key to blame gets them.
OnlyTheKeyIsRefused ==
  \A k \in kdc, r \in request, f \in refusal :
    LET keys == UNION {pack.spki : pack \in {p \in r.body.content : p.parses}}
        accepted == {key \in keys : KeyAccepted(k, key)} IN
    /\ f.edata => InOrder(k, r) /\ accepted = {}
    /\ \A cl \in r.from :
         /\ FitsButForItsKey(k, r, cl) /\ Checkable(k, r.body)
         /\ ~KeyAccepted(k, OwnKey(cl))
         => f.edata

\* ... and its key too, at a KDC whose own certificate is one it can sign with.
Fits(k, r, cl) ==
  /\ FitsButForItsKey(k, r, cl) /\ KeyAccepted(k, OwnKey(cl))
  /\ k.identity.cert \notin Undecodable

\* Such a client is never turned away, whatever its nonce, its digest, the
\* order of its certificates or the spelling of its name; only a failure of the
\* key exchange for anonymous clients ends its request, after the reply key.
FittingClientsAreServed ==
  \A k \in kdc, r \in request :
    \A cl \in r.from :
      /\ Fits(k, r, cl) /\ Checkable(k, r.body)
      /\ stage = "refused"
      => replyKey # {}

\* The KDC's certificate satisfies this client.
TrustedBy(k, cl) ==
  LET id == k.identity IN
  /\ KeyOf[id.cert] = id.key
  /\ (ToSet(id.chain) \cup cl.store.anchors) \cap Undecodable = {}
  /\ LeadsTo(id.cert, ToSet(id.chain), cl.store.anchors, IssuerOf, {})
  /\ SaysOf[id.cert].broken = {} /\ MaySign(SaysOf[id.cert])
  /\ SaysOf[id.cert].ekus \cap {"KPKdc", "ServerAuth"} # {}
  /\ cl.kdc \subseteq SaysOf[id.cert].pkinit
  /\ cl.alg \in Kems /\ (\E mine \in cl.identity : mine.cert \in PqCerts)
       => id.cert \in PqCerts

TheReply == CHOOSE rep \in padata : rep.kind # "kx"

\* The reply such a KDC sends is one this code's client accepts, and both derive
\* the same key, whichever path, KDF, enctype and spelling of names they have.
ReplyReachesTheClient ==
  \A k \in kdc, r \in request, key \in replyKey :
    \A cl \in r.from :
      stage = "sent" /\ TrustedBy(k, cl) =>
        ProcessAsRep(cl, TheReply, key.enctype, r.body, r.server) = {key}

\* The session key as the client works it out: from the KX it was sent, with
\* its reply key, or else the one in the reply.
ClientSession ==
  LET kx == {p \in padata : p.kind = "kx"} IN
  IF kx = {} THEN session
  ELSE {FxCf2(p.content, p.under) : p \in {q \in kx : q.under \in replyKey}}

\* Client and ticket hold the same session key; an anonymous client that asked
\* for it has contributed its reply key, nobody else's ticket was changed.
KxConveysTheSession ==
  \A r \in request : stage = "sent" =>
    /\ session # {} /\ ClientSession = session
    /\ (session = {Ticket}) <=> ~WantsKx(r)

\* The hint is read back as the list that went into it, at every boundary of a
\* length; one that lost its end is refused, never read as a shorter list; and
\* what a client picks from it the KDC accepts.
HintIsReadBack ==
  \A k \in kdc : stage = "advertised" =>
    \A p \in padata :
      /\ ParseHint(p.bytes) = {AlgList(k.config.listed)}
      /\ \A cut \in 1..(Len(p.bytes) - 1) : ParseHint(SubSeq(p.bytes, 1, cut)) = {}
      /\ \A alg \in ToSet(k.config.listed) :
           KeyAccepted(k, [alg |-> alg, params |-> FALSE])

\* A client and a KDC with the same pkinit_dh_min_bits agree without a retry:
\* the group such a client starts with is accepted at every minimum some group
\* meets, and it is no larger than that minimum asks for.
DefaultGroupIsAccepted ==
  \A k \in kdc :
    LET bits == AsU32(Get(profile, "pkinit_dh_min_bits", 2048))
        group == DhGroupFromMinBits(bits) IN
    ~k.config.requireKem /\ bits <= 4096 =>
      /\ group \in k.config.groups
      /\ group = "oakley4096" => "oakley2048" \notin k.config.groups
===============================================================================
