----------------------------- MODULE ClientPlugin ------------------------------
(***************************************************************************)
(* The client preauth plugin over the AS exchanges of one krb5 context.    *)
(*                                                                         *)
(* init_module runs once for a context, so one PkinitClient (state,        *)
(* config, pending_pkcs12) serves all its exchanges.  In each round of an  *)
(* exchange libkrb5 calls init_etype_info for the KDC's padata, then asks  *)
(* the application's responder, then calls process, first for the          *)
(* informational padata, whose errors it ignores, then for PA-PK-AS-REQ.   *)
(*                                                                         *)
(*  idle -Begin-> round -Prep-> prep -Respond-> process -AsReq-> sent      *)
(*                  ^                                             |        *)
(*                  +---------------MoreMethodData----------------+        *)
(***************************************************************************)
EXTENDS Naturals, FiniteSets

CONSTANTS
  Realms,
  Idents,        \* values of pkinit_identities and X509_user_identity
  Locked,        \* PKCS#12 identities that need a password
  Broken,        \* identities that do not parse or load
  Anchors,       \* values of pkinit_anchors and X509_anchors
  BadAnchors,    \* those of them that do not load
  Profiles,      \* the krb5.conf files to try
  MaxExchanges   \* bound of the model: exchanges with one context

Optional(S) == {{}} \cup {{x} : x \in S}

\* o \in Optional(S), for a large S.
IsOptional(o, S) == o \subseteq S /\ \A x, y \in o : x = y

\* What krb5.conf says to a context with that default realm: its section, or
\* else libdefaults, {} where neither has the relation.  `parses` is FALSE for an
\* unknown KEM name.
Profile == [Realms -> [identity : Optional(Idents), anchors : SUBSET Anchors,
                       parses : BOOLEAN, requireKem : Optional(BOOLEAN)]]

ASSUME ConstantsAssumption ==
  /\ Profiles \subseteq Profile
  /\ Locked \subseteq Idents /\ Broken \subseteq Idents
  /\ Locked \cap Broken = {}
  /\ BadAnchors \subseteq Anchors
  /\ MaxExchanges \in Nat

\* PkinitClientConfig.  `requireKem` stands for every relation that the profile
\* overrides where it has it, {} for the default.
Config == [identity : Optional(Idents), anchors : SUBSET Anchors,
           requireKem : Optional(BOOLEAN)]

\* PkinitClientState: `builtIn` is the exchange that built it (history), `trusts`
\* the anchors in its trust store, `kdcOf` the realm of its KDC principal.
State == [builtIn : 1..MaxExchanges, anonymous : BOOLEAN,
          identity : Optional(Idents), trusts : SUBSET Anchors, config : Config,
          kdcOf : Realms, keys : SUBSET {"dh", "kem"}]

Pending == [identity : Idents, trusts : SUBSET Anchors, kdcOf : Realms]

VARIABLES
  profile,   \* krb5.conf
  supplied,  \* history: the identity the caller set, {} for none
  config,    \* PkinitClient::config
  state,     \* PkinitClient::state, {} for None
  pending,   \* PkinitClient::pending_pkcs12, {} for None
  step,      \* where libkrb5 is in the exchange
  exchange,  \* the current or last exchange: its number, the realm of its KDC,
             \* the default realm of the context, whether it is anonymous
  asked,     \* the responder has been asked for a password in this round
  response,  \* the responder's answer in this round: none, right, wrong
  sent,      \* the exchange's latest request: its key and who signed it
  verdict    \* how the last exchange ended for PKINIT

given == <<profile, supplied>>
plugin == <<config, state, pending>>
round == <<asked, response>>
vars == <<given, plugin, step, exchange, round, sent, verdict>>

\* Slip: a state that holds a KEM key only is built anew.
HasKey_DhOnly == \E s \in state : "dh" \in s.keys

\* has_dh_key() || has_kem_key()
HasKey == \E s \in state : s.keys # {}

\* libkrb5 ends the exchange, or goes on with another mechanism.
End(how) == step' = "idle" /\ verdict' = how /\ sent' = {}

Init ==
  /\ profile \in Profiles
  /\ supplied = {}
  /\ config = [identity |-> {}, anchors |-> {}, requireKem |-> {}]
  /\ state = {} /\ pending = {}
  /\ step = "idle"
  /\ exchange \in {[n |-> 0, realm |-> r, default |-> r, anonymous |-> FALSE] :
                     r \in Realms}
  /\ asked = FALSE /\ response = "none"
  /\ sent = {} /\ verdict = "none"
-------------------------------------------------------------------------------
(* The application *)

\* Slip: a second identity is added to the first.
SupplyIdentity_Again(i) ==
  /\ step = "idle"
  /\ config' = [config EXCEPT !.identity = @ \cup {i}]
  /\ supplied' = {i}
  /\ UNCHANGED <<profile, state, pending, step, exchange, round, sent, verdict>>

\* supply_gic_opts: a second identity is an error and changes nothing.  So is
\* the first, where an earlier exchange has read one from the profile.
SupplyIdentity(i) ==
  /\ step = "idle" /\ config.identity = {}
  /\ config' = [config EXCEPT !.identity = {i}]
  /\ supplied' = {i}
  /\ UNCHANGED <<profile, state, pending, step, exchange, round, sent, verdict>>

SupplyAnchors(a) ==
  /\ step = "idle"
  /\ config' = [config EXCEPT !.anchors = @ \cup {a}]
  /\ UNCHANGED <<given, state, pending, step, exchange, round, sent, verdict>>

\* The default realm need not be the realm of the request, and the application
\* may set another one between two exchanges.
Begin(realm, default, anonymous) ==
  /\ step = "idle" /\ exchange.n < MaxExchanges
  /\ exchange' = [n |-> exchange.n + 1, realm |-> realm, default |-> default,
                  anonymous |-> anonymous]
  /\ step' = "round"
  /\ asked' = FALSE /\ response' = "none"
  /\ verdict' = "none"
  /\ UNCHANGED <<given, plugin, sent>>

\* The application stops, the KDC cannot be reached, the KDC needs no preauth.
Abandon ==
  /\ step # "idle"
  /\ End("abandoned")
  /\ UNCHANGED <<given, plugin, exchange, round>>
-------------------------------------------------------------------------------
(* init_etype_info *)

\* The relations of ctx.realm(), the default realm of the context.
Relations == profile[exchange.default]

\* Slip: the profile comes first.
ReadClientConfig_ProfileFirst ==
  config' =
    [identity |-> IF Relations.identity # {} THEN Relations.identity
                  ELSE config.identity,
     anchors |-> IF config.anchors = {} THEN Relations.anchors ELSE config.anchors,
     requireKem |-> IF Relations.parses /\ Relations.requireKem # {}
                    THEN Relations.requireKem ELSE config.requireKem]

\* read_client_config: what the caller set comes first; what an earlier call
\* read cannot be told from it.  A relation that the profile lacks keeps its
\* value, and so do those behind one that does not parse.
ReadClientConfig ==
  config' =
    [identity |-> IF config.identity = {} THEN Relations.identity
                  ELSE config.identity,
     anchors |-> IF config.anchors = {} THEN Relations.anchors ELSE config.anchors,
     requireKem |-> IF Relations.parses /\ Relations.requireKem # {}
                    THEN Relations.requireKem ELSE config.requireKem]

\* build_client
Client(id, trusts, configuration, kdcOf, anonymous) ==
  [builtIn |-> exchange.n, anonymous |-> anonymous, identity |-> id,
   trusts |-> trusts, config |-> configuration, kdcOf |-> kdcOf, keys |-> {}]

Preparing ==
  /\ step \in {"round", "prep"}
  /\ step' = "prep"
  /\ UNCHANGED <<given, exchange, response, sent, verdict>>

\* The request that is out needs its key: leave everything alone.
PrepKeeps ==
  /\ Preparing
  /\ HasKey
  /\ UNCHANGED <<plugin, asked>>

\* Slip: the trust store is loaded before the identity is looked at.
PrepAborts_StoreFirst ==
  /\ step \in {"round", "prep"}
  /\ ~HasKey
  /\ ReadClientConfig
  /\ \/ ~Relations.parses
     \/ config'.anchors \cap BadAnchors # {}
     \/ ~exchange.anonymous /\ config'.identity # {} /\ config'.identity \subseteq Broken
  /\ End("aborted")
  /\ UNCHANGED <<given, state, pending, exchange, round>>

\* Every error of init_etype_info aborts the AS exchange.
PrepAborts ==
  /\ step \in {"round", "prep"}
  /\ ~HasKey
  /\ ReadClientConfig
  /\ \/ ~Relations.parses
     \/ /\ exchange.anonymous \/ config'.identity # {}
        /\ \/ config'.anchors \cap BadAnchors # {}
           \/ ~exchange.anonymous /\ config'.identity \subseteq Broken
  /\ End("aborted")
  /\ UNCHANGED <<given, state, pending, exchange, round>>

Configured ==
  /\ Preparing
  /\ ~HasKey
  /\ ReadClientConfig
  /\ Relations.parses

\* A password-only principal: succeed, and let process decline.
PrepNothing ==
  /\ Configured
  /\ ~exchange.anonymous /\ config'.identity = {}
  /\ UNCHANGED <<state, pending, asked>>

TrustStoreLoads == config'.anchors \cap BadAnchors = {}

PrepAnonymous ==
  /\ Configured
  /\ TrustStoreLoads
  /\ exchange.anonymous
  /\ state' = {Client({}, config'.anchors, config', exchange.realm, TRUE)}
  /\ UNCHANGED <<pending, asked>>

PrepLoads ==
  /\ Configured
  /\ TrustStoreLoads
  /\ ~exchange.anonymous
  /\ \E i \in config'.identity \ (Locked \cup Broken) :
       state' = {Client({i}, config'.anchors, config', exchange.realm, FALSE)}
  /\ pending' = {}
  /\ UNCHANGED asked

PendingFor(i) ==
  [identity |-> i, trusts |-> config'.anchors, kdcOf |-> exchange.realm]

\* Slip: an identity that is pending already is not computed again.
PrepAsks_Once ==
  /\ Configured
  /\ TrustStoreLoads
  /\ ~exchange.anonymous
  /\ \E i \in config'.identity \cap Locked :
       pending' = IF pending # {} THEN pending
                  ELSE {PendingFor(i)}
  /\ asked' = TRUE
  /\ UNCHANGED state

PrepAsks ==
  /\ Configured
  /\ TrustStoreLoads
  /\ ~exchange.anonymous
  /\ \E i \in config'.identity \cap Locked :
       pending' = {PendingFor(i)}
  /\ asked' = TRUE
  /\ UNCHANGED state

InitEtypeInfo ==
  PrepKeeps \/ PrepAborts \/ PrepNothing \/ PrepAnonymous \/ PrepLoads \/ PrepAsks

\* All questions are asked before the responder answers, and it answers before
\* any process.
Respond ==
  /\ step = "prep"
  /\ step' = "process"
  /\ response' \in IF asked THEN {"none", "right", "wrong"} ELSE {"none"}
  /\ UNCHANGED <<given, plugin, exchange, asked, sent, verdict>>
-------------------------------------------------------------------------------
(* process and tryagain *)

\* finish_pending_pkcs12: whatever comes of it, nothing is pending any more.
FinishFails == pending # {} /\ response # "right"
Finished ==
  IF pending = {} THEN state
  ELSE {Client({p.identity}, p.trusts, config, p.kdcOf, FALSE) : p \in pending}

\* Slip: what is pending is taken, and built for PA-PK-AS-REQ only.
ProcessInfo_Takes ==
  /\ step = "process"
  /\ pending' = {}
  /\ UNCHANGED <<given, config, state, step, exchange, round, sent,
                 verdict>>

\* PA-PKINIT-KX, PA-AS-FRESHNESS (the token is left out).
ProcessInfo ==
  /\ step = "process"
  /\ pending' = {}
  /\ state' = IF FinishFails THEN state ELSE Finished
  /\ UNCHANGED <<given, config, step, exchange, round, sent,
                 verdict>>

\* A client apart from its keys.
Signer(s) == [s EXCEPT !.keys = {}]

WithKey(s, kind) == [s EXCEPT !.keys = @ \cup {kind}]

\* A hint or a retry list may make the client drop keys (module KeyExchange).
Negotiated(s) == {[s EXCEPT !.keys = kept] : kept \in SUBSET s.keys}

\* build_pa_pk_as_req, with a key of the negotiated kind, or a failure there or
\* in the negotiation, which ends the attempt.
Negotiate(s) ==
  \E next \in Negotiated(s) :
    \/ /\ state' = {next}
       /\ End("failed")
    \/ \E kind \in {"dh", "kem"} :
         /\ state' = {WithKey(next, kind)}
         /\ sent' = {[key |-> kind, by |-> Signer(s)]}
         /\ step' = "sent" /\ UNCHANGED verdict

\* PA-PK-AS-REQ
ProcessAsReq ==
  /\ step = "process"
  /\ pending' = {}
  /\ \/ FinishFails /\ UNCHANGED state /\ End("failed")
     \/ ~FinishFails /\ Finished = {} /\ UNCHANGED state /\ End("declined")
     \/ ~FinishFails /\ \E s \in Finished : Negotiate(s)
  /\ UNCHANGED <<given, config, exchange, round>>

TryAgain ==
  /\ step = "sent"
  /\ \E s \in state : Negotiate(s)
  /\ UNCHANGED <<given, config, pending, exchange, round>>

\* The KDC answers with another list of padata: a new round.
MoreMethodData ==
  /\ step = "sent"
  /\ step' = "round"
  /\ asked' = FALSE /\ response' = "none"
  /\ UNCHANGED <<given, plugin, exchange, sent, verdict>>

\* PA-PK-AS-REP: a KEM reply takes the decapsulation key, and a DH reply leaves
\* the DH key where it is.
ProcessAsRep ==
  /\ step = "sent"
  /\ pending' = {}
  /\ \E s \in state, kind \in {"dh", "kem"} :
       /\ state' = {[s EXCEPT !.keys = @ \ ({kind} \cap {"kem"})]}
       /\ (kind \in s.keys /\ End("done")) \/ End("failed")
  /\ UNCHANGED <<given, config, exchange, round>>
-------------------------------------------------------------------------------
Next ==
  \/ \E i \in Idents : SupplyIdentity(i)
  \/ \E a \in Anchors : SupplyAnchors(a)
  \/ \E r, d \in Realms, anonymous \in BOOLEAN : Begin(r, d, anonymous)
  \/ Abandon
  \/ InitEtypeInfo
  \/ Respond
  \/ ProcessInfo
  \/ ProcessAsReq
  \/ TryAgain
  \/ MoreMethodData
  \/ ProcessAsRep

Spec == Init /\ [][Next]_vars
-------------------------------------------------------------------------------
(* Properties *)

\* Every variable keeps its shape.
TypeOK ==
  /\ profile \in Profiles
  /\ supplied \in Optional(Idents)
  /\ config \in Config
  /\ IsOptional(state, State)
  /\ IsOptional(pending, Pending)
  /\ step \in {"idle", "round", "prep", "process", "sent"}
  /\ exchange \in [n : 0..MaxExchanges, realm : Realms, default : Realms,
                   anonymous : BOOLEAN]
  /\ asked \in BOOLEAN
  /\ response \in {"none", "right", "wrong"}
  /\ \A r \in sent : r.key \in {"dh", "kem"}
  /\ verdict \in {"none", "abandoned", "aborted", "failed", "declined", "done"}

\* While a request is out, whatever init_etype_info and process are called for,
\* the plugin keeps the key of that request and the client that signed it: its
\* reply can still be processed (init_etype_info, finish_pending_pkcs12).
RequestCanBeAnswered ==
  \A r \in sent : \E s \in state :
    r.key \in s.keys /\ r.by = Signer(s)

\* The principal of the exchange has an identity of its own: the caller set one,
\* or the relations that this exchange reads name one.
HasOwnIdentity == supplied # {} \/ Relations.identity # {}

\* Something an earlier exchange of the context left is still there: an identity
\* it read, or a client it built.
LeftOver ==
  /\ exchange.n > 1
  /\ config.identity # {} \/ \E s \in state : s.builtIn < exchange.n

\* A principal without an identity of its own logs in with a password as if
\* there were no PKINIT: nothing is sent for it, and the exchange is neither
\* failed nor, however broken the trust store, aborted.  Two things alone are
\* excepted: a configuration that does not parse, and what an earlier exchange
\* of the context left (init_etype_info, "any Err from init_etype_info aborts the
\* whole AS-REQ"; process).
StandsAsideForPasswords ==
  exchange.n > 0 /\ ~exchange.anonymous /\ ~HasOwnIdentity /\ ~LeftOver =>
    /\ sent = {}
    /\ verdict \in {"none", "abandoned", "declined"}
                     \cup (IF Relations.parses THEN {} ELSE {"aborted"})

\* "Identity ... may already be set by the caller, which takes precedence"
\* (profile.rs:126): once the caller has set an identity, whatever the profiles
\* of the realms to come say, no state signs and no password is asked for
\* another one, not even for one that an earlier exchange left.
CallerTakesPrecedence ==
  supplied # {} =>
    /\ config.identity = supplied
    /\ \A s \in state : s.anonymous \/ s.identity = supplied
    /\ \A p \in pending : {p.identity} = supplied

\* The parts of a client state fit together and are of the exchange that built
\* it, though the PKCS#12 path builds it in two calls and a pending one may be
\* left by an earlier exchange.  It trusts the anchors and signs with the identity
\* that its configuration names; its KDC and whether it is anonymous are those of
\* the exchange; and its configuration is overridden by what the exchange's
\* default realm says.  (Where that says nothing the configuration may be that
\* of an earlier exchange: read_client_config keeps it.)
OfOneExchange(s) ==
  /\ s.trusts = s.config.anchors
  /\ s.identity = IF s.anonymous THEN {} ELSE s.config.identity
  /\ s.builtIn = exchange.n =>
       /\ s.kdcOf = exchange.realm /\ s.anonymous = exchange.anonymous
       /\ Relations.requireKem # {} => s.config.requireKem = Relations.requireKem
StateIsOfOneExchange == \A s \in state : OfOneExchange(s)

\* A password is not wasted: if the responder answered this round's question
\* rightly, whichever padata is processed first, PKINIT is not declined, and a
\* request is one of the identity that the question was about.
UsesTheRightPassword ==
  [][step = "process" /\ asked /\ response = "right" =>
       /\ verdict' # "declined"
       /\ step' = "sent" =>
            \A s \in state' : s.identity \cap Locked # {} /\ s.builtIn = exchange.n
    ]_vars

\* "self.state is unset when init_etype_info found no configured identity
\* (password-only principal)" (process, client_plugin.rs:213): so that process
\* declines and the password gets its turn.
NoIdentityNoState ==
  step = "process" /\ ~exchange.anonymous /\ config.identity = {} => state = {}
===============================================================================
