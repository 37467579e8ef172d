----------------------------- MODULE KeyExchange ------------------------------
(***************************************************************************)
(* One PKINIT exchange: how the client (PkinitClientState, driven by the   *)
(* clpreauth plugin) and the KDC (PkinitKdcState, driven by the kdcpreauth *)
(* plugin) settle on a key-establishment algorithm and a reply key.        *)
(*                                                                         *)
(*   KDC hint --Hint--> AS-REQ --Refuse--> typed data --TryAgain--> AS-REQ *)
(*                             --Reply---> AS-REP --ProcessReply--> done   *)
(*                                                                         *)
(* Each AS-REQ carries the nonce of its place in `sent` (libkrb5 draws a   *)
(* new one for every request).  Requests, typed data and replies stay in   *)
(* flight for ever, so that any of them may arrive late, twice or never.   *)
(* The KDC keeps nothing between requests.  Realms have replicas of other  *)
(* implementations: their unauthenticated lists are ForeignLists.          *)
(***************************************************************************)
EXTENDS Lists, FiniteSets

CONSTANTS
  Kems,            \* KEM algorithms the code implements
  Composites,      \* those of them that are composite ML-KEM variants
  PureLadder,      \* the pure ML-KEM ones, strongest first
  Strength,        \* strength_order(): the NIST category of each KEM
  DefaultKem,      \* the KEM of a client with require_kem and no other choice
  Groups,          \* DH groups and EC curves
  Curves,          \* those of them that are EC curves
  GroupOrder,      \* the groups in the KDC's order of preference
  Bits,            \* DhGroup::min_bits()
  ClientConfigs,   \* the client configurations to explore
  Kdcs,            \* KDCs of the realm that run this code
  KdcConfigs,      \* the configurations to explore for each of them
  ForeignLists,    \* lists that KDCs of other implementations send
  MaxRequests,     \* libkrb5 gives up after that many AS-REQs
  Restarts,        \* libkrb5 may start over in the middle of an exchange
  StaleDelivery,   \* answers to earlier requests may still arrive
  Foreign,         \* stands for a KDC of another implementation
  NoAlg, NoKey, NoResult

Algs == Kems \cup Groups

ClientConfig == [kem : Kems \cup {NoAlg}, requireKem : BOOLEAN, group : Groups,
                 minBits : Nat, pqCert : BOOLEAN]

\* Whether a KDC accepts this client's request otherwise (signature, chain,
\* EKU, clock, freshness), whether it lets it act for the principal, whether
\* its own chain satisfies the client, and whether it signs with a PQ key.
KdcConfig == [pure : SUBSET (Kems \ Composites), composites : Seq(Composites),
              requireKem : BOOLEAN, minBits : Nat, verifies : BOOLEAN,
              authorizes : BOOLEAN, trusted : BOOLEAN, pqSigner : BOOLEAN]

ASSUME AlgorithmsAssumption ==
  /\ Composites \subseteq Kems /\ Curves \subseteq Groups
  /\ Kems \cap Groups = {}
  /\ NoAlg \notin Algs
  /\ Strength \in [Kems -> Nat] /\ Bits \in [Groups -> Nat]
  /\ DefaultKem \in Kems
  /\ PureLadder \in Seq(Kems \ Composites) /\ GroupOrder \in Seq(Groups)

ASSUME ConfigsAssumption ==
  /\ ClientConfigs \subseteq ClientConfig
  /\ \A s \in KdcConfigs : s \in KdcConfig
  /\ MaxRequests \in Nat /\ Restarts \in BOOLEAN /\ StaleDelivery \in BOOLEAN
  /\ Foreign \notin Kdcs

\* A key pair is known by its algorithm and the request it was made for.
Key == [alg : Algs, born : Nat]

ASSUME NoKeyAssumption == NoKey \notin Key

\* The fields of PkinitClientState that the negotiation reads and writes:
\* config.kem_algorithm, config.dh_group, key_exchange, dh_key, kem_key.
ClientState == [kem : Kems \cup {NoAlg}, group : Groups,
                kex : Algs \cup {NoAlg},
                dhKey : Key \cup {NoKey}, kemKey : Key \cup {NoKey}]

VARIABLES
  config,    \* the client's configuration, fixed
  kdcs,      \* each KDC's configuration, fixed
  client,    \* PkinitClientState
  sent,      \* the AS-REQs so far: algorithm and public key
  errors,    \* KRB-ERRORs in flight
  replies,   \* AS-REPs in flight
  outcome,   \* open, done or failed
  agreed     \* the reply key the client derived

configVars == <<config, kdcs>>
vars == <<configVars, client, sent, errors, replies, outcome, agreed>>

Request == [alg : Algs, key : Key]
Reply == [kdc : Kdcs, nonce : Nat, alg : Algs, key : Key]
ReplyKey == [alg : Algs, key : Key, kdc : Kdcs, asReq : Nat]

-------------------------------------------------------------------------------
(* The client's policy *)

\* PkinitClientState::new: the floor is fixed here and never moves.
Floor(cfg) == IF cfg.requireKem /\ cfg.kem = NoAlg THEN DefaultKem ELSE cfg.kem
NewClient(cfg) == [kem |-> Floor(cfg), group |-> cfg.group, kex |-> NoAlg,
                   dhKey |-> NoKey, kemKey |-> NoKey]

\* group_from_algorithm_identifier(): MODP groups below pkinit_dh_min_bits count
\* as not implemented, but the EC curves are not measured.
LongEnough(g) == g \in Curves \/ Bits[g] >= config.minBits

\* recognize()
Recognized(a) == a \in Kems \/ (a \in Groups /\ LongEnough(a))

\* Slip: only the configured floor commits a PQ client.
DhAllowed_FloorOnly ==
  /\ ~config.requireKem
  /\ ~(config.pqCert /\ Floor(config) # NoAlg)

\* dh_allowed(): a client with a PQ certificate is committed to a KEM when it
\* is configured with one and when the last request carried one.
DhAllowed ==
  /\ ~config.requireKem
  /\ ~(config.pqCert /\ (Floor(config) # NoAlg \/ client.kex \in Kems))

\* Slip: a KEM is measured against the algorithm chosen last.
Accepts_MovingFloor(a) ==
  /\ a \in Kems /\ client.kem # NoAlg => Strength[a] >= Strength[client.kem]
  /\ a \notin Kems => DhAllowed

\* Slip: the floor itself is too weak.
Accepts_AboveFloor(a) ==
  /\ a \in Kems /\ Floor(config) # NoAlg => Strength[a] > Strength[Floor(config)]
  /\ a \notin Kems => DhAllowed

\* accepts(): a KEM by the fixed floor, a group if DH is allowed at all.
Accepts(a) ==
  /\ a \in Kems /\ Floor(config) # NoAlg => Strength[a] >= Strength[Floor(config)]
  /\ a \notin Kems => DhAllowed

\* The first algorithm of a KDC's list, in its order of preference, that the
\* client implements and accepts, except `skipped`: a set of at most one.
Eligible(list, skipped) ==
  {i \in DOMAIN list : Recognized(list[i]) /\ list[i] # skipped
                                           /\ Accepts(list[i])}
Preferred(list, skipped) ==
  {list[i] : i \in {k \in Eligible(list, skipped) :
                      \A j \in Eligible(list, skipped) : k <= j}}

\* The start of process_pkinit_hint(): an empty list constrains nothing, and the
\* KEM chosen so far stays when the KDC advertises it.
Keeps(list) ==
  \/ list = <<>>
  \/ /\ client.kem \in Kems /\ Accepts(client.kem)
     /\ \E i \in DOMAIN list : list[i] = client.kem

\* set_kem_algorithm(), set_dh_group(), apply()
SetKem(c, a) == [c EXCEPT !.kem = a, !.kemKey = NoKey, !.kex = NoAlg]

\* Slip: the key pair of the group before stays.
SetGroup_KeepsKey(c, g) == [c EXCEPT !.group = g, !.kem = NoAlg,
                                     !.kemKey = NoKey, !.kex = NoAlg]
SetGroup(c, g) == [c EXCEPT !.group = g, !.kem = NoAlg, !.dhKey = NoKey,
                            !.kemKey = NoKey, !.kex = NoAlg]
Apply(c, a) == IF a \in Kems THEN SetKem(c, a) ELSE SetGroup(c, a)
-------------------------------------------------------------------------------
(* The KDC's policy *)

\* PkinitKdcState::new
PureKems(s) == IF s.requireKem /\ s.pure = {} /\ s.composites = <<>>
               THEN Kems \ Composites ELSE s.pure

\* Slip: the groups are listed although require_kem refuses them.
Advertised_WithGroups(s) ==
  Chosen(PureLadder, PureKems(s)) \o s.composites
    \o Chosen(GroupOrder, {g \in Groups : Bits[g] >= s.minBits})

\* acceptable_key_establishment_alg_ids(): the hint and the typed data.
Advertised(s) ==
  Chosen(PureLadder, PureKems(s)) \o s.composites
    \o Chosen(GroupOrder, {g \in Groups : ~s.requireKem /\ Bits[g] >= s.minBits})

\* accepts_kem()
AcceptsKem(s, a) ==
  \/ a \in Composites /\ \E i \in DOMAIN s.composites : s.composites[i] = a
  \/ a \in Kems \ Composites /\ (PureKems(s) = {} \/ a \in PureKems(s))

\* validate_dh_params() measures no EC curve either.
ValidParams(s, g) == g \in Curves \/ Bits[g] >= s.minBits

\* The choice verify_as_req() makes by the type of the client's public key.
AcceptsGroup(s, g) == ~s.requireKem /\ ValidParams(s, g)
AcceptsAlg(s, a) == \/ a \in Kems /\ AcceptsKem(s, a)
                    \/ a \in Groups /\ AcceptsGroup(s, a)
-------------------------------------------------------------------------------
(* The client builds AS-REQs *)

\* A KRB-ERROR answering request n of KDC k, with a list in typed data or not.
Error(k, n, typed, list) ==
  [kdc |-> k, nonce |-> n, typed |-> typed, list |-> list]

\* A replica of another implementation may turn any request down.
ForeignErrors ==
  {Error(Foreign, Len(sent), TRUE, list) : list \in ForeignLists}

Init ==
  /\ config \in ClientConfigs
  /\ kdcs \in [Kdcs -> KdcConfigs]
  /\ client = NewClient(config)
  /\ sent = <<>> /\ errors = {} /\ replies = {}
  /\ outcome = "open" /\ agreed = NoResult

Fail == outcome' = "failed" /\ UNCHANGED <<sent, agreed>>

\* Slip: the KEM key pair of the request before is used again.
KemKeyFor_Reused(c) == IF c.kemKey = NoKey
                       THEN [alg |-> c.kem, born |-> Len(sent) + 1]
                       ELSE c.kemKey

\* build_as_req(): a new KEM key pair for every request, but the DH key pair
\* there is as long as the group stays.
KemKeyFor(c) == [alg |-> c.kem, born |-> Len(sent) + 1]
DhKeyFor(c) == IF c.dhKey = NoKey THEN [alg |-> c.group, born |-> Len(sent) + 1]
               ELSE c.dhKey

SendKem(c) ==
  /\ client' = [c EXCEPT !.kex = c.kem, !.kemKey = KemKeyFor(c)]
  /\ sent' = Append(sent, [alg |-> c.kem, key |-> KemKeyFor(c)])
  /\ UNCHANGED <<outcome, agreed>>

SendDh(c) ==
  /\ client' = [c EXCEPT !.kex = c.group, !.dhKey = DhKeyFor(c)]
  /\ sent' = Append(sent, [alg |-> c.group, key |-> DhKeyFor(c)])
  /\ UNCHANGED <<outcome, agreed>>

\* build_as_req() checks require_kem once more, which only a group chosen from
\* outside (set_dh_group() is public) could meet.
Build(c) ==
  \/ c.kem # NoAlg /\ SendKem(c)
  \/ c.kem = NoAlg /\ IF config.requireKem THEN client' = c /\ Fail ELSE SendDh(c)

\* process() of PA-PK-AS-REQ: at the start, and again when libkrb5 starts over.
\* A hint that does not parse counts as an empty one.
Hint(list) ==
  /\ outcome = "open"
  /\ sent = <<>> \/ Restarts
  /\ Len(sent) < MaxRequests
  /\ LET choice == Preferred(list, NoAlg)
     IN  \/ Keeps(list) /\ Build(client)
         \/ ~Keeps(list) /\ \E a \in choice : Build(Apply(client, a))
         \/ ~Keeps(list) /\ choice = {} /\ Fail /\ UNCHANGED client
  /\ UNCHANGED <<configVars, errors, replies>>

\* Slip: without an acceptable algorithm the error is passed over.
TryAgain_NeverGivesUp(e) ==
  /\ outcome = "open" /\ sent # <<>>
  /\ StaleDelivery \/ e.nonce = Len(sent)
  /\ Len(sent) < MaxRequests
  /\ e.typed
  /\ \E a \in Preferred(e.list, client.kex) : Build(Apply(client, a))
  /\ UNCHANGED <<configVars, errors, replies>>

\* tryagain(): typed data with a list selects another algorithm than the one
\* sent last; without an acceptable one, or without a list, PKINIT gives up.
TryAgain(e) ==
  /\ outcome = "open" /\ sent # <<>>
  /\ StaleDelivery \/ e.nonce = Len(sent)
  /\ Len(sent) < MaxRequests
  /\ LET choice == IF e.typed THEN Preferred(e.list, client.kex) ELSE {}
     IN  \/ \E a \in choice : Build(Apply(client, a))
         \/ choice = {} /\ Fail /\ UNCHANGED client
  /\ UNCHANGED <<configVars, errors, replies>>

\* libkrb5 ends the loop.
LoopLimit ==
  /\ outcome = "open" /\ Len(sent) = MaxRequests
  /\ \E e \in errors \cup ForeignErrors : e.nonce = Len(sent)
  /\ Fail
  /\ UNCHANGED <<configVars, client, errors, replies>>
-------------------------------------------------------------------------------
(* The KDC answers: verify() and return_padata() *)

\* Unverified, or not authorized for the principal: an error without a list.
Reject(k, n) ==
  /\ \/ ~kdcs[k].verifies
     \/ AcceptsAlg(kdcs[k], sent[n].alg) /\ ~kdcs[k].authorizes
  /\ errors' = errors \cup {Error(k, n, FALSE, <<>>)}
  /\ UNCHANGED replies

\* KDC_ERR_EPHEMERAL_KEY_PARAMS_NOT_ACCEPTED with the typed data.
Refuse(k, n) ==
  /\ kdcs[k].verifies /\ ~AcceptsAlg(kdcs[k], sent[n].alg)
  /\ errors' = errors \cup {Error(k, n, TRUE, Advertised(kdcs[k]))}
  /\ UNCHANGED replies

\* build_as_rep(): the KDC's own secret of this reply is named by the reply,
\* the nonce is the request's, the key is bound to the AS-REQ it answers.
Grant(k, n) ==
  /\ kdcs[k].verifies /\ AcceptsAlg(kdcs[k], sent[n].alg) /\ kdcs[k].authorizes
  /\ replies' = replies \cup {[kdc |-> k, nonce |-> n, alg |-> sent[n].alg,
                               key |-> sent[n].key]}
  /\ UNCHANGED errors

KdcStep(k, n) ==
  /\ outcome = "open"
  /\ Reject(k, n) \/ Refuse(k, n) \/ Grant(k, n)
  /\ UNCHANGED <<configVars, client, sent, outcome, agreed>>

\* The key build_as_rep() derived on the KDC's side of a reply.
Issued(r) == [alg |-> r.alg, key |-> r.key, kdc |-> r.kdc, asReq |-> r.nonce]
-------------------------------------------------------------------------------
(* The client processes an AS-REP *)

\* What the client derives with its own key pair for its own last request.
Derived(r, own) == [alg |-> own.alg, key |-> own, kdc |-> r.kdc,
                    asReq |-> Len(sent)]

Finish(good, result) ==
  /\ outcome' = IF good THEN "done" ELSE "failed"
  /\ agreed' = IF good THEN result ELSE NoResult

\* process_kem_rep(): the decapsulation key leaves the state in any case.
ProcessKemRep(r) ==
  /\ r.alg \in Kems
  /\ client' = [client EXCEPT !.kemKey = NoKey]
  /\ Finish(/\ client.kemKey # NoKey
            /\ config.pqCert => kdcs[r.kdc].pqSigner
            /\ kdcs[r.kdc].trusted
            /\ r.nonce = Len(sent)
            /\ r.alg = client.kemKey.alg,
            Derived(r, client.kemKey))

\* Slip: the nonce of the KDC's answer is not compared.
ProcessDhRep_AnyNonce(r) ==
  /\ r.alg \in Groups
  /\ Finish(/\ kdcs[r.kdc].trusted
            /\ client.dhKey # NoKey
            /\ r.alg = client.dhKey.alg,
            Derived(r, client.dhKey))
  /\ UNCHANGED client

\* process_dh_rep()
ProcessDhRep(r) ==
  /\ r.alg \in Groups
  /\ Finish(/\ kdcs[r.kdc].trusted
            /\ r.nonce = Len(sent)
            /\ client.dhKey # NoKey
            /\ r.alg = client.dhKey.alg,
            Derived(r, client.dhKey))
  /\ UNCHANGED client

\* process_as_rep(): the form of the reply decides.  Any failure ends PKINIT.
ProcessReply(r) ==
  /\ outcome = "open"
  /\ StaleDelivery \/ r.nonce = Len(sent)
  /\ ProcessKemRep(r) \/ ProcessDhRep(r)
  /\ UNCHANGED <<configVars, sent, errors, replies>>
-------------------------------------------------------------------------------
FirstHint == \E k \in Kdcs : sent = <<>> /\ Hint(Advertised(kdcs[k]))
AnswerLatest == \E k \in Kdcs : sent # <<>> /\ KdcStep(k, Len(sent))
Retry == \E e \in errors : TryAgain(e)
Receive == \E r \in replies : ProcessReply(r)

Next ==
  \/ \E k \in Kdcs : Hint(Advertised(kdcs[k]))
  \/ \E list \in ForeignLists \cup {<<>>} : Hint(list)
  \/ \E e \in errors \cup ForeignErrors : TryAgain(e)
  \/ LoopLimit
  \/ \E k \in Kdcs : \E n \in DOMAIN sent : KdcStep(k, n)
  \/ Receive

\* libkrb5 drives an exchange it has started: it hands over the hint, asks
\* again until a KDC answers, and passes on what it got.
Fairness ==
  /\ WF_vars(FirstHint) /\ WF_vars(AnswerLatest)
  /\ WF_vars(Retry) /\ WF_vars(LoopLimit) /\ WF_vars(Receive)

Spec == Init /\ [][Next]_vars
FairSpec == Spec /\ Fairness
-------------------------------------------------------------------------------
(* Properties *)

\* Every variable keeps its shape, and the key pairs the client holds belong to
\* the algorithms it has chosen, whatever it switched between.
TypeOK ==
  /\ config \in ClientConfig
  /\ kdcs \in [Kdcs -> KdcConfigs]
  /\ client \in ClientState
  /\ client.dhKey # NoKey => client.dhKey.alg = client.group
  /\ client.kemKey # NoKey => client.kemKey.alg = client.kem
  /\ sent \in Seq(Request) /\ Len(sent) <= MaxRequests
  /\ \A e \in errors : e.kdc \in Kdcs /\ e.nonce \in DOMAIN sent
  /\ \A r \in replies : r \in Reply /\ r.nonce \in DOMAIN sent
  /\ outcome \in {"open", "done", "failed"}
  /\ agreed \in ReplyKey \cup {NoResult}

\* No list a KDC sends, in a hint or in typed data, makes the client send a
\* request below its own policy: the configured floor, require_kem, no classic
\* DH from a PQ client configured for KEM, no MODP group below dh_min_bits
\* (accepts, recognize, kem_floor).
MeetsPolicy(a) ==
  /\ a \in Kems /\ Floor(config) # NoAlg => Strength[a] >= Strength[Floor(config)]
  /\ a \in Groups =>
       /\ ~config.requireKem
       /\ config.pqCert => Floor(config) = NoAlg
       /\ a \in Curves \cup {config.group} \/ Bits[a] >= config.minBits
NeverBelowPolicy == \A i \in DOMAIN sent : MeetsPolicy(sent[i].alg)

\* A client with a PQ certificate that has once sent a KEM key sends nothing
\* else for the rest of the exchange, though nothing but key_exchange, which
\* every change of algorithm resets, remembers it (dh_allowed).
NoFallBackAfterKem ==
  \A i, j \in DOMAIN sent :
    config.pqCert /\ i < j /\ sent[i].alg \in Kems => sent[j].alg \in Kems

\* No two requests share a KEM key pair, and the decapsulation key in the state
\* is the one of the latest request (build_as_req, process_kem_rep).
DecapsulationKeyIsFresh ==
  /\ \A i, j \in DOMAIN sent :
       i # j /\ sent[i].alg \in Kems => sent[i].key # sent[j].key
  /\ client.kemKey # NoKey /\ sent # <<>> =>
       client.kemKey = sent[Len(sent)].key

\* A client that finishes holds the very key a trusted KDC derived for its
\* latest request, by the algorithm it reports, PQ-signed if its own
\* certificate asks for that, whatever answers to earlier requests arrive late.
KeysAgree ==
  outcome = "done" =>
    \E r \in replies :
      /\ r.nonce = Len(sent)
      /\ agreed = Issued(r)
      /\ r.alg = client.kex
      /\ kdcs[r.kdc].trusted
      /\ config.pqCert /\ r.alg \in Kems => kdcs[r.kdc].pqSigner

\* A KDC refuses nothing that the typed data of the same refusal offers.
RefusalOffersAlternatives ==
  \A e \in errors :
    \A i \in DOMAIN e.list : /\ e.list[i] # sent[e.nonce].alg
                             /\ AcceptsAlg(kdcs[e.kdc], e.list[i])

\* What a client could get from a KDC's list, were it to start afresh.
Compatible(s) ==
  /\ s.verifies /\ s.authorizes /\ s.trusted
  /\ config.pqCert => s.pqSigner
  /\ \E i \in DOMAIN Advertised(s) :
       LET a == Advertised(s)[i]
       IN  MeetsPolicy(a) /\ (a \in Kems \cup Curves \/ Bits[a] >= config.minBits)

\* When the policies of both sides have an advertised algorithm in common, the
\* exchange ends in a reply key, also when the client saw no hint and guessed.
Converges == (\A k \in Kdcs : Compatible(kdcs[k])) => <>(outcome = "done")

\* Every exchange ends, in a key or in a failure.
Ends == <>(outcome # "open")

\* "every key-establishment algorithm this KDC accepts [...] omitting an
\* accepted algorithm [...] would turn such clients away" (server.rs:73): a
\* client whose attempt ends at the hint had nothing to offer the KDC.
HintTurnsNobodyAway ==
  outcome = "failed" /\ sent = <<>> =>
    \A k \in Kdcs, a \in Algs : AcceptsAlg(kdcs[k], a) => ~Accepts(a)
===============================================================================
