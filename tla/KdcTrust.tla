------------------------------- MODULE KdcTrust --------------------------------
(***************************************************************************)
(* The client's verdict on a KDC, composed with the trust broker.          *)
(*                                                                         *)
(* process_as_rep (client.rs) verifies the signed reply, then calls        *)
(* validate_kdc_chain: the configured anchors first, the broker only where *)
(* they fail, EKU and SAN in every case, after the broker has decided.     *)
(* The call to the broker blocks the exchange; the daemon, other callers,  *)
(* the user and the clock go on, and the daemon may die under it.          *)
(*                                                                         *)
(*   idle --CheckConfigured--> accepted | a refusal                        *)
(*     \----AskBroker--> asking --Hear, BrokerFails--> the same        *)
(***************************************************************************)
EXTENDS TrustBroker, CertAuth

CONSTANTS
  Clients,         \* the connections that belong to PKINIT clients
  Leaf,            \* the signer's certificate of each chain, as CertAuth reads it
  Anchored,        \* the chains that lead to an anchor of the client's own store
  Tofu,            \* pkinit_kdc_trust: a broker is installed
  Checks           \* the replies clients may have to verify

\* The plug-in encodes what it sends, so a client's chain always decodes.
Replies == {ch \in Chains : ch.decodes}

\* A KDC reply under verification: the chain, the KDC principal the caller
\* set ({} if none), whether the exchange is anonymous.
Check == [chain : Replies, kdc : {{}} \cup {{r} : r \in Realms},
          anonymous : BOOLEAN]

\* A realm's name also stands for its KDC principal krbtgt/REALM@REALM.
ASSUME KdcTrustAssumption ==
  /\ Clients \subseteq Conns
  /\ Realms \subseteq Names
  /\ Leaf \in [Chains -> Certificate]
  /\ Anchored \subseteq Chains
  /\ Tofu \in BOOLEAN
  /\ Checks \subseteq Check

Outcomes == {"none", "asking", "accepted", "ChainValidationFailed",
             "KdcCaTrustDenied", "KdcCaTrustUnknown", "Config",
             "EkuMismatch", "SanMismatch", "Asn1"}

NoCheck == {}

VARIABLES
  check,     \* per client: the reply it verifies or has verified last
  outcome,   \* per client: what validate_kdc_chain returned
  consented  \* history: the realms and CAs users have said yes to

clientVars == <<check, outcome>>
kdcVars == <<vars, clientVars, consented>>

-------------------------------------------------------------------------------
\* EKU, then SAN where the KDC principal is known: the last step of every path.
\* The plug-in never sets a host name.
NameChecks(k) ==
  IF VerifyKdcEku(Leaf[k.chain]) # "Authorized"
  THEN IF VerifyKdcEku(Leaf[k.chain]) = "Error" THEN "Asn1" ELSE "EkuMismatch"
  ELSE LET sans == {VerifyKdcSan(Leaf[k.chain], r, {}) : r \in k.kdc} IN
       IF "Error" \in sans THEN "Asn1"
       ELSE IF "Rejected" \in sans THEN "SanMismatch"
       ELSE "accepted"

Settle(c, result) == outcome' = [outcome EXCEPT ![c] = result]

Verify(c, k) ==
  /\ outcome[c] # "asking"
  /\ check' = [check EXCEPT ![c] = {k}]

\* The configured anchors vouch for the chain: nobody else is asked.
CheckConfigured(c, k) ==
  /\ Verify(c, k)
  /\ k.chain \in Anchored
  /\ Settle(c, NameChecks(k))
  /\ UNCHANGED <<vars, consented>>

\* No broker, or no realm to ask it about: the anchors' own error.
CheckUnanchored(c, k) ==
  /\ Verify(c, k)
  /\ k.chain \notin Anchored
  /\ ~Tofu \/ k.kdc = {}
  /\ Settle(c, "ChainValidationFailed")
  /\ UNCHANGED <<vars, consented>>

\* Slip: the broker is asked first and the anchors only where it refuses.
AskBroker_First(c, k) ==
  /\ Verify(c, k)
  /\ Tofu
  /\ \E realm \in k.kdc :
       Ask(c, [realm |-> realm, chain |-> k.chain, interactive |-> k.anonymous])
  /\ Settle(c, "asking")
  /\ UNCHANGED consented

\* Slip: the user may be asked in every exchange, not only an anonymous one.
AskBroker_AlwaysInteractive(c, k) ==
  /\ Verify(c, k)
  /\ k.chain \notin Anchored /\ Tofu
  /\ \E realm \in k.kdc :
       Ask(c, [realm |-> realm, chain |-> k.chain, interactive |-> TRUE])
  /\ Settle(c, "asking")
  /\ UNCHANGED consented

AskBroker(c, k) ==
  /\ Verify(c, k)
  /\ k.chain \notin Anchored /\ Tofu
  /\ \E realm \in k.kdc :
       Ask(c, [realm |-> realm, chain |-> k.chain, interactive |-> k.anonymous])
  /\ Settle(c, "asking")
  /\ UNCHANGED consented

\* Nobody listens on the socket: connect fails.
BrokerUnreachable(c, k) ==
  /\ Verify(c, k)
  /\ k.chain \notin Anchored /\ Tofu /\ k.kdc # {}
  /\ phase = "down"
  /\ Settle(c, "Config")
  /\ UNCHANGED <<vars, consented>>

\* validate_broker_anchors: the approved CA must carry the chain by the rules
\* for CAs, at the time of the client's own check.
CarriesChain(anchors, ch) == anchors # {} /\ anchors \subseteq ch.valid

\* Slip: the first anchor set that comes back is believed.
Heard_AnyReply(k, r) ==
  IF r.decision = "InvalidRequest" THEN "Config"
  ELSE NameChecks(k)

\* Slip: a refusal is passed on as the broker names it.
Heard_Verbatim(k, r) ==
  IF r.decision # "Trusted" THEN r.decision
  ELSE IF CarriesChain(r.anchors, k.chain) THEN NameChecks(k)
  ELSE "KdcCaTrustDenied"

\* What the client makes of the broker's reply to the check k.
Heard(k, r) ==
  IF r.decision = "Trusted"
  THEN IF CarriesChain(r.anchors, k.chain) THEN NameChecks(k)
       ELSE "KdcCaTrustDenied"
  ELSE IF r.decision = "Denied" THEN "KdcCaTrustDenied"
  ELSE IF r.decision = "Unknown" THEN "KdcCaTrustUnknown"
  ELSE "Config"

\* The reply arrived in time.  A certificate may lapse between the broker's
\* look at the chain and the client's.
Hear(c) ==
  /\ outcome[c] = "asking" /\ status[c] = "done"
  /\ \E k \in check[c], r \in answer[c] :
       \/ Settle(c, Heard(k, r))
       \/ r.decision = "Trusted" /\ Settle(c, "KdcCaTrustDenied")
  /\ UNCHANGED <<vars, check, consented>>

\* The timer fired, or the connection broke with the daemon.
BrokerFails(c) ==
  /\ outcome[c] = "asking" /\ status[c] \in {"gone", "idle"}
  /\ Settle(c, "Config")
  /\ UNCHANGED <<vars, check, consented>>
-------------------------------------------------------------------------------
KdcInit ==
  /\ Init
  /\ check = [c \in Clients |-> NoCheck]
  /\ outcome = [c \in Clients |-> "none"]
  /\ consented = {}

Client(c) ==
  \/ \E k \in Checks : \/ CheckConfigured(c, k)
                       \/ CheckUnanchored(c, k)
                       \/ AskBroker(c, k)
                       \/ BrokerUnreachable(c, k)
  \/ Hear(c)
  \/ BrokerFails(c)

\* Approve, and what it says yes to.
UserConsents ==
  /\ \E ttl \in Ttls \cup {Forever} : Approve(ttl)
  /\ consented' = consented \cup
       {<<request[job].realm, ca>> : ca \in SelectCA(request[job].chain)}
  /\ UNCHANGED clientVars

\* Everything else of the broker and around it; calls that are no client's.
Surroundings ==
  /\ \/ \E c \in Conns : Serve(c)
     \/ DenyPrompt \/ Truncate \/ Write \/ Deliver
     \/ Start \/ Crash \/ Tick
     \/ \E c \in Conns : GiveUp(c)
     \/ \E c \in Conns \ Clients, req \in Request : Ask(c, req)
  /\ UNCHANGED <<clientVars, consented>>

KdcNext ==
  \/ \E c \in Clients : Client(c)
  \/ UserConsents
  \/ Surroundings

KdcSpec == KdcInit /\ [][KdcNext]_kdcVars
-------------------------------------------------------------------------------
(* Properties *)

\* The client's records keep their shape.
KdcTypeOK ==
  /\ check \in [Clients -> {NoCheck} \cup {{k} : k \in Checks}]
  /\ outcome \in [Clients -> Outcomes]
  /\ consented \subseteq Realms \X Certs

\* A reply that the client's own anchors do not vouch for is accepted only
\* under a CA a user has said yes to for this very realm, which the reply
\* presented, which carries its chain and is not its signer: across timeouts,
\* crashes of the broker and answers to other calls (validate_kdc_chain).
AcceptedUnderGrant ==
  \A c \in Clients : outcome[c] = "accepted" =>
    \A k \in check[c] :
      \/ k.chain \in Anchored
      \/ \E realm \in k.kdc, ca \in SelectCA(k.chain) :
           <<realm, ca>> \in consented /\ ca # k.chain.signer

\* Where the configured anchors vouch for the chain the broker has no say: no
\* pin, no refusal, no dead daemon turns such a reply away.
BrokerNeverOverrulesAnchors ==
  \A c \in Clients : \A k \in check[c] :
    k.chain \in Anchored =>
      /\ outcome[c] = NameChecks(k)
      /\ request[c] # NoCall => status[c] = "gone"

\* The trust a client's exchange adds is that exchange's: when the user says
\* yes, the client that is blocked in the call runs an anonymous exchange
\* with the pinned realm, and its reply presents the pinned CA.
PinIsOfTheAnonymousExchange ==
  [][\A p \in pins' \ pins :
       (Asking /\ job \in Clients /\ outcome[job] = "asking") =>
         \A k \in check[job] : /\ k.anonymous /\ k.kdc = {p.realm}
                               /\ p.ca \in SelectCA(k.chain)
                               /\ k.chain \notin Anchored]_kdcVars
===============================================================================
