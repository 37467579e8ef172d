---------------------------- MODULE KdcTrustProofs -----------------------------
(***************************************************************************)
(* Proofs about KdcTrust for any realms, chains, clients and checks: the   *)
(* composition runs the broker as it is, and what a client accepts without *)
(* its own anchors was granted for that very realm.                        *)
(***************************************************************************)
EXTENDS KdcTrust, TrustBrokerProofs

\* Every pin in memory or in the file is one a user said yes to.
ConsentInv == \A p \in pins \cup disk : <<p.realm, p.ca>> \in consented

\* A client whose call is pending is blocked in it.
WaitInv == \A c \in Clients : status[c] = "waiting" => outcome[c] = "asking"

\* The reply's realm and CA have been consented to.
Vouched(k) ==
  \E realm \in k.kdc, ca \in SelectCA(k.chain) : <<realm, ca>> \in consented

\* What a blocked client has asked, and been told, is about its own check.
AskInv ==
  \A c \in Clients : outcome[c] = "asking" =>
    \A k \in check[c] :
      /\ k.chain \notin Anchored
      /\ request[c] # NoCall =>
           \E realm \in k.kdc :
             request[c] = [realm |-> realm, chain |-> k.chain,
                           interactive |-> k.anonymous]
      /\ \A r \in answer[c] : r.decision = "Trusted" => Vouched(k)

\* The inductive invariant, on top of the broker's.
KInv ==
  /\ KdcTypeOK
  /\ ConsentInv
  /\ WaitInv
  /\ AskInv
  /\ AcceptedUnderGrant
  /\ BrokerNeverOverrulesAnchors
-------------------------------------------------------------------------------
(* The broker inside the composition *)

\* What a client sends is a request as the broker knows them.
LEMMA CallOfCheck ==
  ASSUME NEW k \in Checks, NEW realm \in k.kdc
  PROVE  [realm |-> realm, chain |-> k.chain, interactive |-> k.anonymous]
           \in Request
  <1>1. k \in Check
    BY KdcTrustAssumption
  <1>2. realm \in Realms /\ k.chain \in Chains /\ k.anonymous \in BOOLEAN
    BY <1>1 DEF Check, Replies
  <1>3. QED
    BY <1>2 DEF Request

\* Every step of the composition is a step of the broker or none.
LEMMA KdcStep == [KdcNext]_kdcVars => [Next]_vars
  <1>1. ASSUME NEW c \in Clients, NEW k \in Checks, AskBroker(c, k)
        PROVE  Next
    <2>1. PICK realm \in k.kdc :
            Ask(c, [realm |-> realm, chain |-> k.chain,
                    interactive |-> k.anonymous])
      BY <1>1 DEF AskBroker
    <2>2. QED
      BY <2>1, CallOfCheck, KdcTrustAssumption DEF Next, Environment
  <1>2. ASSUME NEW c \in Clients, NEW k \in Checks,
               \/ CheckConfigured(c, k) \/ CheckUnanchored(c, k)
               \/ BrokerUnreachable(c, k) \/ Hear(c) \/ BrokerFails(c)
        PROVE  UNCHANGED vars
    BY <1>2 DEF CheckConfigured, CheckUnanchored, BrokerUnreachable, Hear,
                BrokerFails
  <1>3. ASSUME NEW c \in Clients, Hear(c) \/ BrokerFails(c)
        PROVE  UNCHANGED vars
    BY <1>3 DEF Hear, BrokerFails
  <1>4. UserConsents \/ Surroundings => Next
    BY DEF UserConsents, Surroundings, Next, Daemon, Environment
  <1>5. QED
    BY <1>1, <1>2, <1>3, <1>4 DEF KdcNext, Client, kdcVars

\* The clients' checks show the broker nothing new: whatever was proved about
\* the broker holds of the composition (validate_kdc_chain only calls it).
THEOREM KdcRunsTheBroker == KdcSpec => Spec
  <1>1. KdcInit => Init
    BY DEF KdcInit
  <1>2. QED
    BY <1>1, KdcStep, PTL DEF KdcSpec, Spec

\* The broker's invariant in the composition, in both states of a step.
LEMMA BrokerInvariance == KdcSpec => []IInv
  BY KdcRunsTheBroker, Invariance, PTL
-------------------------------------------------------------------------------
(* Initial states and the clients' steps *)

LEMMA InitKInv == KdcInit => KInv
  <1> SUFFICES ASSUME KdcInit
               PROVE  KInv
    OBVIOUS
  <1> USE DEF KdcInit, Init, NoCheck
  <1>1. KdcTypeOK
    BY DEF KdcTypeOK, Outcomes
  <1>2. ConsentInv /\ AskInv /\ AcceptedUnderGrant /\ BrokerNeverOverrulesAnchors
    BY DEF ConsentInv, AskInv, AcceptedUnderGrant, BrokerNeverOverrulesAnchors
  <1>3. WaitInv
    BY KdcTrustAssumption DEF WaitInv
  <1>4. QED
    BY <1>1, <1>2, <1>3 DEF KInv

LEMMA NameChecksResult ==
  ASSUME NEW k
  PROVE  NameChecks(k) \in {"accepted", "EkuMismatch", "SanMismatch", "Asn1"}
  BY DEF NameChecks

\* What the client hears ends its call, and it accepts only what is trusted.
LEMMA HeardResult ==
  ASSUME NEW k, NEW r
  PROVE  /\ Heard(k, r) \in Outcomes \ {"asking"}
         /\ Heard(k, r) = "accepted" => r.decision = "Trusted"
  BY NameChecksResult DEF Heard, Outcomes

\* A verdict of the client's own is about the check it has just begun.
LEMMA OwnVerdictKInv ==
  ASSUME KInv, JobInv, NEW c \in Clients, NEW k \in Checks, Verify(c, k),
         NEW result \in Outcomes \ {"asking"}, Settle(c, result),
         result = "accepted" => k.chain \in Anchored,
         k.chain \in Anchored => result = NameChecks(k),
         UNCHANGED <<vars, consented>>
  PROVE  KInv'
  <1>1. /\ outcome' \in [Clients -> Outcomes]
        /\ outcome'[c] = result
        /\ \A d \in Clients \ {c} : outcome'[d] = outcome[d]
    BY DEF KInv, KdcTypeOK, Settle
  <1>2. /\ check' \in [Clients -> {NoCheck} \cup {{j} : j \in Checks}]
        /\ check'[c] = {k}
        /\ \A d \in Clients \ {c} : check'[d] = check[d]
    BY DEF KInv, KdcTypeOK, Verify
  <1>3. outcome[c] # "asking"
    BY DEF Verify
  <1>4. KdcTypeOK' /\ ConsentInv'
    BY <1>1, <1>2 DEF KInv, KdcTypeOK, ConsentInv, vars
  <1>5. WaitInv'
    BY <1>1, <1>3 DEF KInv, WaitInv, vars, connVars
  <1>6. AskInv'
    BY <1>1, <1>2 DEF KInv, AskInv, Vouched, vars, connVars
  <1>7. AcceptedUnderGrant'
    BY <1>1, <1>2 DEF KInv, AcceptedUnderGrant
  <1>8. BrokerNeverOverrulesAnchors'
    <2>1. request[c] # NoCall => status[c] = "gone"
      BY <1>3, KdcTrustAssumption DEF KInv, WaitInv, JobInv
    <2>2. NameChecks(k)' = NameChecks(k)
      OBVIOUS
    <2>3. QED
      BY <1>1, <1>2, <2>1 DEF KInv, BrokerNeverOverrulesAnchors, vars, connVars
  <1>9. QED
    BY <1>4, <1>5, <1>6, <1>7, <1>8 DEF KInv

\* A call to the broker asks about the check it was made for.
LEMMA AskBrokerKInv ==
  ASSUME KInv, TypeOK, NEW c \in Clients, NEW k \in Checks, AskBroker(c, k)
  PROVE  KInv'
  <1>1. PICK realm \in k.kdc :
          Ask(c, [realm |-> realm, chain |-> k.chain, interactive |-> k.anonymous])
    BY DEF AskBroker
  <1> DEFINE call == [realm |-> realm, chain |-> k.chain,
                      interactive |-> k.anonymous]
  <1>2. /\ outcome' = [outcome EXCEPT ![c] = "asking"]
        /\ check' = [check EXCEPT ![c] = {k}]
        /\ k.chain \notin Anchored
        /\ UNCHANGED <<consented, pins, disk>>
    BY <1>1 DEF AskBroker, Verify, Settle, Ask
  <1>3. /\ status' = [status EXCEPT ![c] = "waiting"]
        /\ request' = [request EXCEPT ![c] = call]
        /\ answer' = [answer EXCEPT ![c] = {}]
    BY <1>1 DEF Ask
  <1> HIDE DEF call
  <1>4. /\ outcome'[c] = "asking" /\ check'[c] = {k}
        /\ request'[c] = call /\ answer'[c] = {}
        /\ \A d \in Clients \ {c} :
             /\ outcome'[d] = outcome[d] /\ check'[d] = check[d]
             /\ status'[d] = status[d] /\ request'[d] = request[d]
             /\ answer'[d] = answer[d]
    BY <1>2, <1>3, KdcTrustAssumption DEF KInv, KdcTypeOK, TypeOK
  <1>5. KdcTypeOK' /\ ConsentInv'
    BY <1>2 DEF KInv, KdcTypeOK, ConsentInv, Outcomes
  <1>6. WaitInv'
    BY <1>4 DEF KInv, WaitInv
  <1>7. AskInv'
    <2>1. ASSUME NEW d \in Clients \ {c}, outcome'[d] = "asking", NEW j \in check'[d]
          PROVE  /\ j.chain \notin Anchored
                 /\ request'[d] # NoCall =>
                      \E r \in j.kdc :
                        request'[d] = [realm |-> r, chain |-> j.chain,
                                       interactive |-> j.anonymous]
                 /\ \A r \in answer'[d] : r.decision = "Trusted" => Vouched(j)'
      BY <1>2, <1>4, <2>1 DEF KInv, AskInv, Vouched
    <2>2. \E r \in k.kdc :
            request'[c] = [realm |-> r, chain |-> k.chain,
                           interactive |-> k.anonymous]
      BY <1>4 DEF call
    <2>3. QED
      BY <1>2, <1>4, <2>1, <2>2, ZenonT(30) DEF AskInv
  <1>8. AcceptedUnderGrant'
    BY <1>2, <1>4 DEF KInv, AcceptedUnderGrant
  <1>9. BrokerNeverOverrulesAnchors'
    <2>1. \A j : NameChecks(j)' = NameChecks(j)
      OBVIOUS
    <2>2. QED
      BY <1>2, <1>4, <2>1 DEF KInv, BrokerNeverOverrulesAnchors
  <1>10. QED
    BY <1>5, <1>6, <1>7, <1>8, <1>9 DEF KInv

\* select_ca never put up the signer.
LEMMA VouchedIsNotSigner ==
  ASSUME NEW k \in Checks, Vouched(k)
  PROVE  \E realm \in k.kdc, ca \in SelectCA(k.chain) :
           <<realm, ca>> \in consented /\ ca # k.chain.signer
  <1>1. k.chain \in Chains
    BY KdcTrustAssumption DEF Check, Replies
  <1>2. SelectCA(k.chain) \subseteq Certs \ {k.chain.signer}
    BY <1>1, SelectCAType
  <1>3. QED
    BY <1>2 DEF Vouched

\* A verdict after a call accepts what the answer vouches for.
LEMMA HeardVerdictKInv ==
  ASSUME KInv, NEW c \in Clients, outcome[c] = "asking", status[c] # "waiting",
         NEW result \in Outcomes \ {"asking"}, Settle(c, result),
         result = "accepted" => \A k \in check[c] : Vouched(k),
         UNCHANGED <<vars, check, consented>>
  PROVE  KInv'
  <1>1. /\ outcome' \in [Clients -> Outcomes]
        /\ outcome'[c] = result
        /\ \A d \in Clients \ {c} : outcome'[d] = outcome[d]
    BY DEF KInv, KdcTypeOK, Settle
  <1>2. \A d \in Clients : \A k \in check[d] : k \in Checks
    BY DEF KInv, KdcTypeOK, NoCheck
  <1>3. KdcTypeOK' /\ ConsentInv'
    BY <1>1 DEF KInv, KdcTypeOK, ConsentInv, vars
  <1>4. WaitInv'
    BY <1>1 DEF KInv, WaitInv, vars, connVars
  <1>5. AskInv'
    BY <1>1 DEF KInv, AskInv, Vouched, vars, connVars
  <1>6. AcceptedUnderGrant'
    BY <1>1, <1>2, VouchedIsNotSigner DEF KInv, AcceptedUnderGrant
  <1>7. BrokerNeverOverrulesAnchors'
    <2>1. \A k : NameChecks(k)' = NameChecks(k)
      OBVIOUS
    <2>2. \A k \in check[c] : k.chain \notin Anchored
      BY DEF KInv, AskInv
    <2>3. QED
      BY <1>1, <2>1, <2>2
         DEF KInv, BrokerNeverOverrulesAnchors, vars, connVars
  <1>8. QED
    BY <1>3, <1>4, <1>5, <1>6, <1>7 DEF KInv

LEMMA HearKInv == ASSUME KInv, NEW c \in Clients, Hear(c) PROVE KInv'
  <1>1. PICK k \in check[c], r \in answer[c] :
          \/ Settle(c, Heard(k, r))
          \/ r.decision = "Trusted" /\ Settle(c, "KdcCaTrustDenied")
    BY DEF Hear
  <1>2. check[c] = {k}
    BY DEF KInv, KdcTypeOK, NoCheck
  <1>3. /\ outcome[c] = "asking" /\ status[c] # "waiting"
        /\ UNCHANGED <<vars, check, consented>>
    BY DEF Hear
  <1>4. CASE Settle(c, Heard(k, r))
    <2>1. r.decision = "Trusted" => Vouched(k)
      BY <1>3 DEF KInv, AskInv
    <2>2. Heard(k, r) = "accepted" => \A j \in check[c] : Vouched(j)
      BY <1>2, <2>1, HeardResult
    <2>3. QED
      BY <1>3, <1>4, <2>2, HeardResult, HeardVerdictKInv
  <1>5. CASE Settle(c, "KdcCaTrustDenied")
    <2>1. "KdcCaTrustDenied" \in Outcomes \ {"asking"}
      BY DEF Outcomes
    <2>2. QED
      BY <1>3, <1>5, <2>1, HeardVerdictKInv
  <1>6. QED
    BY <1>1, <1>4, <1>5

LEMMA BrokerFailsKInv == ASSUME KInv, NEW c \in Clients, BrokerFails(c) PROVE KInv'
  <1>1. /\ outcome[c] = "asking" /\ status[c] # "waiting"
        /\ Settle(c, "Config") /\ UNCHANGED <<vars, check, consented>>
    BY DEF BrokerFails
  <1>2. "Config" \in Outcomes \ {"asking"}
    BY DEF Outcomes
  <1>3. QED
    BY <1>1, <1>2, HeardVerdictKInv
-------------------------------------------------------------------------------
(* The broker's steps, the user's and the other callers' *)

\* What a step of the broker, or around it, may do to a client's call: it ends,
\* its caller gives up, or it is answered with the reply that decide() prepared.
CallsMoveOn ==
  \A c \in Clients :
    /\ status'[c] = "waiting" => status[c] = "waiting"
    /\ request'[c] # NoCall =>
         request'[c] = request[c] /\ status'[c] \in {status[c], "gone"}
    /\ \/ answer'[c] = answer[c]
       \/ c = job /\ answer'[c] = reply

\* A trusted reply is about the call it is for, and a pin stands behind it.
LEMMA ReplyIsVouched ==
  ASSUME IInv, ConsentInv, NEW c \in Clients, c = job,
         NEW r \in reply, r.decision = "Trusted"
  PROVE  /\ request[c] # NoCall
         /\ \E ca \in SelectCA(request[c].chain) :
              <<request[c].realm, ca>> \in consented
  <1>1. PICK ca \in Certs : reply = Trusted(ca)
    <2>1. reply \in Reply
      BY DEF IInv, TypeOK
    <2>2. reply \notin {Denied, Unknown, InvalidRequest, {}}
      BY DEF Denied, Unknown, InvalidRequest, Answer
    <2>3. QED
      BY <2>1, <2>2 DEF Reply
  <1>2. request[c] # NoCall
    BY KdcTrustAssumption, ConstantsAssumption DEF IInv, JobInv
  <1>3. PICK p \in pins : p.realm = request[job].realm /\ p.ca = ca
    BY <1>1 DEF IInv, TrustedReplyMatchesPin
  <1>4. ca \in SelectCA(request[job].chain)
    BY <1>1 DEF IInv, TrustedReplyMatchesPin
  <1>5. <<p.realm, p.ca>> \in consented
    BY DEF ConsentInv
  <1>6. QED
    BY <1>2, <1>3, <1>4, <1>5

LEMMA BrokerStepKInv ==
  ASSUME KInv, IInv, CallsMoveOn, UNCHANGED clientVars,
         consented \subseteq consented', consented' \subseteq Realms \X Certs,
         \A p \in pins' \cup disk' :
           p \in pins \cup disk \/ <<p.realm, p.ca>> \in consented'
  PROVE  KInv'
  <1>1. KdcTypeOK' /\ ConsentInv'
    BY DEF KInv, KdcTypeOK, ConsentInv, clientVars
  <1>2. WaitInv'
    BY DEF KInv, WaitInv, clientVars, CallsMoveOn
  <1>3. AskInv'
    <2> SUFFICES ASSUME NEW c \in Clients, outcome'[c] = "asking", NEW k \in check'[c]
                 PROVE  /\ k.chain \notin Anchored
                        /\ request'[c] # NoCall =>
                             \E realm \in k.kdc :
                               request'[c] = [realm |-> realm, chain |-> k.chain,
                                              interactive |-> k.anonymous]
                        /\ \A r \in answer'[c] :
                             r.decision = "Trusted" => Vouched(k)'
      BY DEF AskInv
    <2>1. outcome[c] = "asking" /\ k \in check[c]
      BY DEF clientVars
    <2>2. /\ k.chain \notin Anchored
          /\ request[c] # NoCall =>
               \E realm \in k.kdc :
                 request[c] = [realm |-> realm, chain |-> k.chain,
                               interactive |-> k.anonymous]
          /\ \A r \in answer[c] : r.decision = "Trusted" => Vouched(k)
      BY <2>1 DEF KInv, AskInv
    <2>3. Vouched(k) => Vouched(k)'
      BY DEF Vouched
    <2>4. ASSUME NEW r \in answer'[c], r.decision = "Trusted"
          PROVE  Vouched(k)'
      <3>1. CASE answer'[c] = answer[c]
        BY <2>2, <2>3, <2>4, <3>1
      <3>2. CASE c = job /\ answer'[c] = reply
        <4>1. /\ request[c] # NoCall
              /\ \E ca \in SelectCA(request[c].chain) :
                   <<request[c].realm, ca>> \in consented
          BY <2>4, <3>2, ReplyIsVouched DEF KInv
        <4>2. PICK realm \in k.kdc :
                request[c] = [realm |-> realm, chain |-> k.chain,
                              interactive |-> k.anonymous]
          BY <2>2, <4>1
        <4>3. request[c].realm = realm /\ request[c].chain = k.chain
          BY <4>2
        <4>4. Vouched(k)
          BY <4>1, <4>3 DEF Vouched
        <4>5. QED
          BY <2>3, <4>4
      <3>3. QED
        BY <3>1, <3>2 DEF CallsMoveOn
    <2>5. QED
      BY <2>2, <2>4 DEF CallsMoveOn
  <1>4. AcceptedUnderGrant'
    BY DEF KInv, AcceptedUnderGrant, clientVars
  <1>5. BrokerNeverOverrulesAnchors'
    <2>1. \A k : NameChecks(k)' = NameChecks(k)
      OBVIOUS
    <2>2. QED
      BY <2>1 DEF KInv, BrokerNeverOverrulesAnchors, clientVars, CallsMoveOn
  <1>6. QED
    BY <1>1, <1>2, <1>3, <1>4, <1>5 DEF KInv

\* Approving only records; the call it is for is open.
LEMMA UserConsentsKInv == KInv /\ IInv /\ UserConsents => KInv'
  <1> SUFFICES ASSUME KInv, IInv, UserConsents
               PROVE  KInv'
    OBVIOUS
  <1>1. PICK ttl \in Ttls \cup {Forever} : Approve(ttl)
    BY DEF UserConsents
  <1>2. /\ UNCHANGED clientVars
        /\ consented' = consented \cup
             {<<request[job].realm, ca>> : ca \in SelectCA(request[job].chain)}
    BY DEF UserConsents
  <1>3. UNCHANGED <<disk, status, request, answer>> /\ Asking
    BY <1>1 DEF Approve, connVars
  <1>4. job \in Conns /\ request[job].realm \in Realms /\ request[job].chain \in Chains
    <2>1. job \in Conns /\ status[job] \in {"waiting", "gone"}
      BY <1>3 DEF IInv, TypeOK, JobInv, Asking, Working
    <2>2. request[job] \in Request
      BY <2>1, TakenRequest DEF IInv
    <2>3. QED
      BY <2>1, <2>2 DEF Request
  <1>5. SelectCA(request[job].chain) \subseteq Certs
    BY <1>4, SelectCAType
  <1>6. consented \subseteq consented' /\ consented' \subseteq Realms \X Certs
    BY <1>2, <1>4, <1>5 DEF KInv, KdcTypeOK
  <1>7. PICK ca \in SelectCA(request[job].chain) :
          pins' = (pins \ PinsOf(pins, request[job].realm))
                    \cup {[realm |-> request[job].realm, ca |-> ca,
                           until |-> ExpiresAt(ttl, askedAt)]}
    BY <1>1 DEF Approve
  <1>8. \A p \in pins' \cup disk' :
          p \in pins \cup disk \/ <<p.realm, p.ca>> \in consented'
    BY <1>2, <1>3, <1>7
  <1>9. CallsMoveOn
    BY <1>3 DEF CallsMoveOn
  <1>10. QED
    BY <1>2, <1>6, <1>8, <1>9, BrokerStepKInv

\* Daemon, clock, crashes and other callers leave a client's call alone but for
\* answering or ending it.
LEMMA SurroundingsMoveOn ==
  ASSUME IInv, Surroundings
  PROVE  CallsMoveOn /\ pins' \cup disk' \subseteq pins \cup disk
  <1> USE KdcTrustAssumption
  <1>1. ASSUME NEW c \in Conns, Serve(c)
        PROVE  /\ UNCHANGED <<status, request, answer>>
               /\ pins' \subseteq pins /\ disk' = disk
    BY <1>1 DEF Serve, ServeUndecidable, ServeKnownRealm, ServeUnknownRealm,
                connVars
  <1>2. CASE DenyPrompt \/ Truncate \/ Write \/ Start \/ Tick
    BY <1>2 DEF DenyPrompt, Truncate, Write, Start, Tick, connVars, CallsMoveOn
  <1>3. CASE Deliver
    <2>1. /\ request' = [request EXCEPT ![job] = NoCall]
          /\ \/ /\ status' = [status EXCEPT ![job] = "done"]
                /\ answer' = [answer EXCEPT ![job] = reply]
             \/ /\ status' = [status EXCEPT ![job] = "idle"]
                /\ UNCHANGED answer
      BY <1>3 DEF Deliver
    <2>2. CallsMoveOn
      BY <2>1 DEF CallsMoveOn, IInv, TypeOK
    <2>3. QED
      BY <1>3, <2>2 DEF Deliver
  <1>4. CASE Crash
    <2>1. PICK lost \in SUBSET Conns :
            /\ status' = [c \in Conns |-> IF c \in lost THEN "idle" ELSE status[c]]
            /\ request' = [c \in Conns |-> IF c \in lost THEN NoCall
                                           ELSE request[c]]
            /\ UNCHANGED answer
      BY <1>4 DEF Crash
    <2>2. CallsMoveOn
      BY <2>1 DEF CallsMoveOn
    <2>3. QED
      BY <1>4, <2>2 DEF Crash
  <1>5. ASSUME NEW c \in Conns, GiveUp(c)
        PROVE  CallsMoveOn /\ UNCHANGED <<pins, disk>>
    BY <1>5 DEF GiveUp, CallsMoveOn, IInv, TypeOK
  <1>6. ASSUME NEW c \in Conns \ Clients, NEW req \in Request, Ask(c, req)
        PROVE  CallsMoveOn /\ UNCHANGED <<pins, disk>>
    BY <1>6 DEF Ask, CallsMoveOn, IInv, TypeOK
  <1>7. QED
    BY <1>1, <1>2, <1>3, <1>4, <1>5, <1>6 DEF Surroundings, CallsMoveOn

LEMMA SurroundingsKInv == KInv /\ IInv /\ Surroundings => KInv'
  <1> SUFFICES ASSUME KInv, IInv, Surroundings
               PROVE  KInv'
    OBVIOUS
  <1>1. UNCHANGED clientVars /\ consented' = consented
    BY DEF Surroundings
  <1>2. consented' \subseteq Realms \X Certs
    BY <1>1 DEF KInv, KdcTypeOK
  <1>3. QED
    BY <1>1, <1>2, SurroundingsMoveOn, BrokerStepKInv

LEMMA StutterKInv == KInv /\ UNCHANGED kdcVars => KInv'
  BY SMTT(30) DEF KInv, kdcVars, vars, connVars, clientVars, KdcTypeOK, ConsentInv,
         WaitInv, AskInv, Vouched, AcceptedUnderGrant,
         BrokerNeverOverrulesAnchors, NameChecks

LEMMA ClientKInv == ASSUME KInv, IInv, NEW c \in Clients, Client(c) PROVE KInv'
  <1> USE DEF Outcomes
  <1>1. JobInv /\ TypeOK
    BY DEF IInv
  <1>2. ASSUME NEW k \in Checks, CheckConfigured(c, k)
        PROVE  KInv'
    <2>1. NameChecks(k) \in Outcomes \ {"asking"}
      BY NameChecksResult
    <2>2. QED
      BY <1>1, <1>2, <2>1, OwnVerdictKInv DEF CheckConfigured
  <1>3. ASSUME NEW k \in Checks, CheckUnanchored(c, k)
        PROVE  KInv'
    <2>1. /\ Verify(c, k) /\ k.chain \notin Anchored
          /\ Settle(c, "ChainValidationFailed")
          /\ UNCHANGED <<vars, consented>>
      BY <1>3 DEF CheckUnanchored
    <2>2. QED
      BY <1>1, <2>1, OwnVerdictKInv
  <1>4. ASSUME NEW k \in Checks, BrokerUnreachable(c, k)
        PROVE  KInv'
    <2>1. /\ Verify(c, k) /\ k.chain \notin Anchored
          /\ Settle(c, "Config")
          /\ UNCHANGED <<vars, consented>>
      BY <1>4 DEF BrokerUnreachable
    <2>2. QED
      BY <1>1, <2>1, OwnVerdictKInv
  <1>5. QED
    BY <1>1, <1>2, <1>3, <1>4, AskBrokerKInv, HearKInv, BrokerFailsKInv DEF Client

LEMMA NextKInv == KInv /\ IInv /\ [KdcNext]_kdcVars => KInv'
  BY ClientKInv, UserConsentsKInv, SurroundingsKInv, StutterKInv DEF KdcNext
-------------------------------------------------------------------------------
(* Theorems *)

\* The invariant of the composition holds in every behaviour.
THEOREM KdcInvariance == KdcSpec => [](KInv /\ IInv)
  BY BrokerInvariance, InitKInv, NextKInv, PTL DEF KdcSpec

\* The clients' records keep their shape.
THEOREM KdcTypeCorrectness == KdcSpec => []KdcTypeOK
  <1>1. KInv => KdcTypeOK
    BY DEF KInv
  <1>2. QED
    BY <1>1, KdcInvariance, PTL

\* A reply the client's anchors do not vouch for is accepted only under a CA a
\* user has said yes to for its realm (validate_kdc_chain).
THEOREM AcceptanceNeedsAGrant == KdcSpec => []AcceptedUnderGrant
  <1>1. KInv => AcceptedUnderGrant
    BY DEF KInv
  <1>2. QED
    BY <1>1, KdcInvariance, PTL

\* Where the client's anchors vouch for the chain the broker has no say.
THEOREM AnchorsComeFirst == KdcSpec => []BrokerNeverOverrulesAnchors
  <1>1. KInv => BrokerNeverOverrulesAnchors
    BY DEF KInv
  <1>2. QED
    BY <1>1, KdcInvariance, PTL

\* Pins are added by an approval only.
LEMMA OnlyApprovalAddsWhileAsking ==
  ASSUME Asking, [Next]_vars, NEW p \in pins' \ pins
  PROVE  \E ttl \in Ttls \cup {Forever} : Approve(ttl)
  <1>1. ASSUME NEW c \in Conns, Serve(c)
        PROVE  FALSE
    BY <1>1 DEF Serve, ServeUndecidable, ServeKnownRealm, ServeUnknownRealm,
                Take, Asking
  <1>2. CASE DenyPrompt \/ Truncate \/ Write \/ Deliver \/ Start \/ Crash \/ Tick
    BY <1>2 DEF DenyPrompt, Truncate, Write, Deliver, Start, Crash, Tick, Asking
  <1>3. ASSUME NEW c \in Conns, NEW req, Ask(c, req) \/ GiveUp(c)
        PROVE  FALSE
    BY <1>3 DEF Ask, GiveUp
  <1>4. QED
    BY <1>1, <1>2, <1>3 DEF Next, Daemon, Environment, vars

\* The trust a client's exchange adds is that exchange's: the blocked client runs
\* an anonymous exchange with that realm, and presents that CA.
THEOREM PinsFollowTheExchange == KdcSpec => PinIsOfTheAnonymousExchange
  <1> DEFINE OfTheExchange ==
        \A p \in pins' \ pins :
          (Asking /\ job \in Clients /\ outcome[job] = "asking") =>
            \A k \in check[job] : /\ k.anonymous /\ k.kdc = {p.realm}
                                  /\ p.ca \in SelectCA(k.chain)
                                  /\ k.chain \notin Anchored
  <1>1. ASSUME KInv, IInv, [KdcNext]_kdcVars
        PROVE  OfTheExchange
    <2> SUFFICES ASSUME NEW p \in pins' \ pins, Asking, job \in Clients,
                        outcome[job] = "asking", NEW k \in check[job]
                 PROVE  /\ k.anonymous /\ k.kdc = {p.realm}
                        /\ p.ca \in SelectCA(k.chain)
                        /\ k.chain \notin Anchored
      OBVIOUS
    <2>1. PICK ttl \in Ttls \cup {Forever} : Approve(ttl)
      BY <1>1, KdcStep, OnlyApprovalAddsWhileAsking
    <2>2. p.realm = request[job].realm /\ p.ca \in SelectCA(request[job].chain)
      BY <2>1 DEF Approve
    <2>3. request[job].interactive
      BY <1>1 DEF IInv, PromptInv
    <2>4. request[job] # NoCall
      BY <1>1, KdcTrustAssumption DEF IInv, JobInv, Asking, Working
    <2>5. /\ k.chain \notin Anchored
          /\ \E realm \in k.kdc :
               request[job] = [realm |-> realm, chain |-> k.chain,
                               interactive |-> k.anonymous]
      BY <1>1, <2>4 DEF KInv, AskInv
    <2>6. PICK realm \in k.kdc :
            request[job] = [realm |-> realm, chain |-> k.chain,
                            interactive |-> k.anonymous]
      BY <2>5
    <2>7. /\ request[job].realm = realm /\ request[job].chain = k.chain
          /\ request[job].interactive = k.anonymous
      BY <2>6
    <2>8. k \in Check
      BY <1>1, KdcTrustAssumption DEF KInv, KdcTypeOK, NoCheck
    <2>9. k.kdc = {realm}
      BY <2>6, <2>8 DEF Check
    <2>10. QED
      BY <2>2, <2>3, <2>5, <2>7, <2>9
  <1>2. QED
    BY <1>1, KdcInvariance, PTL DEF KdcSpec, PinIsOfTheAnonymousExchange
===============================================================================
