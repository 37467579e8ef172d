-------------------------- MODULE TrustBrokerProofs ---------------------------
(***************************************************************************)
(* Proofs about TrustBroker for any realms, chains, callers and durations: *)
(* its invariants, who creates trust, and that every step of the broker is *)
(* a step of Tofu, the promise of trust on first use, or none.             *)
(***************************************************************************)
EXTENDS TrustBroker, TLAPS

Working == {"prompt", "notify", "truncate", "write", "reply"}

\* The connection the daemon works on is open, and only open connections carry
\* a request.
JobInv ==
  /\ phase \in Working <=> job # NoConn
  /\ job # NoConn => status[job] \in {"waiting", "gone"}
  /\ \A c \in Conns : status[c] \in {"waiting", "gone"} <=> request[c] # NoCall

\* While a prompt is open its realm has no pin, and the call may ask a human.
PromptInv ==
  Asking =>
    /\ request[job].interactive
    /\ PinsOf(pins, request[job].realm) = {}
    /\ reply = {}

\* A reply is prepared only while the daemon works.
ReplyInv == reply # {} => phase \in {"truncate", "write", "reply"}

\* The inductive invariant.
IInv ==
  /\ TypeOK
  /\ JobInv
  /\ PromptInv
  /\ ReplyInv
  /\ FileHoldsNoSupersededGrant
  /\ TrustedReplyMatchesPin
-------------------------------------------------------------------------------
(* Operators *)

\* select_ca returns presented certificates, never the signer's own.
LEMMA SelectCAType ==
  ASSUME NEW ch \in Chains
  PROVE  SelectCA(ch) \subseteq Certs \ {ch.signer}
  <1>1. ch \in Chain
    BY ConstantsAssumption
  <1>2. /\ ch.presented \in Seq(Certs)
        /\ \A i \in DOMAIN ch.presented : ch.presented[i] \in Certs
    BY <1>1 DEF Chain
  <1>3. QED
    BY <1>2 DEF SelectCA, Anchorable

\* A grant that lasts at t + 1 lasts at t.
LEMMA LiveIsDownwardClosed ==
  ASSUME NEW ps \in SUBSET Pin, NEW t \in Nat
  PROVE  LivePins(ps, t + 1) \subseteq LivePins(ps, t)
  <1> SUFFICES ASSUME NEW p \in ps, Live(p, t + 1)
               PROVE  Live(p, t)
    BY DEF LivePins
  <1>1. CASE p.until = Forever
    BY <1>1 DEF Live
  <1>2. CASE p.until # Forever
    <2>1. p.until \in Nat
      BY <1>2 DEF Pin
    <2>2. t + 1 < p.until
      BY <1>2 DEF Live
    <2>3. QED
      BY <2>1, <2>2 DEF Live
  <1>3. QED
    BY <1>1, <1>2

\* An expiry is a time or Forever.
LEMMA ExpiresAtType ==
  ASSUME NEW ttl \in Ttls \cup {Forever}, NEW t \in Nat
  PROVE  ExpiresAt(ttl, t) \in Nat \cup {Forever}
  BY ConstantsAssumption DEF ExpiresAt

\* An answer determines its decision and its anchors.
LEMMA AnswerInjective ==
  ASSUME NEW d, NEW A, NEW e, NEW B, Answer(d, A) = Answer(e, B)
  PROVE  d = e /\ A = B
  <1> DEFINE x == [decision |-> d, anchors |-> A]
             y == [decision |-> e, anchors |-> B]
  <1>1. x = y
    BY DEF Answer
  <1>2. x.decision = d /\ x.anchors = A /\ y.decision = e /\ y.anchors = B
    OBVIOUS
  <1>3. QED
    BY <1>1, <1>2

\* A "Trusted" reply says which CA it trusts, and it is no refusal.
LEMMA TrustedInjective ==
  /\ \A x, y : Trusted(x) = Trusted(y) => x = y
  /\ \A x : Trusted(x) \notin {{}, Denied, Unknown, InvalidRequest}
  <1>1. ASSUME NEW x, NEW y, Trusted(x) = Trusted(y)
        PROVE  x = y
    <2>1. {x} = {y}
      BY <1>1, AnswerInjective DEF Trusted
    <2>2. QED
      BY <2>1
  <1>2. ASSUME NEW x
        PROVE  Trusted(x) \notin {{}, Denied, Unknown, InvalidRequest}
    <2>1. Trusted(x) # {}
      BY DEF Trusted, Answer
    <2>2. Trusted(x) # Denied
      BY AnswerInjective DEF Trusted, Denied
    <2>3. Trusted(x) # Unknown
      BY AnswerInjective DEF Trusted, Unknown
    <2>4. Trusted(x) # InvalidRequest
      BY AnswerInjective DEF Trusted, InvalidRequest
    <2>5. QED
      BY <2>1, <2>2, <2>3, <2>4
  <1>3. QED
    BY <1>1, <1>2

\* Putting a pin in place of the realm's old one keeps the map a map.
LEMMA InsertKeepsMap ==
  ASSUME NEW ps \in SUBSET Pin, IsPinMap(ps), NEW pin \in Pin
  PROVE  IsPinMap((ps \ PinsOf(ps, pin.realm)) \cup {pin})
  BY DEF IsPinMap, PinsOf
-------------------------------------------------------------------------------
(* Initial states *)

LEMMA InitIInv == Init => IInv
  <1> SUFFICES ASSUME Init
               PROVE  IInv
    OBVIOUS
  <1> USE DEF Init
  <1>1. TypeOK
    BY ConstantsAssumption DEF TypeOK, IsPinMap, Reply
  <1>2. JobInv /\ PromptInv /\ ReplyInv
    BY DEF JobInv, PromptInv, Asking, ReplyInv, Working
  <1>3. FileHoldsNoSupersededGrant /\ TrustedReplyMatchesPin
    BY DEF FileHoldsNoSupersededGrant, TrustedReplyMatchesPin, Trusted, Answer
  <1>4. QED
    BY <1>1, <1>2, <1>3 DEF IInv

-------------------------------------------------------------------------------
(* Steps of the environment *)

LEMMA StartIInv == IInv /\ Start => IInv'
  <1> SUFFICES ASSUME IInv, Start
               PROVE  IInv'
    OBVIOUS
  <1> USE DEF IInv, Start, connVars
  <1>1. TypeOK'
    BY DEF TypeOK
  <1>2. JobInv' /\ PromptInv' /\ ReplyInv'
    BY DEF JobInv, PromptInv, Asking, ReplyInv, Working
  <1>3. FileHoldsNoSupersededGrant'
    BY DEF FileHoldsNoSupersededGrant, LivePins
  <1>4. TrustedReplyMatchesPin'
    BY DEF ReplyInv, TrustedReplyMatchesPin, Trusted, Answer
  <1>5. QED
    BY <1>1, <1>2, <1>3, <1>4

LEMMA CrashIInv == IInv /\ Crash => IInv'
  <1> SUFFICES ASSUME IInv, Crash
               PROVE  IInv'
    OBVIOUS
  <1> USE DEF IInv, Crash
  <1>1. TypeOK'
    BY ConstantsAssumption DEF TypeOK, IsPinMap, Reply
  <1>2. JobInv'
    BY DEF JobInv, Working, TypeOK
  <1>3. PromptInv' /\ ReplyInv'
    BY DEF PromptInv, Asking, ReplyInv
  <1>4. FileHoldsNoSupersededGrant' /\ TrustedReplyMatchesPin'
    BY DEF FileHoldsNoSupersededGrant, TrustedReplyMatchesPin, Trusted, Answer
  <1>5. QED
    BY <1>1, <1>2, <1>3, <1>4

LEMMA TickIInv == IInv /\ Tick => IInv'
  <1> SUFFICES ASSUME IInv, Tick
               PROVE  IInv'
    OBVIOUS
  <1> USE DEF IInv, Tick, daemonVars, connVars
  <1>1. TypeOK'
    BY ConstantsAssumption DEF TypeOK
  <1>2. JobInv' /\ PromptInv' /\ ReplyInv'
    BY DEF JobInv, PromptInv, Asking, ReplyInv
  <1>3. FileHoldsNoSupersededGrant'
    <2>1. disk \in SUBSET Pin /\ now \in Nat
      BY ConstantsAssumption DEF TypeOK
    <2>2. LivePins(disk, now + 1) \subseteq LivePins(disk, now)
      BY <2>1, LiveIsDownwardClosed
    <2>3. QED
      BY <2>2 DEF FileHoldsNoSupersededGrant
  <1>4. TrustedReplyMatchesPin'
    BY DEF TrustedReplyMatchesPin
  <1>5. QED
    BY <1>1, <1>2, <1>3, <1>4

LEMMA AskIInv == \A c \in Conns, req \in Request : IInv /\ Ask(c, req) => IInv'
  <1> SUFFICES ASSUME NEW c \in Conns, NEW req \in Request, IInv, Ask(c, req)
               PROVE  IInv'
    OBVIOUS
  <1> USE DEF IInv, Ask, daemonVars
  <1>1. TypeOK'
    BY DEF TypeOK, Reply
  <1>2. c # job /\ (job # NoConn => job \in Conns)
    BY ConstantsAssumption DEF JobInv, TypeOK
  <1>3. JobInv'
    BY <1>2, NoCallAssumption DEF JobInv, TypeOK
  <1>4. job # NoConn => request'[job] = request[job]
    BY <1>2 DEF TypeOK
  <1>5. PromptInv' /\ ReplyInv'
    BY <1>4 DEF PromptInv, Asking, ReplyInv, JobInv, Working, PinsOf
  <1>6. FileHoldsNoSupersededGrant'
    BY DEF FileHoldsNoSupersededGrant
  <1>7. TrustedReplyMatchesPin'
    BY <1>4 DEF TrustedReplyMatchesPin, ReplyInv, JobInv, Working, Trusted, Answer
  <1>8. QED
    BY <1>1, <1>3, <1>5, <1>6, <1>7

LEMMA GiveUpIInv == \A c \in Conns : IInv /\ GiveUp(c) => IInv'
  <1> SUFFICES ASSUME NEW c \in Conns, IInv, GiveUp(c)
               PROVE  IInv'
    OBVIOUS
  <1> USE DEF IInv, GiveUp, daemonVars
  <1>1. TypeOK'
    BY DEF TypeOK
  <1>2. JobInv'
    BY DEF JobInv, TypeOK
  <1>3. PromptInv' /\ ReplyInv'
    BY DEF PromptInv, Asking, ReplyInv
  <1>4. FileHoldsNoSupersededGrant' /\ TrustedReplyMatchesPin'
    BY DEF FileHoldsNoSupersededGrant, TrustedReplyMatchesPin
  <1>5. QED
    BY <1>1, <1>2, <1>3, <1>4
-------------------------------------------------------------------------------
(* Steps of decide() *)

\* A request the server can take is one.
LEMMA TakenRequest ==
  ASSUME TypeOK, JobInv, NEW c \in Conns, status[c] \in {"waiting", "gone"}
  PROVE  request[c] \in Request /\ request[c].chain \in Chains
  BY DEF TypeOK, JobInv, Request

\* Concluding at once with a reply, the pins unchanged.
LEMMA ConcludeIInv ==
  ASSUME IInv, NEW c \in Conns, Take(c), NEW r \in Reply, Conclude(r),
         UNCHANGED <<now, pins, disk, connVars>>,
         \A ca \in Certs : r = Trusted(ca) =>
           /\ ca \in SelectCA(request[c].chain)
           /\ \E p \in pins : p.realm = request[c].realm /\ p.ca = ca
  PROVE  IInv'
  <1> USE DEF IInv, Take, Conclude, connVars
  <1>1. TypeOK'
    BY DEF TypeOK
  <1>2. JobInv' /\ PromptInv' /\ ReplyInv'
    BY ConstantsAssumption DEF JobInv, PromptInv, Asking, ReplyInv, Working
  <1>3. FileHoldsNoSupersededGrant'
    BY DEF FileHoldsNoSupersededGrant
  <1>4. TrustedReplyMatchesPin'
    <2> SUFFICES ASSUME NEW ca \in Certs, r = Trusted(ca)
                 PROVE  /\ ca \in SelectCA(request[c].chain)
                        /\ ca # request[c].chain.signer
                        /\ \E p \in pins : p.realm = request[c].realm /\ p.ca = ca
      BY DEF TrustedReplyMatchesPin, Trusted, Answer
    <2>1. SelectCA(request[c].chain) \subseteq Certs \ {request[c].chain.signer}
      BY TakenRequest, SelectCAType
    <2>2. QED
      BY <2>1
  <1>5. QED
    BY <1>1, <1>2, <1>3, <1>4

\* Refusals are replies, and none of them is "Trusted".
LEMMA RefusalsAreNotTrust ==
  \A r \in {Denied, Unknown, InvalidRequest} :
    r \in Reply /\ \A ca \in Certs : r # Trusted(ca)
  BY TrustedInjective DEF Reply

LEMMA ServeUndecidableIInv ==
  \A c \in Conns : IInv /\ ServeUndecidable(c) => IInv'
  <1> SUFFICES ASSUME NEW c \in Conns, IInv, ServeUndecidable(c)
               PROVE  IInv'
    OBVIOUS
  <1>1. Take(c) /\ UNCHANGED <<now, pins, disk, connVars>>
    BY DEF ServeUndecidable
  <1>2. PICK r \in {Denied, InvalidRequest} : Conclude(r)
    BY DEF ServeUndecidable, Malformed, NoCA
  <1>3. QED
    BY <1>1, <1>2, ConcludeIInv, RefusalsAreNotTrust

LEMMA ServeKnownRealmIInv == \A c \in Conns : IInv /\ ServeKnownRealm(c) => IInv'
  <1> SUFFICES ASSUME NEW c \in Conns, IInv, ServeKnownRealm(c)
               PROVE  IInv'
    OBVIOUS
  <1>1. PICK ca \in SelectCA(request[c].chain),
             pin \in LivePins(PinsOf(pins, request[c].realm), now) :
          Conclude(IF pin.ca = ca THEN Trusted(pin.ca) ELSE Denied)
    BY DEF ServeKnownRealm
  <1>2. pin \in pins /\ pin.realm = request[c].realm
    BY DEF LivePins, PinsOf
  <1>3. CASE pin.ca # ca
    BY <1>1, <1>3, ConcludeIInv, RefusalsAreNotTrust DEF ServeKnownRealm
  <1>4. CASE pin.ca = ca
    <2>1. ca \in Certs
      BY <1>2, <1>4 DEF IInv, TypeOK, Pin
    <2>2. Trusted(ca) \in Reply
      BY <2>1 DEF Reply
    <2>3. \A x \in Certs : Trusted(ca) = Trusted(x) => x = ca
      BY TrustedInjective
    <2>4. Conclude(Trusted(ca))
      BY <1>1, <1>4
    <2>5. QED
      BY <1>1, <1>2, <1>4, <2>2, <2>3, <2>4, ConcludeIInv DEF ServeKnownRealm
  <1>5. QED
    BY <1>3, <1>4

\* Dropping the lapsed pin: the file's copy of it has lapsed as well.
LEMMA ServeUnknownRealmIInv ==
  \A c \in Conns : IInv /\ ServeUnknownRealm(c) => IInv'
  <1> SUFFICES ASSUME NEW c \in Conns, IInv, ServeUnknownRealm(c)
               PROVE  IInv'
    OBVIOUS
  <1> DEFINE realm == request[c].realm
  <1> USE DEF IInv, ServeUnknownRealm, Take, Conclude, Screens, connVars
  <1>1. request[c] \in Request
    BY TakenRequest
  <1>2. reply = {} /\ phase = "idle"
    BY DEF ReplyInv
  <1>3. TypeOK'
    <2>1. pins' \in SUBSET Pin /\ IsPinMap(pins')
      BY DEF TypeOK, IsPinMap
    <2>2. askedAt' \in 0..now'
      BY ConstantsAssumption DEF TypeOK
    <2>3. reply' \in Reply
      BY <1>2 DEF Reply
    <2>4. QED
      BY <2>1, <2>2, <2>3 DEF TypeOK
  <1>4. JobInv' /\ ReplyInv'
    BY <1>2, ConstantsAssumption DEF JobInv, ReplyInv, Working
  <1>5. PromptInv'
    BY <1>2 DEF PromptInv, Asking, PinsOf
  <1>6. FileHoldsNoSupersededGrant'
    <2>1. LivePins(disk, now) \subseteq pins
      BY <1>2 DEF FileHoldsNoSupersededGrant
    <2>2. \A p \in PinsOf(pins, realm) : ~Live(p, now)
      BY DEF LivePins
    <2>3. LivePins(disk, now) \cap PinsOf(pins, realm) = {}
      BY <2>2 DEF LivePins
    <2>4. QED
      BY <2>1, <2>3 DEF FileHoldsNoSupersededGrant
  <1>7. TrustedReplyMatchesPin'
    BY <1>2, TrustedInjective DEF TrustedReplyMatchesPin
  <1>8. QED
    BY <1>3, <1>4, <1>5, <1>6, <1>7
-------------------------------------------------------------------------------
(* Steps of the prompt, of persist() and of the answer *)

\* The new pin's realm had no pin, so the file holds no live grant of it either.
LEMMA ApproveIInv ==
  \A ttl \in Ttls \cup {Forever} : IInv /\ Approve(ttl) => IInv'
  <1> SUFFICES ASSUME NEW ttl \in Ttls \cup {Forever}, IInv, Approve(ttl)
               PROVE  IInv'
    OBVIOUS
  <1> USE DEF IInv, Approve, Asking, connVars
  <1>1. job \in Conns /\ request[job] \in Request /\ request[job].chain \in Chains
    BY TakenRequest DEF JobInv, TypeOK, Working
  <1> DEFINE realm == request[job].realm
  <1>2. PICK ca \in SelectCA(request[job].chain) :
          /\ pins' = (pins \ PinsOf(pins, realm))
                       \cup {[realm |-> realm, ca |-> ca,
                              until |-> ExpiresAt(ttl, askedAt)]}
          /\ reply' = Trusted(ca)
    OBVIOUS
  <1> DEFINE pin == [realm |-> realm, ca |-> ca, until |-> ExpiresAt(ttl, askedAt)]
  <1>3. ca \in Certs /\ ca # request[job].chain.signer
    BY <1>1, SelectCAType
  <1>4. pin \in Pin
    <2>1. askedAt \in Nat
      BY ConstantsAssumption DEF TypeOK
    <2>2. realm \in Realms
      BY <1>1 DEF Request
    <2>3. QED
      BY <1>3, <2>1, <2>2, ExpiresAtType DEF Pin
  <1>5. PinsOf(pins, realm) = {}
    BY DEF PromptInv, Asking
  <1>6. TypeOK'
    <2>1. pins' \in SUBSET Pin
      BY <1>2, <1>4 DEF TypeOK
    <2>2. IsPinMap(pins')
      <3>1. pin.realm = realm
        OBVIOUS
      <3>2. IsPinMap((pins \ PinsOf(pins, pin.realm)) \cup {pin})
        BY <1>4, InsertKeepsMap DEF TypeOK
      <3>3. QED
        BY <1>2, <3>1, <3>2
    <2>3. askedAt' \in 0..now'
      BY ConstantsAssumption DEF TypeOK
    <2>4. reply' \in Reply
      BY <1>2, <1>3 DEF Reply
    <2>5. phase' \in {"truncate", "reply"}
      OBVIOUS
    <2>6. QED
      BY <2>1, <2>2, <2>3, <2>4, <2>5 DEF TypeOK
  <1>7. JobInv' /\ PromptInv' /\ ReplyInv'
    BY DEF JobInv, PromptInv, Asking, ReplyInv, Working
  <1>8. FileHoldsNoSupersededGrant'
    BY <1>2, <1>5 DEF FileHoldsNoSupersededGrant, LivePins
  <1>9. TrustedReplyMatchesPin'
    <2> SUFFICES ASSUME NEW x \in Certs, reply' = Trusted(x)
                 PROVE  /\ x \in SelectCA(request[job].chain)
                        /\ x # request[job].chain.signer
                        /\ \E p \in pins' : p.realm = realm /\ p.ca = x
      BY DEF TrustedReplyMatchesPin
    <2>1. x = ca
      BY <1>2, TrustedInjective
    <2>2. pin \in pins' /\ pin.realm = realm /\ pin.ca = ca
      BY <1>2
    <2>3. QED
      BY <1>3, <2>1, <2>2
  <1>10. QED
    BY <1>6, <1>7, <1>8, <1>9

LEMMA DenyPromptIInv == IInv /\ DenyPrompt => IInv'
  <1> SUFFICES ASSUME IInv, DenyPrompt
               PROVE  IInv'
    OBVIOUS
  <1> USE DEF IInv, DenyPrompt, Asking, Conclude, connVars
  <1>1. TypeOK'
    BY ConstantsAssumption DEF TypeOK, Reply
  <1>2. JobInv' /\ PromptInv' /\ ReplyInv'
    BY DEF JobInv, PromptInv, Asking, ReplyInv, Working
  <1>3. FileHoldsNoSupersededGrant'
    BY DEF FileHoldsNoSupersededGrant
  <1>4. TrustedReplyMatchesPin'
    BY TrustedInjective DEF TrustedReplyMatchesPin
  <1>5. QED
    BY <1>1, <1>2, <1>3, <1>4

LEMMA TruncateIInv == IInv /\ Truncate => IInv'
  <1> SUFFICES ASSUME IInv, Truncate
               PROVE  IInv'
    OBVIOUS
  <1> USE DEF IInv, Truncate, connVars
  <1>1. TypeOK'
    BY DEF TypeOK, IsPinMap
  <1>2. JobInv' /\ PromptInv' /\ ReplyInv'
    BY DEF JobInv, PromptInv, Asking, ReplyInv, Working
  <1>3. FileHoldsNoSupersededGrant'
    BY DEF FileHoldsNoSupersededGrant, LivePins
  <1>4. TrustedReplyMatchesPin'
    BY DEF TrustedReplyMatchesPin
  <1>5. QED
    BY <1>1, <1>2, <1>3, <1>4

LEMMA WriteIInv == IInv /\ Write => IInv'
  <1> SUFFICES ASSUME IInv, Write
               PROVE  IInv'
    OBVIOUS
  <1> USE DEF IInv, Write, connVars
  <1>1. TypeOK'
    BY DEF TypeOK
  <1>2. JobInv' /\ PromptInv' /\ ReplyInv'
    BY DEF JobInv, PromptInv, Asking, ReplyInv, Working
  <1>3. FileHoldsNoSupersededGrant'
    BY DEF FileHoldsNoSupersededGrant, LivePins
  <1>4. TrustedReplyMatchesPin'
    BY DEF TrustedReplyMatchesPin
  <1>5. QED
    BY <1>1, <1>2, <1>3, <1>4

LEMMA DeliverIInv == IInv /\ Deliver => IInv'
  <1> SUFFICES ASSUME IInv, Deliver
               PROVE  IInv'
    OBVIOUS
  <1> USE DEF IInv, Deliver
  <1>1. job \in Conns
    BY DEF JobInv, TypeOK, Working
  <1>2. TypeOK'
    BY <1>1 DEF TypeOK, Reply
  <1>3. JobInv'
    BY <1>1 DEF JobInv, TypeOK, Working
  <1>4. PromptInv' /\ ReplyInv'
    BY DEF PromptInv, Asking, ReplyInv
  <1>5. FileHoldsNoSupersededGrant' /\ TrustedReplyMatchesPin'
    BY TrustedInjective DEF FileHoldsNoSupersededGrant, TrustedReplyMatchesPin
  <1>6. QED
    BY <1>2, <1>3, <1>4, <1>5

LEMMA StutterIInv == IInv /\ UNCHANGED vars => IInv'
  BY DEF vars, daemonVars, connVars, IInv, TypeOK, JobInv, PromptInv, Asking,
     ReplyInv, FileHoldsNoSupersededGrant, TrustedReplyMatchesPin

LEMMA NextIInv == IInv /\ [Next]_vars => IInv'
  BY StartIInv, CrashIInv, TickIInv, AskIInv, GiveUpIInv, ServeUndecidableIInv,
     ServeKnownRealmIInv, ServeUnknownRealmIInv, ApproveIInv,
     DenyPromptIInv, TruncateIInv, WriteIInv, DeliverIInv, StutterIInv
  DEF Next, Daemon, Environment, Serve
-------------------------------------------------------------------------------
(* Theorems *)

THEOREM Invariance == Spec => []IInv
  BY InitIInv, NextIInv, PTL DEF Spec

\* Type correctness of every handler, with at most one pin of each realm in
\* memory and in the file.
THEOREM TypeCorrectness == Spec => []TypeOK
  BY Invariance, PTL DEF IInv

\* A restart cannot bring back a CA that was superseded.
THEOREM NoSupersededGrant == Spec => []FileHoldsNoSupersededGrant
  BY Invariance, PTL DEF IInv

\* What decide() hands out is what it has on record and what was presented.
THEOREM RepliesMatchPins == Spec => []TrustedReplyMatchesPin
  BY Invariance, PTL DEF IInv
-------------------------------------------------------------------------------
(* Where trust comes from *)

\* Pins enter memory from the file or by an answer to a question, and the file
\* holds nothing that was not in memory.
LEMMA WherePinsComeFrom ==
  ASSUME Next
  PROVE  /\ ~Asking => pins' \subseteq pins \cup disk
         /\ disk' \subseteq pins \cup disk
  <1>1. ASSUME NEW c \in Conns, Serve(c)
        PROVE  pins' \subseteq pins /\ disk' = disk
    BY <1>1 DEF Serve, ServeUndecidable, ServeKnownRealm,
                ServeUnknownRealm
  <1>2. ASSUME NEW ttl, Approve(ttl)
        PROVE  Asking /\ disk' = disk
    BY <1>2 DEF Approve
  <1>3. CASE DenyPrompt \/ Truncate \/ Write \/ Deliver \/ Start \/ Crash \/ Tick
    BY <1>3 DEF DenyPrompt, Truncate, Write, Deliver, Start, Crash, Tick
  <1>4. ASSUME NEW c \in Conns, NEW req, Ask(c, req) \/ GiveUp(c)
        PROVE  pins' = pins /\ disk' = disk
    BY <1>4 DEF Ask, GiveUp
  <1>5. QED
    BY <1>1, <1>2, <1>3, <1>4 DEF Next, Daemon, Environment

\* Steps that leave memory, file, clock and "up or down" alone, or only shrink
\* memory while the daemon runs, add nothing to what is effectively granted.
LEMMA ShrinkingStep ==
  ASSUME now' = now, pins' \subseteq pins, phase # "down", phase' # "down"
  PROVE  Effective' \subseteq Effective
  BY DEF Effective, LivePins

LEMMA DaemonConsents ==
  ASSUME IInv, Daemon
  PROVE  AddsTrustByConsent
  <1>1. ASSUME NEW c \in Conns, Serve(c)
        PROVE  AddsTrustByConsent
    <2>1. /\ now' = now /\ pins' \subseteq pins
          /\ phase # "down" /\ phase' # "down"
      BY <1>1 DEF Serve, ServeUndecidable, Malformed, NoCA, ServeKnownRealm,
                  ServeUnknownRealm, Screens, Take, Conclude
    <2>2. QED
      BY <2>1, ShrinkingStep DEF AddsTrustByConsent
  <1>2. ASSUME NEW ttl \in Ttls \cup {Forever}, Approve(ttl)
        PROVE  AddsTrustByConsent
    <2>1. Asking /\ phase # "down" /\ phase' # "down" /\ now' = now
      BY <1>2 DEF Approve, Asking
    <2>2. request[job].interactive /\ PinsOf(pins, request[job].realm) = {}
      BY <2>1 DEF IInv, PromptInv, Asking
    <2>3. PinsOf(Effective, request[job].realm) = {}
      BY <2>1, <2>2 DEF PinsOf, Effective, LivePins
    <2>4. PICK ca \in SelectCA(request[job].chain) :
            pins' = (pins \ PinsOf(pins, request[job].realm))
                      \cup {[realm |-> request[job].realm, ca |-> ca,
                             until |-> ExpiresAt(ttl, askedAt)]}
      BY <1>2 DEF Approve
    <2>5. \A p \in Effective' \ Effective :
            p.realm = request[job].realm /\ p.ca = ca
      BY <2>1, <2>4 DEF Effective, LivePins
    <2>6. QED
      BY <2>1, <2>2, <2>3, <2>5 DEF AddsTrustByConsent
  <1>3. ASSUME DenyPrompt \/ Truncate \/ Write \/ Deliver
        PROVE  AddsTrustByConsent
    <2>1. /\ now' = now /\ pins' \subseteq pins
          /\ phase # "down" /\ phase' # "down"
      BY <1>3 DEF DenyPrompt, Asking, Truncate, Write, Deliver, Conclude
    <2>2. QED
      BY <2>1, ShrinkingStep DEF AddsTrustByConsent
  <1>4. QED
    BY <1>1, <1>2, <1>3 DEF Daemon

\* After a crash the file speaks for the daemon, and by the invariant it says
\* nothing new; a restart reads what already counted.
LEMMA EnvironmentAddsNoTrust ==
  ASSUME IInv, Environment \/ UNCHANGED vars
  PROVE  Effective' \subseteq Effective
  <1>1. CASE Start
    BY <1>1 DEF Start, Effective, LivePins
  <1>2. CASE Crash
    BY <1>2 DEF Crash, Effective, LivePins, IInv, FileHoldsNoSupersededGrant
  <1>3. CASE Tick
    <2>1. pins \in SUBSET Pin /\ disk \in SUBSET Pin /\ now \in Nat
      BY ConstantsAssumption DEF IInv, TypeOK
    <2>2. /\ LivePins(pins, now + 1) \subseteq LivePins(pins, now)
          /\ LivePins(disk, now + 1) \subseteq LivePins(disk, now)
      BY <2>1, LiveIsDownwardClosed
    <2>3. QED
      BY <1>3, <2>2 DEF Tick, daemonVars, Effective
  <1>4. ASSUME NEW c \in Conns, GiveUp(c) \/ \E req \in Request : Ask(c, req)
        PROVE  Effective' \subseteq Effective
    BY <1>4 DEF GiveUp, Ask, daemonVars, Effective, LivePins
  <1>5. CASE UNCHANGED vars
    BY <1>5 DEF vars, daemonVars, Effective, LivePins
  <1>6. QED
    BY <1>1, <1>2, <1>3, <1>4, <1>5 DEF Environment

\* Only a user's approval in an interactive call creates trust.
THEOREM ConsentOnly == Spec => TrustOnlyByConsent
  <1>1. IInv /\ [Next]_vars => [AddsTrustByConsent]_vars
    BY DaemonConsents, EnvironmentAddsNoTrust DEF Next, AddsTrustByConsent
  <1>2. QED
    BY <1>1, Invariance, PTL DEF Spec, TrustOnlyByConsent

\* No grant given on a terminal is over when it is recorded, but for what the wall
\* clock ran ahead of the prompt's deadline.
THEOREM GrantsStartLive == Spec => ApprovedGrantIsLive
  <1>1. ASSUME IInv, Next
        PROVE  RecordsLiveGrant
    <2>1. ASSUME NEW ttl \in Ttls \cup {Forever}, Approve(ttl)
          PROVE  RecordsLiveGrant
      <3>1. \A p \in pins' \ pins : p.until = ExpiresAt(ttl, askedAt)
        BY <2>1 DEF Approve
      <3>2. now \in Nat /\ askedAt \in Nat /\ waited \in Nat /\ PromptTimeout \in Nat
        BY <1>1, ConstantsAssumption DEF IInv, TypeOK
      <3>3. now - Ahead = askedAt + waited
        BY <3>2 DEF Ahead
      <3>4. phase = "prompt" /\ ttl # Forever => now - Ahead < askedAt + ttl
        <4>1. phase = "prompt" => waited <= PromptTimeout
          BY <2>1 DEF Approve
        <4>2. ttl # Forever => ttl \in Nat /\ PromptTimeout < ttl
          BY ConstantsAssumption, PresetsAssumption
        <4>3. QED
          BY <3>2, <3>3, <4>1, <4>2
      <3>5. QED
        BY <3>1, <3>4 DEF RecordsLiveGrant, Live, ExpiresAt
    <2>2. ASSUME \A ttl \in Ttls \cup {Forever} : ~Approve(ttl),
                 phase = "prompt"
          PROVE  pins' \subseteq pins
      BY <1>1, <2>2
      DEF Next, Daemon, Environment, Serve, ServeUndecidable, Malformed, NoCA,
          ServeKnownRealm, ServeUnknownRealm, Take, DenyPrompt, Truncate, Write,
          Deliver, Start, Crash, Tick, GiveUp, Ask
    <2>3. QED
      BY <2>1, <2>2 DEF RecordsLiveGrant
  <1>2. IInv /\ [Next]_vars => [RecordsLiveGrant]_vars
    BY <1>1
  <1>3. QED
    BY <1>2, Invariance, PTL DEF Spec, ApprovedGrantIsLive
-------------------------------------------------------------------------------
(* The promise of trust on first use *)

\* A call that is open has been told nothing, and what is put before a human
\* could be decoded.
CallInv ==
  /\ \A c \in Conns : request[c] # NoCall => answer[c] = {}
  /\ Asking => request[job].chain.decodes

\* The state of the promise, as the refinement gives it.
trusted == Effective
asked == [c \in Conns |-> Asked(c)]
verdict == [c \in Conns |-> IF c = job THEN reply ELSE answer[c]]

\* A step the promise does not see.
Silent == UNCHANGED <<now, trusted, asked, verdict>>
-------------------------------------------------------------------------------
(* The invariant *)

LEMMA InitCallInv == Init => CallInv
  BY DEF Init, CallInv, Asking

LEMMA ServeCallInv ==
  ASSUME CallInv, NEW c \in Conns, Serve(c)
  PROVE  CallInv'
  <1>1. UNCHANGED <<request, answer>> /\ job' = c
    BY DEF Serve, ServeUndecidable, ServeKnownRealm, ServeUnknownRealm, connVars,
           Take
  <1>2. CASE ServeUndecidable(c) \/ ServeKnownRealm(c)
    <2>1. phase' = "reply"
      BY <1>2 DEF ServeUndecidable, Malformed, NoCA, ServeKnownRealm, Conclude
    <2>2. QED
      BY <1>1, <2>1 DEF CallInv, Asking
  <1>3. CASE ServeUnknownRealm(c)
    BY <1>1, <1>3 DEF CallInv, ServeUnknownRealm, Asking
  <1>4. QED
    BY <1>2, <1>3 DEF Serve

LEMMA NextCallInv == CallInv /\ IInv /\ [Next]_vars => CallInv'
  <1> SUFFICES ASSUME CallInv, IInv, [Next]_vars
               PROVE  CallInv'
    OBVIOUS
  <1>1. ASSUME NEW ttl \in Ttls \cup {Forever}, Approve(ttl)
        PROVE  CallInv'
    BY <1>1 DEF Approve, CallInv, Asking, connVars
  <1>2. CASE DenyPrompt \/ Truncate \/ Write \/ Start \/ Tick
    BY <1>2 DEF DenyPrompt, Conclude, Truncate, Write, Start, Tick, daemonVars,
                connVars, CallInv, Asking
  <1>3. CASE Deliver
    <2>1. /\ phase' = "idle"
          /\ request' = [request EXCEPT ![job] = NoCall]
          /\ answer' = [answer EXCEPT ![job] = reply] \/ answer' = answer
      BY <1>3 DEF Deliver
    <2>2. QED
      BY <2>1 DEF CallInv, Asking, IInv, TypeOK
  <1>4. CASE Crash
    BY <1>4 DEF Crash, CallInv, Asking
  <1>5. ASSUME NEW c \in Conns, GiveUp(c)
        PROVE  CallInv'
    BY <1>5 DEF GiveUp, CallInv, Asking, daemonVars
  <1>6. ASSUME NEW c \in Conns, NEW req \in Request, Ask(c, req)
        PROVE  CallInv'
    <2>1. /\ request' = [request EXCEPT ![c] = req]
          /\ answer' = [answer EXCEPT ![c] = {}]
          /\ UNCHANGED <<phase, job>>
      BY <1>6 DEF Ask, daemonVars
    <2>2. Asking => job # c
      BY <1>6 DEF Asking, Ask, IInv, JobInv, Working
    <2>3. QED
      BY <2>1, <2>2 DEF CallInv, Asking, IInv, TypeOK
  <1>7. CASE UNCHANGED vars
    BY <1>7 DEF vars, daemonVars, connVars, CallInv, Asking
  <1>8. QED
    BY <1>1, <1>2, <1>3, <1>4, <1>5, <1>6, <1>7, ServeCallInv
       DEF Next, Daemon, Environment

LEMMA CallInvariance == Spec => [](IInv /\ CallInv)
  BY InitIInv, NextIInv, InitCallInv, NextCallInv, PTL DEF Spec
-------------------------------------------------------------------------------
(* The steps of the promise *)

\* An open request is a question to the promise.
LEMMA AskedIsQuestion ==
  ASSUME TypeOK, NEW c \in Conns, request[c] # NoCall
  PROVE  /\ asked[c] # NoCall
         /\ asked[c].realm = request[c].realm
         /\ asked[c].interactive = request[c].interactive
         /\ asked[c].offer = IF request[c].chain.decodes
                             THEN SelectCA(request[c].chain) ELSE {}
  <1>1. request[c] \in Request
    BY DEF TypeOK
  <1>2. /\ request[c].realm \in Realms /\ request[c].chain \in Chains
        /\ request[c].interactive \in BOOLEAN
    BY <1>1 DEF Request
  <1>3. Offer[request[c].chain] = IF request[c].chain.decodes
                                  THEN SelectCA(request[c].chain) ELSE {}
    BY <1>2 DEF Offer
  <1>4. Offer[request[c].chain] \subseteq Certs
    BY <1>2, <1>3, SelectCAType
  <1> DEFINE question == [realm |-> request[c].realm,
                          offer |-> Offer[request[c].chain],
                          interactive |-> request[c].interactive]
  <1>5. question \in [realm : Realms, offer : SUBSET Certs, interactive : BOOLEAN]
    BY <1>2, <1>4
  <1>6. asked[c] = question
    BY DEF asked, Asked
  <1>7. QED
    BY <1>3, <1>5, <1>6, NoCallAssumption

\* A refusal of an open call.
LEMMA RefusalKeepsPromise ==
  ASSUME TypeOK, NEW c \in Conns, request[c] # NoCall, verdict[c] = {},
         NEW r \in {Denied, Unknown, InvalidRequest},
         verdict' = [verdict EXCEPT ![c] = r],
         UNCHANGED <<now, trusted, asked>>
  PROVE  Promise!TofuNext
  <1>1. asked[c] # NoCall
    BY AskedIsQuestion
  <1>2. r \in Promise!Refusals
    BY DEF Promise!Refusals, Promise!Answer, Denied, Unknown, InvalidRequest, Answer
  <1>3. Promise!Refuse(c)
    BY <1>1, <1>2 DEF Promise!Refuse, Promise!Open, trusted, asked, verdict
  <1>4. QED
    BY <1>3 DEF Promise!TofuNext

\* Calls end, and trust may go with them.
LEMMA EndKeepsPromise ==
  ASSUME NEW ended \in SUBSET Conns, NEW cleared \in SUBSET ended,
         asked' = [c \in Conns |-> IF c \in ended THEN NoCall ELSE asked[c]],
         verdict' = [c \in Conns |-> IF c \in cleared THEN {} ELSE verdict[c]],
         trusted' \subseteq trusted, UNCHANGED now
  PROVE  Promise!TofuNext
  <1>1. Promise!End
    BY DEF Promise!End, trusted, asked, verdict
  <1>2. QED
    BY <1>1 DEF Promise!TofuNext

\* While the daemon is at work on nothing, what a call was told is its answer.
LEMMA TakeVerdict ==
  ASSUME IInv, CallInv, NEW c \in Conns, Take(c), UNCHANGED answer
  PROVE  /\ request[c] # NoCall /\ reply = {} /\ verdict[c] = {}
         /\ verdict' = [verdict EXCEPT ![c] = reply']
  <1>1. request[c] # NoCall /\ job = NoConn /\ job' = c /\ reply = {}
    BY DEF Take, IInv, JobInv, Working, ReplyInv
  <1>2. \A d \in Conns : verdict[d] = answer[d]
    BY <1>1, ConstantsAssumption DEF verdict
  <1>3. verdict[c] = {}
    BY <1>1, <1>2 DEF CallInv
  <1>4. verdict' = [verdict EXCEPT ![c] = reply']
    BY <1>1, <1>2 DEF verdict
  <1>5. QED
    BY <1>1, <1>3, <1>4
-------------------------------------------------------------------------------
(* Steps of the daemon *)

KeepsOrSilent == Promise!TofuNext \/ Silent

LEMMA ServeUndecidableKeeps ==
  ASSUME IInv, CallInv, NEW c \in Conns, ServeUndecidable(c)
  PROVE  KeepsOrSilent
  <1>1. Take(c) /\ UNCHANGED <<now, pins, disk, connVars>>
    BY DEF ServeUndecidable
  <1>2. PICK r \in {Denied, Unknown, InvalidRequest} : Conclude(r)
    BY DEF ServeUndecidable, Malformed, NoCA
  <1>3. /\ request[c] # NoCall /\ verdict[c] = {}
        /\ verdict' = [verdict EXCEPT ![c] = r]
    BY <1>1, <1>2, TakeVerdict DEF connVars, Conclude
  <1>4. UNCHANGED <<now, trusted, asked>>
    BY <1>1, <1>2 DEF Take, Conclude, trusted, Effective, LivePins, asked, Asked,
                      connVars
  <1>5. QED
    BY <1>3, <1>4, RefusalKeepsPromise DEF KeepsOrSilent, IInv

LEMMA ServeKnownRealmKeeps ==
  ASSUME IInv, CallInv, NEW c \in Conns, ServeKnownRealm(c)
  PROVE  KeepsOrSilent
  <1>1. /\ Take(c) /\ request[c].chain.decodes
        /\ UNCHANGED <<now, pins, disk, connVars>>
    BY DEF ServeKnownRealm
  <1>2. PICK ca \in SelectCA(request[c].chain),
             pin \in LivePins(PinsOf(pins, request[c].realm), now) :
          Conclude(IF pin.ca = ca THEN Trusted(pin.ca) ELSE Denied)
    BY DEF ServeKnownRealm
  <1>3. /\ request[c] # NoCall /\ verdict[c] = {}
        /\ verdict' = [verdict EXCEPT ![c] = reply']
        /\ reply' = IF pin.ca = ca THEN Trusted(pin.ca) ELSE Denied
    BY <1>1, <1>2, TakeVerdict DEF connVars, Conclude
  <1>4. UNCHANGED <<now, trusted, asked>>
    BY <1>1, <1>2 DEF Take, Conclude, trusted, Effective, LivePins, asked, Asked,
                      connVars
  <1>5. CASE pin.ca # ca
    BY <1>3, <1>4, <1>5, RefusalKeepsPromise DEF KeepsOrSilent, IInv
  <1>6. CASE pin.ca = ca
    <2>1. /\ asked[c] # NoCall
          /\ pin.realm = asked[c].realm /\ pin.ca \in asked[c].offer
      BY <1>1, <1>3, <1>6, AskedIsQuestion DEF IInv, LivePins, PinsOf
    <2>2. pin \in trusted
      BY <1>1 DEF Take, trusted, Effective, LivePins, PinsOf
    <2>3. verdict' = [verdict EXCEPT ![c] = Promise!Answer("Trusted", {pin.ca})]
      BY <1>3, <1>6 DEF Promise!Answer, Trusted, Answer
    <2>4. Promise!Agree(c)
      BY <1>3, <1>4, <2>1, <2>2, <2>3
         DEF Promise!Agree, Promise!Open, trusted, asked, verdict
    <2>5. QED
      BY <2>4 DEF KeepsOrSilent, Promise!TofuNext
  <1>7. QED
    BY <1>5, <1>6

LEMMA ServeUnknownRealmKeeps ==
  ASSUME IInv, CallInv, NEW c \in Conns, ServeUnknownRealm(c)
  PROVE  KeepsOrSilent
  <1>1. /\ Take(c) /\ UNCHANGED <<now, disk, connVars>>
        /\ LivePins(PinsOf(pins, request[c].realm), now) = {}
        /\ pins' = pins \ PinsOf(pins, request[c].realm)
        /\ \/ Conclude(Unknown)
           \/ phase' \in Screens /\ UNCHANGED reply
    BY DEF ServeUnknownRealm
  <1>2. phase = "idle" /\ phase' # "down"
    BY <1>1 DEF Take, Conclude, Screens
  <1>3. UNCHANGED <<now, trusted, asked>>
    BY <1>1, <1>2 DEF trusted, Effective, LivePins, PinsOf, asked, Asked, connVars
  <1>4. /\ request[c] # NoCall /\ reply = {} /\ verdict[c] = {}
        /\ verdict' = [verdict EXCEPT ![c] = reply']
    BY <1>1, TakeVerdict DEF connVars
  <1>5. CASE Conclude(Unknown)
    <2>1. verdict' = [verdict EXCEPT ![c] = Unknown]
      BY <1>4, <1>5 DEF Conclude
    <2>2. QED
      BY <1>3, <1>4, <2>1, RefusalKeepsPromise DEF KeepsOrSilent, IInv
  <1>6. CASE UNCHANGED reply
    <2>1. verdict' = verdict
      BY <1>4, <1>6 DEF verdict
    <2>2. QED
      BY <1>3, <2>1 DEF KeepsOrSilent, Silent
  <1>7. QED
    BY <1>1, <1>5, <1>6

\* The call whose prompt is open.
LEMMA PromptedCall ==
  ASSUME IInv, CallInv, Asking
  PROVE  /\ job \in Conns /\ request[job] # NoCall
         /\ verdict[job] = {} /\ phase # "down"
         /\ PinsOf(pins, request[job].realm) = {}
         /\ request[job].interactive /\ request[job].chain.decodes
         /\ \A r : reply' = r /\ UNCHANGED <<job, answer>> =>
                verdict' = [verdict EXCEPT ![job] = r]
  <1>1. job \in Conns /\ status[job] \in {"waiting", "gone"}
    BY DEF IInv, TypeOK, JobInv, Asking, Working
  <1>2. request[job] # NoCall
    BY <1>1 DEF IInv, JobInv
  <1>3. reply = {} /\ PinsOf(pins, request[job].realm) = {}
    BY DEF IInv, PromptInv
  <1>4. request[job].interactive /\ request[job].chain.decodes
    BY DEF IInv, PromptInv, CallInv
  <1>5. phase # "down"
    BY DEF Asking
  <1>6. ASSUME NEW r, reply' = r, UNCHANGED <<job, answer>>
        PROVE  verdict' = [verdict EXCEPT ![job] = r]
    BY <1>6 DEF verdict
  <1>7. QED
    BY <1>1, <1>2, <1>3, <1>4, <1>5, <1>6 DEF verdict

LEMMA DenyPromptKeeps ==
  ASSUME IInv, CallInv, DenyPrompt
  PROVE  KeepsOrSilent
  <1>1. /\ Asking /\ UNCHANGED <<now, pins, disk, job, connVars>>
        /\ phase' = "reply" /\ reply' = Denied
    BY DEF DenyPrompt, Conclude
  <1>2. UNCHANGED <<now, trusted, asked>>
    BY <1>1 DEF Asking, trusted, Effective, LivePins, asked, Asked, connVars
  <1>3. verdict' = [verdict EXCEPT ![job] = Denied]
    BY <1>1, PromptedCall DEF connVars
  <1>4. QED
    BY <1>1, <1>2, <1>3, PromptedCall, RefusalKeepsPromise DEF KeepsOrSilent, IInv

LEMMA ApproveKeeps ==
  ASSUME IInv, CallInv, NEW ttl \in Ttls \cup {Forever}, Approve(ttl)
  PROVE  KeepsOrSilent
  <1> DEFINE grant(ca) == [realm |-> request[job].realm, ca |-> ca,
                           until |-> ExpiresAt(ttl, askedAt)]
  <1>1. PICK ca \in SelectCA(request[job].chain) :
          /\ pins' = (pins \ PinsOf(pins, request[job].realm)) \cup {grant(ca)}
          /\ reply' = Trusted(ca)
    BY DEF Approve
  <1> HIDE DEF grant
  <1>2. /\ Asking /\ UNCHANGED <<now, disk, job, connVars>>
        /\ phase' # "down" /\ askedAt \in 0..now
    BY DEF Approve, IInv, TypeOK
  <1>3. /\ asked[job] # NoCall
        /\ asked[job].realm = request[job].realm
        /\ asked[job].interactive /\ ca \in asked[job].offer
    BY <1>2, PromptedCall, AskedIsQuestion DEF IInv
  <1>4. \A g \in trusted : g.realm # asked[job].realm
    BY <1>2, <1>3, PromptedCall DEF trusted, Effective, LivePins, PinsOf
  <1>5. trusted' = trusted \cup {g \in {grant(ca)} : Promise!Lasts(g, now)}
    <2>1. pins' = pins \cup {grant(ca)}
      BY <1>1, <1>2, PromptedCall
    <2>2. trusted' = LivePins(pins', now) /\ trusted = LivePins(pins, now)
      BY <1>2, PromptedCall DEF trusted, Effective, LivePins
    <2>3. QED
      BY <2>1, <2>2 DEF LivePins, Live, Promise!Lasts
  <1>6. ExpiresAt(ttl, askedAt) \in Promise!Until(askedAt)
    BY DEF ExpiresAt, Promise!Until
  <1>7. verdict' = [verdict EXCEPT ![job] = Promise!Answer("Trusted", {ca})]
    BY <1>1, <1>2, PromptedCall
       DEF Promise!Answer, Trusted, Answer, connVars
  <1>8. UNCHANGED <<now, asked>>
    BY <1>2 DEF asked, Asked, connVars
  <1>9. grant(ca) = [realm |-> asked[job].realm, ca |-> ca,
                     until |-> ExpiresAt(ttl, askedAt)]
    BY <1>3 DEF grant
  <1>10. PICK c \in Conns : c = job
    BY <1>2, PromptedCall
  <1>11. Promise!Consent(c)
    <2>1. verdict[job] = {}
      BY <1>2, PromptedCall
    <2>2. QED
      BY <1>2, <1>3, <1>4, <1>5, <1>6, <1>7, <1>8, <1>9, <1>10, <2>1
         DEF Promise!Consent, Promise!Open, trusted, asked, verdict
  <1>12. QED
    BY <1>11 DEF KeepsOrSilent, Promise!TofuNext

\* Saving is not seen from outside.
LEMMA PersistKeeps ==
  ASSUME Truncate \/ Write
  PROVE  KeepsOrSilent
  <1>1. /\ UNCHANGED <<now, pins, job, reply, connVars>>
        /\ phase # "down" /\ phase' # "down"
    BY DEF Truncate, Write
  <1>2. Silent
    BY <1>1 DEF Silent, trusted, Effective, LivePins, asked, Asked, verdict,
                connVars
  <1>3. QED
    BY <1>2 DEF KeepsOrSilent

LEMMA DeliverKeeps ==
  ASSUME IInv, CallInv, Deliver
  PROVE  KeepsOrSilent
  <1>1. /\ phase = "reply" /\ phase' = "idle" /\ job' = NoConn
        /\ request' = [request EXCEPT ![job] = NoCall]
        /\ answer' = [answer EXCEPT ![job] = reply] \/ answer' = answer
        /\ UNCHANGED <<now, pins, disk>>
    BY DEF Deliver
  <1>2. job \in Conns /\ request[job] # NoCall /\ answer[job] = {}
    BY <1>1 DEF IInv, TypeOK, JobInv, Working, CallInv
  <1>3. trusted' = trusted
    BY <1>1 DEF trusted, Effective, LivePins
  <1>4. asked' = [c \in Conns |-> IF c \in {job} THEN NoCall ELSE asked[c]]
    <2>1. \A c \in Conns : request'[c] = IF c = job THEN NoCall ELSE request[c]
      BY <1>1 DEF IInv, TypeOK
    <2>2. \A c \in Conns : Asked(c)' = IF c \in {job} THEN NoCall ELSE Asked(c)
      BY <2>1 DEF Asked
    <2>3. QED
      BY <2>2 DEF asked
  <1>5. \A c \in Conns : verdict'[c] = answer'[c]
    BY <1>1, ConstantsAssumption DEF verdict
  <1>6. CASE answer' = [answer EXCEPT ![job] = reply]
    <2>1. verdict' = [c \in Conns |-> IF c \in {} THEN {} ELSE verdict[c]]
      BY <1>5, <1>6 DEF verdict, IInv, TypeOK
    <2>2. {job} \in SUBSET Conns /\ {} \in SUBSET {job}
      BY <1>2
    <2>3. QED
      BY <1>1, <1>3, <1>4, <2>1, <2>2, EndKeepsPromise DEF KeepsOrSilent
  <1>7. CASE answer' = answer
    <2>1. verdict' = [c \in Conns |-> IF c \in {job} THEN {} ELSE verdict[c]]
      BY <1>2, <1>5, <1>7 DEF verdict
    <2>2. {job} \in SUBSET Conns /\ {job} \in SUBSET {job}
      BY <1>2
    <2>3. QED
      BY <1>1, <1>3, <1>4, <2>1, <2>2, EndKeepsPromise DEF KeepsOrSilent
  <1>8. QED
    BY <1>1, <1>6, <1>7
-------------------------------------------------------------------------------
(* Steps around the daemon *)

\* A restart reads what already counted.
LEMMA StartKeeps ==
  ASSUME IInv, Start
  PROVE  KeepsOrSilent
  <1>1. /\ phase = "down" /\ phase' = "idle" /\ pins' = disk
        /\ UNCHANGED <<now, disk, job, reply, connVars>>
    BY DEF Start
  <1>2. Silent
    BY <1>1 DEF Silent, trusted, Effective, LivePins, asked, Asked, verdict,
                connVars
  <1>3. QED
    BY <1>2 DEF KeepsOrSilent

\* After a crash the file speaks, and it says nothing new.
LEMMA CrashKeeps ==
  ASSUME IInv, CallInv, Crash
  PROVE  KeepsOrSilent
  <1>1. PICK lost \in SUBSET Conns :
          /\ \A c \in lost : status[c] \in {"waiting", "gone"}
          /\ job \in lost \cup {NoConn}
          /\ request' = [c \in Conns |-> IF c \in lost THEN NoCall
                                         ELSE request[c]]
    BY DEF Crash
  <1>2. /\ phase # "down" /\ phase' = "down" /\ job' = NoConn
        /\ UNCHANGED <<now, disk, answer>>
    BY DEF Crash
  <1>3. trusted' \subseteq trusted
    BY <1>2 DEF IInv, FileHoldsNoSupersededGrant, trusted, Effective, LivePins
  <1>4. asked' = [c \in Conns |-> IF c \in lost THEN NoCall ELSE asked[c]]
    <2>1. \A c \in Conns : Asked(c)' = IF c \in lost THEN NoCall ELSE Asked(c)
      BY <1>1 DEF Asked
    <2>2. QED
      BY <2>1 DEF asked
  <1> DEFINE cleared == lost \cap {job}
  <1>5. verdict' = [c \in Conns |-> IF c \in cleared THEN {} ELSE verdict[c]]
    <2>1. \A c \in Conns : verdict'[c] = answer[c]
      BY <1>2, ConstantsAssumption DEF verdict
    <2>2. \A c \in cleared : answer[c] = {}
      BY <1>1 DEF IInv, JobInv, CallInv
    <2>3. \A c \in Conns \ cleared : c # job
      BY <1>1, ConstantsAssumption
    <2>4. QED
      BY <2>1, <2>2, <2>3 DEF verdict
  <1>6. QED
    BY <1>2, <1>3, <1>4, <1>5, EndKeepsPromise DEF KeepsOrSilent

LEMMA TickKeeps ==
  ASSUME IInv, Tick
  PROVE  KeepsOrSilent
  <1>1. now' = now + 1 /\ UNCHANGED <<pins, disk, phase, job, reply, connVars>>
    BY DEF Tick, daemonVars
  <1>2. now \in Nat /\ pins \in SUBSET Pin /\ disk \in SUBSET Pin
    BY ConstantsAssumption DEF IInv, TypeOK
  <1> DEFINE held == IF phase = "down" THEN disk ELSE pins
  <1>3. held \in SUBSET Pin
    BY <1>2
  <1>4. trusted = LivePins(held, now) /\ trusted' = LivePins(held, now + 1)
    BY <1>1 DEF trusted, Effective
  <1> HIDE DEF held
  <1>5. LivePins(held, now + 1) \subseteq LivePins(held, now)
    BY <1>2, <1>3, LiveIsDownwardClosed
  <1>6. trusted' = {g \in trusted : Promise!Lasts(g, now + 1)}
    BY <1>4, <1>5 DEF LivePins, Live, Promise!Lasts
  <1>7. UNCHANGED <<asked, verdict>>
    BY <1>1 DEF asked, Asked, verdict, connVars
  <1>8. Promise!Elapse
    BY <1>1, <1>6, <1>7 DEF Promise!Elapse, trusted, asked, verdict
  <1>9. QED
    BY <1>8 DEF KeepsOrSilent, Promise!TofuNext

LEMMA AskKeeps ==
  ASSUME IInv, NEW c \in Conns, NEW req \in Request, Ask(c, req)
  PROVE  KeepsOrSilent
  <1>1. /\ status[c] \in {"idle", "done"}
        /\ request' = [request EXCEPT ![c] = req]
        /\ answer' = [answer EXCEPT ![c] = {}]
        /\ UNCHANGED <<now, pins, disk, phase, job, reply>>
    BY DEF Ask, daemonVars
  <1>2. request[c] = NoCall /\ job # c
    BY <1>1, ConstantsAssumption DEF IInv, JobInv
  <1> DEFINE question == [realm |-> req.realm, offer |-> Offer[req.chain],
                          interactive |-> req.interactive]
  <1>3. question \in Promise!Question
    <2>1. /\ req.realm \in Realms /\ req.chain \in Chains
          /\ req.interactive \in BOOLEAN
      BY DEF Request
    <2>2. Offer[req.chain] \subseteq Certs
      BY <2>1, SelectCAType DEF Offer
    <2>3. QED
      BY <2>1, <2>2 DEF Promise!Question
  <1>4. asked[c] = NoCall
    BY <1>2 DEF asked, Asked
  <1>5. asked' = [asked EXCEPT ![c] = question]
    <2>1. request'[c] = req /\ \A d \in Conns \ {c} : request'[d] = request[d]
      BY <1>1 DEF IInv, TypeOK
    <2>2. Asked(c)' = question
      BY <2>1, NoCallAssumption DEF Asked
    <2>3. \A d \in Conns \ {c} : Asked(d)' = Asked(d)
      BY <2>1 DEF Asked
    <2>4. QED
      BY <2>2, <2>3 DEF asked
  <1> HIDE DEF question
  <1>6. verdict' = [verdict EXCEPT ![c] = {}]
    BY <1>1, <1>2 DEF verdict, IInv, TypeOK
  <1>7. trusted' = trusted
    BY <1>1 DEF trusted, Effective, LivePins
  <1>8. Promise!Ask(c)
    BY <1>1, <1>3, <1>4, <1>5, <1>6, <1>7
       DEF Promise!Ask, trusted, asked, verdict
  <1>9. QED
    BY <1>8 DEF KeepsOrSilent, Promise!TofuNext

LEMMA GiveUpKeeps ==
  ASSUME NEW c \in Conns, GiveUp(c)
  PROVE  KeepsOrSilent
  <1>1. UNCHANGED <<now, pins, disk, phase, job, reply, request, answer>>
    BY DEF GiveUp, daemonVars
  <1>2. Silent
    BY <1>1 DEF Silent, trusted, Effective, LivePins, asked, Asked, verdict
  <1>3. QED
    BY <1>2 DEF KeepsOrSilent

LEMMA StutterKeeps ==
  ASSUME UNCHANGED vars
  PROVE  Silent
  BY DEF vars, daemonVars, connVars, Silent, trusted, Effective, LivePins, asked,
         Asked, verdict
-------------------------------------------------------------------------------
(* The refinement *)

LEMMA InitKeeps == Init => Promise!TofuInit
  <1> SUFFICES ASSUME Init
               PROVE  Promise!TofuInit
    OBVIOUS
  <1>1. Effective = {}
    BY DEF Init, Effective, LivePins
  <1>2. \A c \in Conns : Asked(c) = NoCall
    BY DEF Init, Asked
  <1>3. \A c \in Conns : (IF c = job THEN reply ELSE answer[c]) = {}
    BY DEF Init
  <1>4. QED
    BY <1>1, <1>2, <1>3 DEF Init, Promise!TofuInit

LEMMA NextKeeps ==
  IInv /\ CallInv /\ [Next]_vars => [Promise!TofuNext]_(Promise!tofuVars)
  <1>1. ASSUME IInv, CallInv, Next
        PROVE  KeepsOrSilent
    BY <1>1, ServeUndecidableKeeps, ServeKnownRealmKeeps, ServeUnknownRealmKeeps,
       ApproveKeeps, DenyPromptKeeps, PersistKeeps, DeliverKeeps, StartKeeps,
       CrashKeeps, TickKeeps, AskKeeps, GiveUpKeeps
       DEF Next, Daemon, Environment, Serve
  <1>2. Silent => UNCHANGED Promise!tofuVars
    BY DEF Silent, Promise!tofuVars, trusted, asked, verdict
  <1>3. QED
    BY <1>1, <1>2, StutterKeeps DEF KeepsOrSilent

\* Through crashes, restarts, lapses, lost writes and callers that give up, the
\* broker does what trust on first use promises, and nothing else.
THEOREM ImplementsTofu == Spec => KeepsPromise
  BY InitKeeps, NextKeeps, CallInvariance, PTL
     DEF Spec, KeepsPromise, Promise!TofuSpec
-------------------------------------------------------------------------------
(* How long trust lasts *)

\* Between two writes the file lacks no live pin, save the one just granted.
FileKeepsUp ==
  phase \notin {"down", "write"} =>
    \A p \in LivePins(pins, now) :
      p \in disk \/ (phase = "truncate" /\ p.realm = request[job].realm)

\* The daemon does not die between truncating its file and writing it.
SparesTheWrite == ~(phase = "write" /\ phase' = "down")
NoCrashInWrite == [][SparesTheWrite]_vars

\* A grant that does not lapse stays, in every realm not being decided.
KeepsGrants ==
  \A p \in Effective :
    Live(p, now') /\ (job # NoConn => p.realm # request[job].realm)
      => p \in Effective'
GrantsLast == [][KeepsGrants]_vars

LEMMA DaemonKeepsUp ==
  ASSUME HasStateFile, ~DiskErrors, IInv, FileKeepsUp, Daemon
  PROVE  FileKeepsUp'
  <1>1. ASSUME NEW c \in Conns, Serve(c)
        PROVE  FileKeepsUp'
    <2>1. /\ phase = "idle" /\ phase' \notin {"truncate", "write", "down"}
          /\ pins' \subseteq pins /\ UNCHANGED <<disk, now>>
      BY <1>1 DEF Serve, ServeUndecidable, Malformed, NoCA, ServeKnownRealm,
                  ServeUnknownRealm, Screens, Take, Conclude
    <2>2. QED
      BY <2>1 DEF FileKeepsUp, LivePins
  <1>2. ASSUME NEW ttl \in Ttls \cup {Forever}, Approve(ttl)
        PROVE  FileKeepsUp'
    <2>1. /\ phase \in {"prompt", "notify"} /\ phase' = "truncate"
          /\ UNCHANGED <<disk, now, request, job>>
      BY <1>2 DEF Approve, Asking, connVars
    <2>2. PICK ca \in SelectCA(request[job].chain) :
            pins' = (pins \ PinsOf(pins, request[job].realm))
                      \cup {[realm |-> request[job].realm, ca |-> ca,
                             until |-> ExpiresAt(ttl, askedAt)]}
      BY <1>2 DEF Approve
    <2>3. \A p \in pins' : p \in pins \/ p.realm = request[job].realm
      BY <2>2
    <2>4. QED
      BY <2>1, <2>3 DEF FileKeepsUp, LivePins
  <1>3. CASE DenyPrompt \/ Truncate \/ Write \/ Deliver
    BY <1>3 DEF DenyPrompt, Asking, Conclude, Truncate, Write, Deliver, FileKeepsUp, LivePins
  <1>4. QED
    BY <1>1, <1>2, <1>3 DEF Daemon

LEMMA EnvironmentKeepsUp ==
  ASSUME IInv, FileKeepsUp, Environment \/ UNCHANGED vars
  PROVE  FileKeepsUp'
  <1>1. CASE Start \/ Crash
    BY <1>1 DEF Start, Crash, FileKeepsUp, LivePins
  <1>2. CASE Tick
    <2>1. pins \in SUBSET Pin /\ now \in Nat
      BY ConstantsAssumption DEF IInv, TypeOK
    <2>2. LivePins(pins, now + 1) \subseteq LivePins(pins, now)
      BY <2>1, LiveIsDownwardClosed
    <2>3. QED
      BY <1>2, <2>2 DEF Tick, daemonVars, connVars, FileKeepsUp
  <1>3. ASSUME NEW c \in Conns, NEW req \in Request, Ask(c, req)
        PROVE  FileKeepsUp'
    <2>1. phase = "truncate" => job # c /\ job \in Conns
      BY <1>3 DEF IInv, TypeOK, JobInv, Working, Ask
    <2>2. phase = "truncate" => request'[job] = request[job]
      BY <1>3, <2>1 DEF Ask, IInv, TypeOK
    <2>3. QED
      BY <1>3, <2>2 DEF Ask, daemonVars, FileKeepsUp
  <1>4. ASSUME NEW c \in Conns, GiveUp(c)
        PROVE  FileKeepsUp'
    BY <1>4 DEF GiveUp, daemonVars, FileKeepsUp
  <1>5. CASE UNCHANGED vars
    BY <1>5 DEF vars, daemonVars, connVars, FileKeepsUp
  <1>6. QED
    BY <1>1, <1>2, <1>3, <1>4, <1>5 DEF Environment

LEMMA NextKeepsGrants ==
  ASSUME IInv, FileKeepsUp, Next, SparesTheWrite
  PROVE  KeepsGrants
  <1>1. CASE Crash
    BY <1>1 DEF Crash, SparesTheWrite, FileKeepsUp, JobInv, Working, IInv,
                KeepsGrants, Effective, LivePins
  <1>2. CASE Start
    BY <1>2 DEF Start, KeepsGrants, Effective, LivePins
  <1>3. ASSUME NEW c \in Conns, Serve(c)
        PROVE  KeepsGrants
    <2>1. /\ phase # "down" /\ phase' # "down"
          /\ UNCHANGED now
          /\ \A p \in LivePins(pins, now) : p \in pins'
      BY <1>3 DEF Serve, ServeUndecidable, Malformed, NoCA, ServeKnownRealm,
                  ServeUnknownRealm, Screens, Take, Conclude, LivePins, PinsOf
    <2>2. QED
      BY <2>1 DEF KeepsGrants, Effective, LivePins
  <1>4. ASSUME NEW ttl, Approve(ttl)
        PROVE  KeepsGrants
    <2>1. /\ phase # "down" /\ phase' # "down" /\ job # NoConn
          /\ UNCHANGED now
          /\ pins \ PinsOf(pins, request[job].realm) \subseteq pins'
      BY <1>4 DEF Approve, Asking, IInv, JobInv, Working
    <2>2. QED
      BY <2>1 DEF KeepsGrants, Effective, LivePins, PinsOf
  <1>5. CASE DenyPrompt \/ Truncate \/ Write \/ Deliver \/ Tick
    <2>1. pins' = pins /\ (disk' = disk \/ phase # "down")
      BY <1>5 DEF DenyPrompt, Asking, Conclude, Truncate, Write, Deliver, Tick
    <2>2. phase' = "down" <=> phase = "down"
      BY <1>5 DEF DenyPrompt, Asking, Conclude, Truncate, Write, Deliver, Tick, daemonVars
    <2>3. QED
      BY <2>1, <2>2 DEF KeepsGrants, Effective, LivePins
  <1>6. ASSUME NEW c \in Conns, NEW req, Ask(c, req) \/ GiveUp(c)
        PROVE  KeepsGrants
    BY <1>6 DEF Ask, GiveUp, daemonVars, KeepsGrants, Effective, LivePins
  <1>7. QED
    BY <1>1, <1>2, <1>3, <1>4, <1>5, <1>6 DEF Next, Daemon, Environment

\* With a state file on a disk that works, the instant between truncating the
\* file and writing it is the only one at which a crash can cost a grant of a
\* realm that is not being decided.
THEOREM GrantsOutliveCrashes ==
  ASSUME HasStateFile, ~DiskErrors
  PROVE  Spec /\ NoCrashInWrite => GrantsLast
  <1>1. Init => FileKeepsUp
    BY DEF Init, FileKeepsUp
  <1>2. IInv /\ FileKeepsUp /\ [Next]_vars => FileKeepsUp'
    BY DaemonKeepsUp, EnvironmentKeepsUp DEF Next
  <1>3. IInv /\ FileKeepsUp /\ [Next]_vars /\ [SparesTheWrite]_vars => [KeepsGrants]_vars
    BY NextKeepsGrants
  <1>4. QED
    BY <1>1, <1>2, <1>3, Invariance, PTL DEF Spec, NoCrashInWrite, GrantsLast

\* So a pin granted "forever" outlives every crash, as the comment on
\* Pin::expires_at has it, unless the daemon dies at that instant.
THEOREM ForeverPinsOutliveCrashes ==
  ASSUME HasStateFile, ~DiskErrors
  PROVE  Spec /\ NoCrashInWrite => ForeverPinSurvives
  <1> DEFINE Survives ==
        \A p \in Effective :
          p.until = Forever /\ (job # NoConn => p.realm # request[job].realm)
            => p \in Effective'
  <1>1. [KeepsGrants]_vars => [Survives]_vars
    BY DEF KeepsGrants, Live
  <1>2. QED
    BY <1>1, GrantsOutliveCrashes, PTL DEF GrantsLast, ForeverPinSurvives
===============================================================================
