-------------------------- MODULE KeyExchangeProofs ---------------------------
(***************************************************************************)
(* Proofs about KeyExchange for any algorithms, configurations, lists and  *)
(* number of requests.                                                     *)
(***************************************************************************)
EXTENDS KeyExchange, ListsProofs

\* What must hold of a client state `c` before build_as_req(): its next request
\* keeps the policy, continues what was sent, and its DH key fits its group.
ChoiceInv(c) ==
  /\ c \in ClientState
  /\ c.kem # NoAlg => MeetsPolicy(c.kem)
  /\ c.kem = NoAlg => MeetsPolicy(c.group) /\ c.kemKey = NoKey
  /\ \A i \in DOMAIN sent :
       config.pqCert /\ sent[i].alg \in Kems => c.kem # NoAlg
  /\ c.dhKey # NoKey => c.dhKey.alg = c.group /\ c.dhKey.born <= Len(sent)

\* A KEM key pair is named after the request it was made for.
SentInv ==
  \A i \in DOMAIN sent :
    /\ sent[i].key.alg = sent[i].alg
    /\ sent[i].alg \in Kems => sent[i].key.born = i

\* While the exchange is open, key_exchange tells what was sent last, and a DH
\* key that was sent is still there.
LatestInv ==
  /\ outcome = "open" /\ sent # <<>> =>
       /\ client.kex = sent[Len(sent)].alg
       /\ client.kex \in Groups => client.dhKey = sent[Len(sent)].key
  /\ client.kemKey # NoKey => sent # <<>> /\ client.kemKey = sent[Len(sent)].key

\* A reply repeats the request it answers.
RepliesInv ==
  \A r \in replies :
    r.alg = sent[r.nonce].alg /\ r.key = sent[r.nonce].key

\* The inductive invariant.
IInv ==
  /\ TypeOK
  /\ outcome = "open" => ChoiceInv(client)
  /\ SentInv
  /\ LatestInv
  /\ RepliesInv
  /\ NeverBelowPolicy
  /\ NoFallBackAfterKem
  /\ KeysAgree
-------------------------------------------------------------------------------
(* Policy *)

\* The floor is an algorithm, and require_kem always has one.
LEMMA FloorType ==
  ASSUME NEW cfg \in ClientConfig
  PROVE  /\ Floor(cfg) \in Kems \cup {NoAlg}
         /\ cfg.requireKem => Floor(cfg) # NoAlg
  BY AlgorithmsAssumption DEF Floor, ClientConfig, Algs

\* What the client picks from any list is an algorithm it implements, keeps its
\* policy, and is no group once a PQ client has sent a KEM key.
LEMMA PreferredMeetsPolicy ==
  ASSUME config \in ClientConfig, NEW list, NEW skipped,
         NEW a \in Preferred(list, skipped)
  PROVE  /\ a \in Algs
         /\ MeetsPolicy(a)
         /\ a \notin Kems => ~(config.pqCert /\ client.kex \in Kems)
  <1>1. Recognized(a) /\ Accepts(a)
    BY DEF Preferred, Eligible
  <1>2. a \in Algs
    BY <1>1, AlgorithmsAssumption DEF Recognized, Algs
  <1>3. MeetsPolicy(a)
    <2>1. CASE a \in Kems
      BY <2>1, <1>1, AlgorithmsAssumption DEF MeetsPolicy, Accepts
    <2>2. CASE a \notin Kems
      BY <2>2, <1>1 DEF MeetsPolicy, Accepts, DhAllowed, Recognized, LongEnough
    <2>3. QED
      BY <2>1, <2>2
  <1>4. QED
    BY <1>1, <1>2, <1>3 DEF Accepts, DhAllowed

\* Switching to a picked algorithm is a sound choice.
LEMMA ApplyKeepsChoice ==
  ASSUME IInv, outcome = "open", NEW list, NEW skipped,
         NEW a \in Preferred(list, skipped)
  PROVE  ChoiceInv(Apply(client, a))
  <1>1. config \in ClientConfig /\ client \in ClientState /\ ChoiceInv(client)
    BY DEF IInv, TypeOK
  <1>2. /\ a \in Algs /\ MeetsPolicy(a)
        /\ a \notin Kems => ~(config.pqCert /\ client.kex \in Kems)
    BY <1>1, PreferredMeetsPolicy
  <1>3. a # NoAlg
    BY <1>2, AlgorithmsAssumption
  <1>4. CASE a \in Kems
    <2>1. /\ SetKem(client, a) \in ClientState
          /\ SetKem(client, a).kem = a
          /\ SetKem(client, a).dhKey = client.dhKey
          /\ SetKem(client, a).group = client.group
      BY <1>1, <1>4 DEF SetKem, ClientState
    <2>2. QED
      BY <2>1, <1>1, <1>2, <1>3, <1>4 DEF ChoiceInv, Apply
  <1>5. CASE a \notin Kems
    <2>1. /\ SetGroup(client, a) \in ClientState
          /\ SetGroup(client, a).kem = NoAlg
          /\ SetGroup(client, a).group = a
          /\ SetGroup(client, a).dhKey = NoKey
          /\ SetGroup(client, a).kemKey = NoKey
      BY <1>1, <1>2, <1>5 DEF SetGroup, ClientState, Algs
    <2>2. ASSUME NEW i \in DOMAIN sent, config.pqCert, sent[i].alg \in Kems
          PROVE  FALSE
      <3>1. /\ sent \in Seq(Request) /\ sent # <<>> /\ Len(sent) \in DOMAIN sent
            /\ i \in 1..Len(sent) /\ Len(sent) \in Nat
        BY <2>2 DEF IInv, TypeOK
      <3>2. sent[Len(sent)].alg \in Kems
        <4>1. CASE i = Len(sent)
          BY <4>1, <2>2
        <4>2. CASE i < Len(sent)
          BY <4>2, <2>2, <3>1 DEF IInv, NoFallBackAfterKem
        <4>3. QED
          BY <4>1, <4>2, <3>1
      <3>3. client.kex \in Kems
        BY <3>1, <3>2 DEF IInv, LatestInv
      <3>4. QED
        BY <3>3, <2>2, <1>2, <1>5
    <2>3. QED
      BY <2>1, <2>2, <1>2, <1>5 DEF ChoiceInv, Apply
  <1>6. QED
    BY <1>4, <1>5
-------------------------------------------------------------------------------
(* Initial states *)

LEMMA InitIInv == Init => IInv
  <1> SUFFICES ASSUME Init
               PROVE  IInv
    OBVIOUS
  <1>1. config \in ClientConfig /\ client = NewClient(config)
    BY ConfigsAssumption DEF Init
  <1>2. /\ Floor(config) \in Kems \cup {NoAlg}
        /\ config.requireKem => Floor(config) # NoAlg
    BY <1>1, FloorType
  <1>3. client \in ClientState
    BY <1>1, <1>2 DEF NewClient, ClientState, ClientConfig
  <1>4. /\ client.kem = Floor(config) /\ client.group = config.group
        /\ client.dhKey = NoKey /\ client.kemKey = NoKey
    BY <1>1 DEF NewClient
  <1>5. TypeOK
    BY <1>1, <1>3, <1>4, ConfigsAssumption DEF TypeOK, Init
  <1>6. client.kem # NoAlg => MeetsPolicy(client.kem)
    <2> SUFFICES ASSUME client.kem # NoAlg
                 PROVE  MeetsPolicy(client.kem)
      OBVIOUS
    <2>1. client.kem \in Kems /\ client.kem \notin Groups
      BY <1>2, <1>4, AlgorithmsAssumption
    <2>2. Strength[client.kem] \in Nat
      BY <2>1, AlgorithmsAssumption
    <2>3. QED
      BY <2>1, <2>2, <1>4 DEF MeetsPolicy
  <1>7. client.kem = NoAlg => MeetsPolicy(client.group)
    <2>1. config.group \in Groups /\ config.group \notin Kems
      BY <1>1, AlgorithmsAssumption DEF ClientConfig
    <2>2. QED
      BY <2>1, <1>2, <1>4 DEF MeetsPolicy
  <1>8. ChoiceInv(client)
    BY <1>3, <1>4, <1>6, <1>7 DEF ChoiceInv, Init
  <1>9. SentInv /\ LatestInv /\ RepliesInv
    BY <1>4 DEF SentInv, LatestInv, RepliesInv, Init
  <1>10. NeverBelowPolicy /\ NoFallBackAfterKem /\ KeysAgree
    BY DEF NeverBelowPolicy, NoFallBackAfterKem, KeysAgree, Init
  <1>11. QED
    BY <1>5, <1>8, <1>9, <1>10 DEF IInv
-------------------------------------------------------------------------------
(* Steps *)

\* Whatever the client sends next, by a sound choice `c` and with a key named
\* after this request if it is a KEM's, the history of requests stays sound.
LEMMA AppendKeepsHistory ==
  ASSUME IInv, outcome = "open", Len(sent) < MaxRequests,
         UNCHANGED <<configVars, errors, replies, outcome, agreed>>,
         NEW q \in Request, sent' = Append(sent, q),
         q.key.alg = q.alg, q.alg \in Kems => q.key.born = Len(sent) + 1,
         MeetsPolicy(q.alg),
         \A i \in DOMAIN sent :
           config.pqCert /\ sent[i].alg \in Kems => q.alg \in Kems
  PROVE  /\ sent' \in Seq(Request) /\ Len(sent') <= MaxRequests
         /\ Len(sent') = Len(sent) + 1 /\ sent' # <<>>
         /\ sent'[Len(sent')] = q
         /\ \A i \in DOMAIN sent : i \in DOMAIN sent' /\ sent'[i] = sent[i]
         /\ DOMAIN sent' = DOMAIN sent \cup {Len(sent')}
         /\ (SentInv /\ RepliesInv /\ NeverBelowPolicy)'
         /\ (NoFallBackAfterKem /\ KeysAgree)'
         /\ \A e \in errors' : e.kdc \in Kdcs /\ e.nonce \in DOMAIN sent'
         /\ \A r \in replies' : r \in Reply /\ r.nonce \in DOMAIN sent'
  <1>1. sent \in Seq(Request) /\ Len(sent) \in Nat /\ MaxRequests \in Nat
    BY ConfigsAssumption DEF IInv, TypeOK
  <1>2. /\ sent' \in Seq(Request) /\ Len(sent') <= MaxRequests
        /\ Len(sent') = Len(sent) + 1 /\ sent' # <<>>
        /\ sent'[Len(sent')] = q
    BY <1>1
  <1>3. \A i \in DOMAIN sent : i \in DOMAIN sent' /\ sent'[i] = sent[i]
    BY <1>1
  <1>4. DOMAIN sent' = DOMAIN sent \cup {Len(sent')}
    BY <1>1, <1>2
  <1>5. SentInv'
    BY <1>2, <1>3, <1>4 DEF IInv, SentInv
  <1>6. /\ \A e \in errors' : e.kdc \in Kdcs /\ e.nonce \in DOMAIN sent'
        /\ \A r \in replies' : r \in Reply /\ r.nonce \in DOMAIN sent'
    BY <1>3 DEF IInv, TypeOK
  <1>7. RepliesInv'
    BY <1>3 DEF IInv, TypeOK, RepliesInv
  <1>8. NeverBelowPolicy'
    <2>1. \A a : MeetsPolicy(a)' <=> MeetsPolicy(a)
      BY DEF MeetsPolicy, configVars, Floor
    <2>2. QED
      BY <2>1, <1>2, <1>3, <1>4 DEF IInv, NeverBelowPolicy, MeetsPolicy, configVars, Floor
  <1>9. NoFallBackAfterKem'
    <2> SUFFICES ASSUME NEW i \in DOMAIN sent', NEW j \in DOMAIN sent',
                        config.pqCert, i < j, sent'[i].alg \in Kems
                 PROVE  sent'[j].alg \in Kems
      BY DEF NoFallBackAfterKem, configVars
    <2>1. i \in DOMAIN sent
      BY <1>1, <1>2, <1>4
    <2>2. CASE j \in DOMAIN sent
      BY <2>1, <2>2, <1>3 DEF IInv, NoFallBackAfterKem
    <2>3. CASE j = Len(sent')
      BY <2>1, <2>3, <1>2, <1>3
    <2>4. QED
      BY <2>2, <2>3, <1>4
  <1>10. KeysAgree'
    BY DEF KeysAgree
  <1>11. QED
    BY <1>2, <1>3, <1>4, <1>5, <1>6, <1>7, <1>8, <1>9, <1>10

LEMMA SendKemIInv ==
  ASSUME IInv, outcome = "open", Len(sent) < MaxRequests,
         NEW c, ChoiceInv(c), c.kem # NoAlg, SendKem(c),
         UNCHANGED <<configVars, errors, replies>>
  PROVE  IInv'
  <1> DEFINE q == [alg |-> c.kem, key |-> KemKeyFor(c)]
  <1>1. /\ c \in ClientState /\ c.kem \in Kems /\ c.kem \in Algs
        /\ c.kem \notin Groups /\ Len(sent) \in Nat
    BY AlgorithmsAssumption DEF ChoiceInv, ClientState, Algs, IInv, TypeOK
  <1>2. /\ KemKeyFor(c) \in Key /\ KemKeyFor(c) # NoKey
        /\ KemKeyFor(c).alg = c.kem /\ KemKeyFor(c).born = Len(sent) + 1
    BY <1>1, NoKeyAssumption DEF KemKeyFor, Key
  <1>3. q \in Request /\ q.alg = c.kem /\ q.key = KemKeyFor(c)
    BY <1>1, <1>2 DEF Request
  <1>4. sent' = Append(sent, q) /\ UNCHANGED <<outcome, agreed>>
    BY DEF SendKem
  <1> HIDE DEF q
  <1>5. MeetsPolicy(q.alg)
    BY <1>3 DEF ChoiceInv
  <1>6. /\ sent' \in Seq(Request) /\ Len(sent') <= MaxRequests
        /\ Len(sent') = Len(sent) + 1 /\ sent' # <<>>
        /\ sent'[Len(sent')] = q
        /\ (SentInv /\ RepliesInv /\ NeverBelowPolicy)'
        /\ (NoFallBackAfterKem /\ KeysAgree)'
        /\ \A e \in errors' : e.kdc \in Kdcs /\ e.nonce \in DOMAIN sent'
        /\ \A r \in replies' : r \in Reply /\ r.nonce \in DOMAIN sent'
    BY <1>1, <1>2, <1>3, <1>4, <1>5, AppendKeepsHistory
  <1>7. /\ client' \in ClientState
        /\ client'.kex = c.kem /\ client'.kemKey = KemKeyFor(c)
        /\ client'.kem = c.kem /\ client'.group = c.group
        /\ client'.dhKey = c.dhKey
    BY <1>1, <1>2 DEF SendKem, ClientState
  <1>8. TypeOK'
    BY <1>1, <1>2, <1>4, <1>6, <1>7 DEF TypeOK, IInv, ChoiceInv, configVars
  <1>9. ChoiceInv(client)'
    <2>1. MeetsPolicy(client.kem)'
      BY <1>3, <1>5, <1>7 DEF MeetsPolicy, Floor, configVars
    <2>2. client'.dhKey # NoKey => client'.dhKey.alg = client'.group
                                   /\ client'.dhKey.born <= Len(sent')
      BY <1>1, <1>6, <1>7, NoKeyAssumption DEF ChoiceInv, ClientState, Key
    <2>3. QED
      BY <1>7, <2>1, <2>2 DEF ChoiceInv
  <1>10. LatestInv'
    BY <1>1, <1>3, <1>6, <1>7 DEF LatestInv
  <1>11. QED
    BY <1>6, <1>8, <1>9, <1>10 DEF IInv

LEMMA SendDhIInv ==
  ASSUME IInv, outcome = "open", Len(sent) < MaxRequests,
         NEW c, ChoiceInv(c), c.kem = NoAlg, SendDh(c),
         UNCHANGED <<configVars, errors, replies>>
  PROVE  IInv'
  <1> DEFINE q == [alg |-> c.group, key |-> DhKeyFor(c)]
  <1>1. /\ c \in ClientState /\ c.group \in Groups /\ c.group \in Algs
        /\ c.group \notin Kems /\ Len(sent) \in Nat /\ c.kemKey = NoKey
    BY AlgorithmsAssumption DEF ChoiceInv, ClientState, Algs, IInv, TypeOK
  <1>2. /\ DhKeyFor(c) \in Key /\ DhKeyFor(c) # NoKey
        /\ DhKeyFor(c).alg = c.group /\ DhKeyFor(c).born <= Len(sent) + 1
    <2>1. CASE c.dhKey = NoKey
      BY <1>1, <2>1, NoKeyAssumption DEF DhKeyFor, Key
    <2>2. CASE c.dhKey # NoKey
      BY <1>1, <2>2 DEF DhKeyFor, Key, ChoiceInv, ClientState
    <2>3. QED
      BY <2>1, <2>2
  <1>3. q \in Request /\ q.alg = c.group /\ q.key = DhKeyFor(c)
    BY <1>1, <1>2 DEF Request
  <1>4. sent' = Append(sent, q) /\ UNCHANGED <<outcome, agreed>>
    BY DEF SendDh
  <1> HIDE DEF q
  <1>5. MeetsPolicy(q.alg)
    BY <1>3 DEF ChoiceInv
  <1>6. \A i \in DOMAIN sent : ~(config.pqCert /\ sent[i].alg \in Kems)
    BY DEF ChoiceInv
  <1>7. /\ sent' \in Seq(Request) /\ Len(sent') <= MaxRequests
        /\ Len(sent') = Len(sent) + 1 /\ sent' # <<>>
        /\ sent'[Len(sent')] = q
        /\ \A i \in DOMAIN sent : i \in DOMAIN sent' /\ sent'[i] = sent[i]
        /\ DOMAIN sent' = DOMAIN sent \cup {Len(sent')}
        /\ (SentInv /\ RepliesInv /\ NeverBelowPolicy)'
        /\ (NoFallBackAfterKem /\ KeysAgree)'
        /\ \A e \in errors' : e.kdc \in Kdcs /\ e.nonce \in DOMAIN sent'
        /\ \A r \in replies' : r \in Reply /\ r.nonce \in DOMAIN sent'
    BY <1>1, <1>2, <1>3, <1>4, <1>5, <1>6, AppendKeepsHistory
  <1>8. /\ client' \in ClientState
        /\ client'.kex = c.group /\ client'.dhKey = DhKeyFor(c)
        /\ client'.kem = NoAlg /\ client'.group = c.group
        /\ client'.kemKey = NoKey
    BY <1>1, <1>2 DEF SendDh, ClientState
  <1>9. TypeOK'
    BY <1>1, <1>2, <1>4, <1>7, <1>8 DEF TypeOK, IInv, configVars
  <1>10. ChoiceInv(client)'
    <2>1. MeetsPolicy(client.group)'
      BY <1>3, <1>5, <1>8 DEF MeetsPolicy, Floor, configVars
    <2>2. \A i \in DOMAIN sent' : ~(config'.pqCert /\ sent'[i].alg \in Kems)
      BY <1>1, <1>3, <1>6, <1>7 DEF configVars
    <2>3. QED
      BY <1>2, <1>7, <1>8, <2>1, <2>2 DEF ChoiceInv
  <1>11. LatestInv'
    BY <1>1, <1>3, <1>7, <1>8 DEF LatestInv
  <1>12. QED
    BY <1>7, <1>9, <1>10, <1>11 DEF IInv

\* An attempt that fails leaves nothing but the outcome behind.
LEMMA FailIInv ==
  ASSUME IInv, outcome = "open", Fail, UNCHANGED client,
         UNCHANGED <<configVars, errors, replies>>
  PROVE  IInv'
  <1>1. /\ outcome' = "failed"
        /\ UNCHANGED <<config, kdcs, client, sent, errors, replies, agreed>>
    BY DEF Fail, configVars
  <1>2. TypeOK'
    BY <1>1 DEF IInv, TypeOK
  <1>3. (SentInv /\ LatestInv /\ RepliesInv)'
    BY <1>1 DEF IInv, SentInv, LatestInv, RepliesInv
  <1>4. NeverBelowPolicy'
    BY <1>1 DEF IInv, NeverBelowPolicy, MeetsPolicy, Floor
  <1>5. (NoFallBackAfterKem /\ KeysAgree)'
    BY <1>1 DEF IInv, NoFallBackAfterKem, KeysAgree
  <1>6. QED
    BY <1>1, <1>2, <1>3, <1>4, <1>5 DEF IInv

\* build_as_req() for a sound choice.  Its last check can fail for no choice of
\* the negotiation: require_kem and a group together break the policy.
LEMMA BuildIInv ==
  ASSUME IInv, outcome = "open", Len(sent) < MaxRequests,
         NEW c, ChoiceInv(c), Build(c),
         UNCHANGED <<configVars, errors, replies>>
  PROVE  IInv'
  <1>1. CASE c.kem # NoAlg /\ SendKem(c)
    BY <1>1, SendKemIInv
  <1>2. CASE c.kem = NoAlg /\ SendDh(c)
    BY <1>2, SendDhIInv
  <1>3. CASE c.kem = NoAlg /\ config.requireKem
    BY <1>3 DEF ChoiceInv, MeetsPolicy, ClientState
  <1>4. QED
    BY <1>1, <1>2, <1>3 DEF Build

LEMMA HintIInv ==
  ASSUME IInv, NEW list, Hint(list)
  PROVE  IInv'
  <1>1. /\ outcome = "open" /\ Len(sent) < MaxRequests
        /\ UNCHANGED <<configVars, errors, replies>>
    BY DEF Hint
  <1>2. ChoiceInv(client)
    BY <1>1 DEF IInv
  <1>3. CASE Build(client)
    <2>1. PICK c : c = client
      OBVIOUS
    <2>2. ChoiceInv(c) /\ Build(c)
      BY <2>1, <1>2, <1>3
    <2>3. QED
      BY <1>1, <2>2, BuildIInv
  <1>4. ASSUME NEW a \in Preferred(list, NoAlg), Build(Apply(client, a))
        PROVE  IInv'
    <2>1. PICK c : c = Apply(client, a)
      OBVIOUS
    <2>2. ChoiceInv(c) /\ Build(c)
      BY <2>1, <1>1, <1>4, ApplyKeepsChoice
    <2>3. QED
      BY <1>1, <2>2, BuildIInv
  <1>5. CASE Fail /\ UNCHANGED client
    BY <1>1, <1>5, FailIInv
  <1>6. QED
    BY <1>3, <1>4, <1>5 DEF Hint

LEMMA TryAgainIInv ==
  ASSUME IInv, NEW e, TryAgain(e)
  PROVE  IInv'
  <1>1. /\ outcome = "open" /\ Len(sent) < MaxRequests
        /\ UNCHANGED <<configVars, errors, replies>>
    BY DEF TryAgain
  <1>2. ASSUME NEW a \in Preferred(e.list, client.kex), Build(Apply(client, a))
        PROVE  IInv'
    <2>1. PICK c : c = Apply(client, a)
      OBVIOUS
    <2>2. ChoiceInv(c) /\ Build(c)
      BY <2>1, <1>1, <1>2, ApplyKeepsChoice
    <2>3. QED
      BY <1>1, <2>2, BuildIInv
  <1>3. CASE Fail /\ UNCHANGED client
    BY <1>1, <1>3, FailIInv
  <1>4. QED
    BY <1>2, <1>3 DEF TryAgain

\* Whatever the KDC answers, it answers a request the client has sent.
LEMMA KdcStepIInv ==
  ASSUME IInv, NEW k \in Kdcs, NEW n \in DOMAIN sent, KdcStep(k, n)
  PROVE  IInv'
  <1>1. /\ outcome = "open"
        /\ UNCHANGED <<config, kdcs, client, sent, outcome, agreed>>
    BY DEF KdcStep, configVars
  <1>2. /\ \A e \in errors' : e.kdc \in Kdcs /\ e.nonce \in DOMAIN sent
        /\ \A r \in replies' : r \in Reply /\ r.nonce \in DOMAIN sent
        /\ RepliesInv'
    <2>1. /\ \A e \in errors : e.kdc \in Kdcs /\ e.nonce \in DOMAIN sent
          /\ \A r \in replies : r \in Reply /\ r.nonce \in DOMAIN sent
          /\ RepliesInv
      BY DEF IInv, TypeOK
    <2>2. CASE Reject(k, n) \/ Refuse(k, n)
      <3>1. PICK typed, list : errors' = errors \cup {Error(k, n, typed, list)}
        BY <2>2 DEF Reject, Refuse
      <3>2. replies' = replies
        BY <2>2 DEF Reject, Refuse
      <3>3. QED
        BY <1>1, <2>1, <3>1, <3>2 DEF Error, RepliesInv
    <2>3. CASE Grant(k, n)
      <3>1. sent[n] \in Request /\ n \in Nat
        BY DEF IInv, TypeOK
      <3>2. [kdc |-> k, nonce |-> n, alg |-> sent[n].alg, key |-> sent[n].key]
              \in Reply
        BY <3>1 DEF Request, Reply
      <3>3. QED
        BY <1>1, <2>1, <2>3, <3>2 DEF Grant, RepliesInv
    <2>4. QED
      BY <2>2, <2>3 DEF KdcStep
  <1>3. TypeOK'
    BY <1>1, <1>2 DEF IInv, TypeOK
  <1>4. ChoiceInv(client)'
    BY <1>1 DEF IInv, ChoiceInv, MeetsPolicy, Floor
  <1>5. (SentInv /\ LatestInv)'
    BY <1>1 DEF IInv, SentInv, LatestInv
  <1>6. NeverBelowPolicy'
    BY <1>1 DEF IInv, NeverBelowPolicy, MeetsPolicy, Floor
  <1>7. (NoFallBackAfterKem /\ KeysAgree)'
    BY <1>1 DEF IInv, NoFallBackAfterKem, KeysAgree
  <1>8. QED
    BY <1>2, <1>3, <1>4, <1>5, <1>6, <1>7 DEF IInv

\* A reply with the nonce and the algorithm of the latest request answers it
\* with the key the client holds, so both sides derive the same.
LEMMA ReplyKeyMatches ==
  ASSUME IInv, outcome = "open", NEW r \in replies, r.nonce = Len(sent),
         NEW own, own \in Key, own.alg = r.alg,
         \/ r.alg \in Kems /\ own = client.kemKey /\ own # NoKey
         \/ r.alg \in Groups /\ own = client.dhKey
  PROVE  /\ Derived(r, own) = Issued(r)
         /\ Derived(r, own) \in ReplyKey
         /\ client.kex = r.alg
  <1>1. /\ r \in Reply /\ r.nonce \in DOMAIN sent /\ sent # <<>>
        /\ sent \in Seq(Request) /\ Len(sent) \in Nat
    BY DEF IInv, TypeOK
  <1>2. r.alg = sent[Len(sent)].alg /\ r.key = sent[Len(sent)].key
    BY DEF IInv, RepliesInv
  <1>3. client.kex = r.alg
    BY <1>1, <1>2 DEF IInv, LatestInv
  <1>4. own = r.key
    BY <1>1, <1>2, <1>3 DEF IInv, LatestInv
  <1>5. QED
    BY <1>1, <1>3, <1>4 DEF Derived, Issued, ReplyKey, Reply, Algs

LEMMA ProcessReplyIInv ==
  ASSUME IInv, NEW r \in replies, ProcessReply(r)
  PROVE  IInv'
  <1>1. /\ outcome = "open"
        /\ UNCHANGED <<config, kdcs, sent, errors, replies>>
    BY DEF ProcessReply, configVars
  <1>2. client \in ClientState
    BY DEF IInv, TypeOK
  <1>3. /\ outcome' \in {"done", "failed"}
        /\ client' \in ClientState
        /\ client'.dhKey = client.dhKey /\ client'.group = client.group
        /\ client'.kem = client.kem /\ client'.kex = client.kex
        /\ client'.kemKey \in {client.kemKey, NoKey}
    BY <1>2 DEF ProcessReply, ProcessKemRep, ProcessDhRep, Finish, ClientState
  <1>4. agreed' \in ReplyKey \cup {NoResult} /\ KeysAgree'
    <2>1. CASE outcome' = "failed"
      BY <2>1 DEF ProcessReply, ProcessKemRep, ProcessDhRep, Finish, KeysAgree
    <2>2. CASE outcome' = "done" /\ ProcessKemRep(r)
      <3>1. /\ r.alg \in Kems /\ r.nonce = Len(sent)
            /\ client.kemKey # NoKey /\ r.alg = client.kemKey.alg
            /\ agreed' = Derived(r, client.kemKey)
            /\ kdcs[r.kdc].trusted
            /\ config.pqCert => kdcs[r.kdc].pqSigner
        BY <2>2 DEF ProcessKemRep, Finish
      <3>2. client.kemKey \in Key
        BY <1>2, <3>1 DEF ClientState
      <3>3. PICK own : own = client.kemKey
        OBVIOUS
      <3>4. /\ Derived(r, own) = Issued(r) /\ Derived(r, own) \in ReplyKey
            /\ client.kex = r.alg
        BY <1>1, <3>1, <3>2, <3>3, ReplyKeyMatches
      <3>5. agreed' = Derived(r, own)
        BY <3>1, <3>3 DEF Derived
      <3>6. QED
        BY <1>1, <1>3, <3>1, <3>4, <3>5 DEF KeysAgree, Issued
    <2>3. CASE outcome' = "done" /\ ProcessDhRep(r)
      <3>1. /\ r.alg \in Groups /\ r.nonce = Len(sent)
            /\ client.dhKey # NoKey /\ r.alg = client.dhKey.alg
            /\ agreed' = Derived(r, client.dhKey)
            /\ kdcs[r.kdc].trusted
        BY <2>3 DEF ProcessDhRep, Finish
      <3>2. client.dhKey \in Key /\ r.alg \notin Kems
        BY <1>2, <3>1, AlgorithmsAssumption DEF ClientState
      <3>3. PICK own : own = client.dhKey
        OBVIOUS
      <3>4. /\ Derived(r, own) = Issued(r) /\ Derived(r, own) \in ReplyKey
            /\ client.kex = r.alg
        BY <1>1, <3>1, <3>2, <3>3, ReplyKeyMatches
      <3>5. agreed' = Derived(r, own)
        BY <3>1, <3>3 DEF Derived
      <3>6. QED
        BY <1>1, <1>3, <3>1, <3>2, <3>4, <3>5 DEF KeysAgree, Issued
    <2>4. QED
      BY <1>3, <2>1, <2>2, <2>3 DEF ProcessReply
  <1>5. TypeOK'
    BY <1>1, <1>3, <1>4 DEF IInv, TypeOK
  <1>6. (SentInv /\ LatestInv /\ RepliesInv)'
    BY <1>1, <1>3 DEF IInv, SentInv, LatestInv, RepliesInv
  <1>7. (NeverBelowPolicy /\ NoFallBackAfterKem)'
    BY <1>1 DEF IInv, NeverBelowPolicy, MeetsPolicy, Floor, NoFallBackAfterKem
  <1>8. QED
    BY <1>3, <1>4, <1>5, <1>6, <1>7 DEF IInv

LEMMA StutterIInv == IInv /\ UNCHANGED vars => IInv'
  <1> SUFFICES ASSUME IInv, UNCHANGED vars
               PROVE  IInv'
    OBVIOUS
  <1>1. UNCHANGED <<config, kdcs, client, sent, errors, replies, outcome, agreed>>
    BY DEF vars, configVars
  <1>2. (TypeOK /\ SentInv /\ LatestInv /\ RepliesInv)'
    BY <1>1 DEF IInv, TypeOK, SentInv, LatestInv, RepliesInv
  <1>3. (NeverBelowPolicy /\ NoFallBackAfterKem /\ KeysAgree)'
    BY <1>1 DEF IInv, NeverBelowPolicy, MeetsPolicy, Floor, NoFallBackAfterKem,
                KeysAgree
  <1>4. outcome' = "open" => ChoiceInv(client)'
    BY <1>1 DEF IInv, ChoiceInv, MeetsPolicy, Floor
  <1>5. QED
    BY <1>2, <1>3, <1>4 DEF IInv

LEMMA NextIInv == IInv /\ [Next]_vars => IInv'
  <1> SUFFICES ASSUME IInv, [Next]_vars
               PROVE  IInv'
    OBVIOUS
  <1>1. ASSUME NEW k \in Kdcs, Hint(Advertised(kdcs[k]))
        PROVE  IInv'
    <2>1. PICK list : list = Advertised(kdcs[k])
      OBVIOUS
    <2>2. Hint(list)
      BY <2>1, <1>1
    <2>3. QED
      BY <2>2, HintIInv
  <1>2. ASSUME NEW list, Hint(list)
        PROVE  IInv'
    BY <1>2, HintIInv
  <1>3. ASSUME NEW e, TryAgain(e)
        PROVE  IInv'
    BY <1>3, TryAgainIInv
  <1>4. CASE LoopLimit
    BY <1>4, FailIInv DEF LoopLimit
  <1>5. ASSUME NEW k \in Kdcs, NEW n \in DOMAIN sent, KdcStep(k, n)
        PROVE  IInv'
    BY <1>5, KdcStepIInv
  <1>6. CASE Receive
    BY <1>6, ProcessReplyIInv DEF Receive
  <1>7. CASE UNCHANGED vars
    BY <1>7, StutterIInv
  <1>8. QED
    BY <1>1, <1>2, <1>3, <1>4, <1>5, <1>6, <1>7 DEF Next
-------------------------------------------------------------------------------
(* What the KDC advertises *)

\* Typed data go out with a refusal of the request they answer, and hold the
\* whole list of the KDC that refused it.
RefusalInv ==
  \A e \in errors :
    \/ e.list = <<>>
    \/ /\ e.list = Advertised(kdcs[e.kdc])
       /\ ~AcceptsAlg(kdcs[e.kdc], sent[e.nonce].alg)

\* The three parts of the list are lists of algorithms.
LEMMA AdvertisedParts ==
  ASSUME NEW s \in KdcConfig
  PROVE  /\ Chosen(PureLadder, PureKems(s)) \in Seq(Algs)
         /\ s.composites \in Seq(Algs)
         /\ Chosen(GroupOrder, {g \in Groups : ~s.requireKem /\ Bits[g] >= s.minBits})
              \in Seq(Algs)
         /\ Advertised(s) \in Seq(Algs)
  <1>1. /\ PureLadder \in Seq(Algs) /\ GroupOrder \in Seq(Algs)
        /\ s.composites \in Seq(Algs)
    BY AlgorithmsAssumption DEF Algs, KdcConfig
  <1>2. /\ Chosen(PureLadder, PureKems(s)) \in Seq(Algs)
        /\ Chosen(GroupOrder, {g \in Groups : ~s.requireKem /\ Bits[g] >= s.minBits})
             \in Seq(Algs)
    BY <1>1, ChosenMembers
  <1>3. QED
    BY <1>1, <1>2, ConcatProperties DEF Advertised

\* A member of the list is in one of its parts.
LEMMA AdvertisedMembers ==
  ASSUME NEW s \in KdcConfig, NEW a
  PROVE  Among(a, Advertised(s)) <=>
           \/ Among(a, PureLadder) /\ a \in PureKems(s)
           \/ Among(a, s.composites)
           \/ Among(a, GroupOrder) /\ a \in Groups /\ ~s.requireKem
                                   /\ Bits[a] >= s.minBits
  <1> DEFINE pure == Chosen(PureLadder, PureKems(s))
             groups == Chosen(GroupOrder,
                              {g \in Groups : ~s.requireKem /\ Bits[g] >= s.minBits})
  <1>1. /\ pure \in Seq(Algs) /\ s.composites \in Seq(Algs)
        /\ groups \in Seq(Algs) /\ pure \o s.composites \in Seq(Algs)
        /\ Advertised(s) = (pure \o s.composites) \o groups
    BY AdvertisedParts, ConcatProperties DEF Advertised
  <1>2. PureLadder \in Seq(Algs) /\ GroupOrder \in Seq(Algs)
    BY AlgorithmsAssumption DEF Algs
  <1>3. /\ Among(a, pure) <=> Among(a, PureLadder) /\ a \in PureKems(s)
        /\ Among(a, groups) <=>
             Among(a, GroupOrder) /\ a \in Groups /\ ~s.requireKem /\ Bits[a] >= s.minBits
    BY <1>2, ChosenMembers
  <1> HIDE DEF pure, groups
  <1>4. Among(a, pure \o s.composites) <=> Among(a, pure) \/ Among(a, s.composites)
    BY <1>1, AmongConcat
  <1>5. Among(a, (pure \o s.composites) \o groups)
          <=> Among(a, pure \o s.composites) \/ Among(a, groups)
    <2>1. PICK kems \in Seq(Algs) : kems = pure \o s.composites
      BY <1>1
    <2>2. Among(a, kems \o groups) <=> Among(a, kems) \/ Among(a, groups)
      BY <1>1, AmongConcat
    <2>3. QED
      BY <2>1, <2>2
  <1>6. QED
    BY <1>1, <1>3, <1>4, <1>5, Zenon

\* A KDC accepts all that it advertises.
LEMMA AdvertisedIsAccepted ==
  ASSUME NEW s \in KdcConfig, NEW a, Among(a, Advertised(s))
  PROVE  AcceptsAlg(s, a) /\ a \in Algs
  <1>1. CASE Among(a, PureLadder) /\ a \in PureKems(s)
    <2>1. a \in Kems \ Composites
      BY <1>1, AlgorithmsAssumption DEF Among
    <2>2. QED
      BY <1>1, <2>1 DEF AcceptsAlg, AcceptsKem, Algs
  <1>2. CASE Among(a, s.composites)
    <2>1. a \in Composites /\ Composites \subseteq Kems
      BY <1>2, AlgorithmsAssumption DEF Among, KdcConfig
    <2>2. QED
      BY <1>2, <2>1 DEF AcceptsAlg, AcceptsKem, Among, Algs
  <1>3. CASE a \in Groups /\ ~s.requireKem /\ Bits[a] >= s.minBits
    BY <1>3 DEF AcceptsAlg, AcceptsGroup, ValidParams, Algs
  <1>4. QED
    BY <1>1, <1>2, <1>3, AdvertisedMembers

LEMMA InitRefusalInv == Init => RefusalInv
  BY DEF Init, RefusalInv

\* Requests are only added, so an error keeps what it was about.
LEMMA SendKeepsRefusals ==
  ASSUME IInv, RefusalInv, UNCHANGED <<configVars, errors>>,
         \/ UNCHANGED sent
         \/ \E q : sent' = Append(sent, q)
  PROVE  RefusalInv'
  <1>1. \A e \in errors : e.nonce \in DOMAIN sent /\ sent \in Seq(Request)
    BY DEF IInv, TypeOK
  <1>2. \A n \in DOMAIN sent : sent'[n] = sent[n]
    BY DEF IInv, TypeOK
  <1>3. \A e \in errors : sent'[e.nonce] = sent[e.nonce]
    BY <1>1, <1>2
  <1>4. QED
    BY <1>3, ZenonT(30) DEF RefusalInv, configVars, AcceptsAlg, AcceptsKem, AcceptsGroup,
                ValidParams, PureKems, Advertised

LEMMA KdcStepRefusalInv ==
  ASSUME IInv, RefusalInv, NEW k \in Kdcs, NEW n \in DOMAIN sent, KdcStep(k, n)
  PROVE  RefusalInv'
  <1>1. UNCHANGED <<kdcs, sent>>
    BY DEF KdcStep, configVars
  <1>2. CASE Reject(k, n)
    BY <1>1, <1>2 DEF Reject, Error, RefusalInv
  <1>3. CASE Refuse(k, n)
    BY <1>1, <1>3 DEF Refuse, Error, RefusalInv
  <1>4. CASE Grant(k, n)
    BY <1>1, <1>4 DEF Grant, RefusalInv
  <1>5. QED
    BY <1>2, <1>3, <1>4 DEF KdcStep

\* What the client does to the requests: nothing, or one more.
LEMMA ClientOnlyAppends ==
  ASSUME \/ \E list : Hint(list)
         \/ \E e : TryAgain(e)
         \/ LoopLimit \/ Receive \/ UNCHANGED vars
  PROVE  /\ UNCHANGED <<configVars, errors>>
         /\ \/ UNCHANGED sent
            \/ \E q : sent' = Append(sent, q)
  <1>1. \A c : Build(c) => \/ UNCHANGED sent
                           \/ \E q : sent' = Append(sent, q)
    BY DEF Build, SendKem, SendDh, Fail
  <1>2. ASSUME NEW list, Hint(list)
        PROVE  /\ UNCHANGED <<configVars, errors>>
               /\ \/ UNCHANGED sent
                  \/ \E q : sent' = Append(sent, q)
    BY <1>1, <1>2 DEF Hint, Fail
  <1>3. ASSUME NEW e, TryAgain(e)
        PROVE  /\ UNCHANGED <<configVars, errors>>
               /\ \/ UNCHANGED sent
                  \/ \E q : sent' = Append(sent, q)
    BY <1>1, <1>3 DEF TryAgain, Fail
  <1>4. CASE LoopLimit \/ Receive \/ UNCHANGED vars
    BY <1>4 DEF LoopLimit, Fail, Receive, ProcessReply, vars
  <1>5. QED
    BY <1>2, <1>3, <1>4

LEMMA NextRefusalInv == IInv /\ RefusalInv /\ [Next]_vars => RefusalInv'
  <1> SUFFICES ASSUME IInv, RefusalInv, [Next]_vars
               PROVE  RefusalInv'
    OBVIOUS
  <1>1. CASE \/ \E list : Hint(list)
             \/ \E e : TryAgain(e)
             \/ LoopLimit \/ Receive \/ UNCHANGED vars
    BY <1>1, ClientOnlyAppends, SendKeepsRefusals
  <1>2. ASSUME NEW k \in Kdcs, NEW n \in DOMAIN sent, KdcStep(k, n)
        PROVE  RefusalInv'
    BY <1>2, KdcStepRefusalInv
  <1>3. QED
    BY <1>1, <1>2 DEF Next
-------------------------------------------------------------------------------
(* Convergence *)

\* Nobody but the realm's KDCs talks to the client, libkrb5 does not start over,
\* answers arrive while they are awaited, and a second request is allowed.
Quiet ==
  /\ ForeignLists = {} /\ ~Restarts /\ ~StaleDelivery
  /\ MaxRequests >= 2

\* The realm's KDCs are replicas, configured alike, that suit the client.
Alike == \A k, j \in Kdcs : kdcs[k] = kdcs[j]
AllCompatible == \A k \in Kdcs : Compatible(kdcs[k])

AllAccept(ks, a) == \A k \in Kdcs : AcceptsAlg(ks[k], a)

\* The algorithm of the next request, and of the first one without a hint.
NextAlg(c) == IF c.kem = NoAlg THEN c.group ELSE c.kem
FirstGuess(cfg) == NextAlg(NewClient(cfg))

\* The KDCs refuse nothing but a first guess.
ConvergeInv ==
  /\ Alike /\ AllCompatible
  /\ outcome # "failed"
  /\ Len(sent) <= 2
  /\ outcome = "open" /\ sent = <<>> => client = NewClient(config)
  /\ outcome = "open" /\ client.kex \in Kems => client.kemKey # NoKey
  /\ Len(sent) = 1 => AllAccept(kdcs, sent[1].alg) \/ sent[1].alg = FirstGuess(config)
  /\ Len(sent) = 2 => AllAccept(kdcs, sent[2].alg)
  /\ \A e \in errors : /\ e.typed /\ e.list = Advertised(kdcs[e.kdc])
                       /\ ~AcceptsAlg(kdcs[e.kdc], sent[e.nonce].alg)

LEMMA InitConvergeInv == Init /\ Alike /\ AllCompatible => ConvergeInv
  <1> SUFFICES ASSUME Init, Alike, AllCompatible
               PROVE  ConvergeInv
    OBVIOUS
  <1>1. client.kex = NoAlg /\ NoAlg \notin Kems
    BY AlgorithmsAssumption DEF Init, NewClient, Algs
  <1>2. QED
    BY <1>1 DEF Init, ConvergeInv

\* Some algorithm is preferred when some algorithm will do.
LEMMA PreferredExists ==
  ASSUME NEW S, NEW list \in Seq(S), NEW skipped,
         NEW i \in Eligible(list, skipped)
  PROVE  Preferred(list, skipped) # {}
  <1>1. Eligible(list, skipped) \in SUBSET Nat
    BY LenProperties DEF Eligible
  <1>2. PICK k \in Eligible(list, skipped) :
               \A j \in Eligible(list, skipped) : k <= j
    BY <1>1, LeastElement
  <1>3. list[k] \in Preferred(list, skipped)
    BY <1>2 DEF Preferred
  <1>4. QED
    BY <1>3

\* A KDC that suits the client advertises something the client would pick,
\* unless it was that the client has just sent, or a KEM holds it back.
LEMMA CompatibleIsPreferred ==
  ASSUME IInv, NEW k \in Kdcs, Compatible(kdcs[k]), NEW skipped,
         \A a : Among(a, Advertised(kdcs[k])) => a # skipped,
         config.pqCert /\ Floor(config) = NoAlg => client.kex \notin Kems
  PROVE  /\ Advertised(kdcs[k]) # <<>>
         /\ Preferred(Advertised(kdcs[k]), skipped) # {}
         /\ \A a \in Preferred(Advertised(kdcs[k]), skipped) :
              AcceptsAlg(kdcs[k], a) /\ a \in Algs
  <1>1. PICK s \in KdcConfig : s = kdcs[k]
    BY ConfigsAssumption DEF IInv, TypeOK
  <1>2. PICK list \in Seq(Algs) : list = Advertised(kdcs[k])
    BY <1>1, AdvertisedParts
  <1>3. PICK i \in DOMAIN list :
          /\ MeetsPolicy(list[i])
          /\ list[i] \in Kems \cup Curves \/ Bits[list[i]] >= config.minBits
    BY <1>2 DEF Compatible
  <1>4. list[i] \in Algs /\ Among(list[i], list)
    BY <1>2, <1>3, LenProperties DEF Among
  <1>5. Recognized(list[i]) /\ list[i] # skipped
    BY <1>2, <1>3, <1>4 DEF Recognized, LongEnough, Algs
  <1>6. Accepts(list[i])
    BY <1>3, <1>4 DEF Accepts, MeetsPolicy, DhAllowed, Algs
  <1>7. i \in Eligible(list, skipped)
    BY <1>3, <1>5, <1>6 DEF Eligible
  <1>8. Preferred(list, skipped) # {}
    BY <1>7, PreferredExists
  <1>9. ASSUME NEW a \in Preferred(list, skipped)
        PROVE  AcceptsAlg(kdcs[k], a) /\ a \in Algs
    <2>1. Among(a, Advertised(s))
      BY <1>1, <1>2 DEF Preferred, Eligible, Among
    <2>2. QED
      BY <1>1, <2>1, AdvertisedIsAccepted
  <1>10. list # <<>>
    BY <1>3
  <1>11. QED
    BY <1>2, <1>8, <1>9, <1>10

\* What build_as_req() does for a sound choice: one more request, with the
\* algorithm chosen and, for a KEM, its decapsulation key in the state.
LEMMA BuildSends ==
  ASSUME IInv, outcome = "open", NEW c, ChoiceInv(c), Build(c)
  PROVE  /\ UNCHANGED outcome
         /\ \E q : sent' = Append(sent, q) /\ q.alg = NextAlg(c)
         /\ client'.kex \in Kems => client'.kemKey # NoKey
  <1>1. c \in ClientState /\ Len(sent) \in Nat
    BY DEF ChoiceInv, IInv, TypeOK
  <1>2. CASE c.kem # NoAlg /\ SendKem(c)
    <2>1. c.kem \in Kems
      BY <1>1, <1>2 DEF ClientState
    <2>2. KemKeyFor(c) \in Key
      BY <1>1, <2>1 DEF KemKeyFor, Key, Algs
    <2>3. client'.kemKey = KemKeyFor(c)
      BY <1>1, <1>2 DEF SendKem, ClientState
    <2>4. QED
      BY <1>2, <2>2, <2>3, NoKeyAssumption DEF SendKem, NextAlg
  <1>3. CASE c.kem = NoAlg /\ SendDh(c)
    <2>1. client'.kex = c.group /\ c.group \in Groups
      BY <1>1, <1>3 DEF SendDh, ClientState
    <2>2. QED
      BY <1>3, <2>1, AlgorithmsAssumption, SMTT(30) DEF SendDh, NextAlg
  <1>4. CASE c.kem = NoAlg /\ config.requireKem
    BY <1>1, <1>4 DEF ChoiceInv, MeetsPolicy, ClientState
  <1>5. QED
    BY <1>2, <1>3, <1>4 DEF Build

\* The configurations stay, and with them all that depends on them alone.
LEMMA PolicyFrame ==
  ASSUME UNCHANGED <<config, kdcs>>
  PROVE  /\ Alike' <=> Alike
         /\ AllCompatible' <=> AllCompatible
  <1>1. Alike' <=> Alike
    BY DEF Alike
  <1>2. \A s : Compatible(s)' <=> Compatible(s)
    BY DEF Compatible, MeetsPolicy, Floor
  <1>3. AllCompatible' <=> AllCompatible
    BY <1>2 DEF AllCompatible, Compatible, MeetsPolicy, Floor
  <1>4. QED
    BY <1>1, <1>3

\* A first request, by the hint or without one, and a second one that every
\* KDC accepts keep the exchange on its way.
LEMMA SendConvergeInv ==
  ASSUME IInv, ConvergeInv, outcome = "open", UNCHANGED <<configVars, errors>>,
         NEW c, ChoiceInv(c), Build(c),
         \/ sent = <<>> /\ (NextAlg(c) = FirstGuess(config) \/ AllAccept(kdcs, NextAlg(c)))
         \/ Len(sent) = 1 /\ AllAccept(kdcs, NextAlg(c))
  PROVE  ConvergeInv'
  <1>1. /\ UNCHANGED outcome
        /\ \E q : sent' = Append(sent, q) /\ q.alg = NextAlg(c)
        /\ client'.kex \in Kems => client'.kemKey # NoKey
    BY BuildSends
  <1>2. PICK q : sent' = Append(sent, q) /\ q.alg = NextAlg(c)
    BY <1>1
  <1>3. /\ sent \in Seq(Request) /\ Len(sent) \in Nat
        /\ UNCHANGED <<config, kdcs, errors>>
    BY DEF IInv, TypeOK, configVars
  <1>4. /\ Len(sent') = Len(sent) + 1 /\ sent' # <<>> /\ Len(sent') <= 2
        /\ sent'[Len(sent')] = q
        /\ \A n \in DOMAIN sent : sent'[n] = sent[n]
    <2>1. /\ Len(sent') = Len(sent) + 1 /\ sent'[Len(sent')] = q
          /\ \A n \in 1..Len(sent) : sent'[n] = sent[n]
      BY <1>2, <1>3, AppendProperties
    <2>2. sent' # <<>> /\ DOMAIN sent = 1..Len(sent)
      BY <1>2, <1>3
    <2>3. Len(sent) \in {0, 1}
      BY <1>3
    <2>4. QED
      BY <2>1, <2>2, <2>3
  <1>5. (Alike /\ AllCompatible)'
    BY <1>3, PolicyFrame DEF ConvergeInv
  <1>6. Len(sent') = 1 =>
          AllAccept(kdcs', sent'[1].alg) \/ sent'[1].alg = FirstGuess(config')
    <2> SUFFICES ASSUME Len(sent') = 1
                 PROVE  AllAccept(kdcs, sent'[1].alg) \/ sent'[1].alg = FirstGuess(config)
      BY <1>3
    <2>1. Len(sent) = 0 /\ sent'[1] = q
      BY <1>3, <1>4
    <2>2. QED
      BY <1>2, <2>1
  <1>7. Len(sent') = 2 => AllAccept(kdcs', sent'[2].alg)
    <2> SUFFICES ASSUME Len(sent') = 2
                 PROVE  AllAccept(kdcs, sent'[2].alg)
      BY <1>3
    <2>1. sent # <<>> /\ sent'[2] = q
      BY <1>3, <1>4
    <2>2. QED
      BY <1>2, <2>1
  <1>8. ASSUME NEW e \in errors'
        PROVE  /\ e.typed /\ e.list = Advertised(kdcs'[e.kdc])
               /\ ~AcceptsAlg(kdcs'[e.kdc], sent'[e.nonce].alg)
    <2>1. e \in errors /\ e.nonce \in DOMAIN sent
      BY <1>3, <1>8 DEF IInv, TypeOK
    <2>2. sent'[e.nonce] = sent[e.nonce]
      BY <1>4, <2>1
    <2>3. QED
      BY <1>3, <2>1, <2>2 DEF ConvergeInv
  <1>9. QED
    BY <1>1, <1>4, <1>5, <1>6, <1>7, <1>8 DEF ConvergeInv

\* What one of KDCs alike accepts, all accept.
LEMMA AlikeAccept ==
  ASSUME Alike, NEW k \in Kdcs, NEW a, AcceptsAlg(kdcs[k], a)
  PROVE  AllAccept(kdcs, a)
  BY DEF Alike, AllAccept

LEMMA ApplyNextAlg ==
  ASSUME NEW c \in ClientState, NEW a \in Algs
  PROVE  NextAlg(Apply(c, a)) = a
  <1>1. CASE a \in Kems
    BY <1>1, AlgorithmsAssumption DEF Apply, SetKem, NextAlg, ClientState, Algs
  <1>2. CASE a \notin Kems
    BY <1>2 DEF Apply, SetGroup, NextAlg, ClientState
  <1>3. QED
    BY <1>1, <1>2

LEMMA HintConvergeInv ==
  ASSUME Quiet, IInv, ConvergeInv, NEW list, Hint(list),
         list = <<>> \/ \E k \in Kdcs : list = Advertised(kdcs[k])
  PROVE  ConvergeInv'
  <1>1. /\ outcome = "open" /\ sent = <<>> /\ client = NewClient(config)
        /\ UNCHANGED <<configVars, errors>> /\ ChoiceInv(client)
        /\ client \in ClientState
    BY DEF Hint, Quiet, ConvergeInv, IInv, TypeOK
  <1>2. CASE Keeps(list)
    <2>1. PICK c : c = client
      OBVIOUS
    <2>2. Build(c) /\ ChoiceInv(c) /\ NextAlg(c) = FirstGuess(config)
      BY <1>1, <1>2, <2>1 DEF Hint, FirstGuess
    <2>3. QED
      BY <1>1, <2>2, SendConvergeInv
  <1>3. CASE ~Keeps(list)
    <2>1. PICK k \in Kdcs : list = Advertised(kdcs[k])
      BY <1>3 DEF Keeps
    <2>2. Compatible(kdcs[k]) /\ Alike
      BY DEF ConvergeInv, AllCompatible
    <2>3. client.kex = NoAlg /\ NoAlg \notin Kems
      BY <1>1, AlgorithmsAssumption DEF NewClient, Algs
    <2>4. \A a : Among(a, Advertised(kdcs[k])) => a # NoAlg
      <3>1. PICK s \in KdcConfig : s = kdcs[k]
        BY ConfigsAssumption DEF IInv, TypeOK
      <3>2. QED
        BY <3>1, AdvertisedIsAccepted, AlgorithmsAssumption
    <2>5. /\ Preferred(list, NoAlg) # {}
          /\ \A a \in Preferred(list, NoAlg) : AcceptsAlg(kdcs[k], a) /\ a \in Algs
      BY <2>1, <2>2, <2>3, <2>4, CompatibleIsPreferred
    <2>6. PICK a \in Preferred(list, NoAlg) : Build(Apply(client, a))
      BY <1>3, <2>5 DEF Hint
    <2>7. PICK c : c = Apply(client, a)
      OBVIOUS
    <2>8. ChoiceInv(c) /\ Build(c)
      BY <1>1, <2>6, <2>7, ApplyKeepsChoice
    <2>9. NextAlg(c) = a /\ AllAccept(kdcs, a)
      BY <1>1, <2>2, <2>5, <2>6, <2>7, ApplyNextAlg, AlikeAccept
    <2>10. QED
      BY <1>1, <2>8, <2>9, SendConvergeInv
  <1>4. QED
    BY <1>2, <1>3

\* The latest request can only have been refused when it was a first guess.
LEMMA RefusedGuess ==
  ASSUME IInv, ConvergeInv, NEW e \in errors, e.nonce = Len(sent)
  PROVE  /\ e.kdc \in Kdcs /\ Len(sent) = 1 /\ sent[1].alg = FirstGuess(config)
         /\ e.typed /\ e.list = Advertised(kdcs[e.kdc])
         /\ ~AcceptsAlg(kdcs[e.kdc], sent[1].alg)
  <1>1. /\ e.kdc \in Kdcs /\ e.nonce \in DOMAIN sent
        /\ sent \in Seq(Request) /\ Len(sent) \in Nat
    BY DEF IInv, TypeOK
  <1>2. /\ e.typed /\ e.list = Advertised(kdcs[e.kdc])
        /\ ~AcceptsAlg(kdcs[e.kdc], sent[Len(sent)].alg)
    BY DEF ConvergeInv
  <1>3. ~AllAccept(kdcs, sent[Len(sent)].alg)
    BY <1>1, <1>2, Zenon DEF AllAccept
  <1>4. Len(sent) \in {1, 2}
    <2>1. DOMAIN sent = 1..Len(sent)
      BY <1>1, LenProperties
    <2>2. Len(sent) <= 2
      BY DEF ConvergeInv
    <2>3. QED
      BY <1>1, <2>1, <2>2
  <1>5. Len(sent) = 1
    BY <1>3, <1>4 DEF ConvergeInv
  <1>6. QED
    BY <1>1, <1>2, <1>3, <1>5 DEF ConvergeInv

LEMMA TryAgainConvergeInv ==
  ASSUME Quiet, IInv, ConvergeInv, NEW e \in errors, TryAgain(e)
  PROVE  ConvergeInv'
  <1>1. /\ outcome = "open" /\ e.nonce = Len(sent)
        /\ UNCHANGED <<configVars, errors>>
        /\ client \in ClientState /\ ChoiceInv(client)
        /\ sent # <<>> /\ sent \in Seq(Request)
    BY DEF TryAgain, Quiet, IInv, TypeOK
  <1>2. /\ e.kdc \in Kdcs /\ Len(sent) = 1 /\ sent[1].alg = FirstGuess(config)
        /\ e.typed /\ e.list = Advertised(kdcs[e.kdc])
        /\ ~AcceptsAlg(kdcs[e.kdc], sent[1].alg)
    BY <1>1, RefusedGuess
  <1>3. client.kex = sent[1].alg
    BY <1>1, <1>2 DEF IInv, LatestInv
  <1>4. PICK k \in Kdcs : k = e.kdc
    BY <1>2
  <1>5. Compatible(kdcs[k]) /\ Alike
    BY DEF ConvergeInv, AllCompatible
  <1>6. \A a : Among(a, Advertised(kdcs[k])) => a # client.kex
    <2>1. PICK s \in KdcConfig : s = kdcs[k]
      BY ConfigsAssumption DEF IInv, TypeOK
    <2>2. QED
      BY <1>2, <1>3, <1>4, <2>1, AdvertisedIsAccepted
  <1>7. config.pqCert /\ Floor(config) = NoAlg => client.kex \notin Kems
    <2> SUFFICES ASSUME Floor(config) = NoAlg
                 PROVE  client.kex \notin Kems
      OBVIOUS
    <2>1. client.kex = config.group
      BY <1>2, <1>3 DEF FirstGuess, NextAlg, NewClient
    <2>2. QED
      BY <2>1, AlgorithmsAssumption DEF IInv, TypeOK, ClientConfig
  <1>8. /\ Preferred(e.list, client.kex) # {}
        /\ \A a \in Preferred(e.list, client.kex) :
             AcceptsAlg(kdcs[k], a) /\ a \in Algs
    BY <1>2, <1>4, <1>5, <1>6, <1>7, CompatibleIsPreferred
  <1>9. PICK a \in Preferred(e.list, client.kex) : Build(Apply(client, a))
    BY <1>2, <1>8 DEF TryAgain
  <1>10. PICK c : c = Apply(client, a)
    OBVIOUS
  <1>11. ChoiceInv(c) /\ Build(c)
    BY <1>1, <1>9, <1>10, ApplyKeepsChoice
  <1>12. NextAlg(c) = a /\ AllAccept(kdcs, a)
    BY <1>1, <1>5, <1>8, <1>9, <1>10, ApplyNextAlg, AlikeAccept
  <1>13. QED
    BY <1>1, <1>2, <1>11, <1>12, SendConvergeInv

LEMMA KdcStepConvergeInv ==
  ASSUME IInv, ConvergeInv, NEW k \in Kdcs, NEW n \in DOMAIN sent, KdcStep(k, n)
  PROVE  ConvergeInv'
  <1>1. UNCHANGED <<config, kdcs, client, sent, outcome>>
    BY DEF KdcStep, configVars
  <1>2. Compatible(kdcs[k])
    BY DEF ConvergeInv, AllCompatible
  <1>3. \A e \in errors' : /\ e.typed /\ e.list = Advertised(kdcs[e.kdc])
                           /\ ~AcceptsAlg(kdcs[e.kdc], sent[e.nonce].alg)
    <2>1. CASE Reject(k, n)
      BY <1>2, <2>1 DEF Reject, Compatible
    <2>2. CASE Refuse(k, n)
      BY <2>2 DEF Refuse, Error, ConvergeInv
    <2>3. CASE Grant(k, n)
      BY <2>3 DEF Grant, ConvergeInv
    <2>4. QED
      BY <2>1, <2>2, <2>3 DEF KdcStep
  <1>4. (Alike /\ AllCompatible)'
    BY <1>1, PolicyFrame DEF ConvergeInv
  <1>5. QED
    BY <1>1, <1>3, <1>4, PolicyFrame DEF ConvergeInv

\* The answer to the latest request passes every test of process_as_rep().
LEMMA ProcessReplyConvergeInv ==
  ASSUME Quiet, IInv, ConvergeInv, NEW r \in replies, ProcessReply(r)
  PROVE  ConvergeInv'
  <1>1. /\ outcome = "open" /\ r.nonce = Len(sent)
        /\ UNCHANGED <<config, kdcs, sent, errors>>
    BY DEF ProcessReply, Quiet, configVars
  <1>2. /\ r \in Reply /\ r.kdc \in Kdcs /\ r.nonce \in DOMAIN sent
        /\ sent \in Seq(Request) /\ sent # <<>> /\ client \in ClientState
    BY DEF IInv, TypeOK, Reply
  <1>3. /\ kdcs[r.kdc].trusted
        /\ config.pqCert => kdcs[r.kdc].pqSigner
    BY <1>2 DEF ConvergeInv, AllCompatible, Compatible
  <1>4. /\ r.alg = sent[Len(sent)].alg /\ client.kex = r.alg
        /\ sent[Len(sent)].key.alg = r.alg
        /\ sent[Len(sent)].key \in Key
    <2>1. Len(sent) \in DOMAIN sent /\ sent[Len(sent)] \in Request
      BY <1>1, <1>2
    <2>2. r.alg = sent[Len(sent)].alg
      BY <1>1 DEF IInv, RepliesInv
    <2>3. client.kex = sent[Len(sent)].alg
      BY <1>1, <1>2 DEF IInv, LatestInv
    <2>4. sent[Len(sent)].key.alg = sent[Len(sent)].alg
      BY <2>1 DEF IInv, SentInv
    <2>5. QED
      BY <2>1, <2>2, <2>3, <2>4 DEF Request
  <1>5. outcome' = "done"
    <2>1. CASE ProcessKemRep(r)
      <3>1. r.alg \in Kems /\ client.kemKey # NoKey
        BY <1>1, <1>4, <2>1 DEF ProcessKemRep, ConvergeInv
      <3>2. client.kemKey = sent[Len(sent)].key
        BY <3>1 DEF IInv, LatestInv
      <3>3. QED
        BY <1>1, <1>3, <1>4, <2>1, <3>1, <3>2 DEF ProcessKemRep, Finish
    <2>2. CASE ProcessDhRep(r)
      <3>1. r.alg \in Groups
        BY <2>2 DEF ProcessDhRep
      <3>2. client.dhKey = sent[Len(sent)].key
        BY <1>1, <1>2, <1>4, <3>1 DEF IInv, LatestInv
      <3>3. QED
        BY <1>1, <1>3, <1>4, <2>2, <3>2, NoKeyAssumption DEF ProcessDhRep, Finish
    <2>3. QED
      BY <2>1, <2>2 DEF ProcessReply
  <1>6. (Alike /\ AllCompatible)'
    BY <1>1, PolicyFrame DEF ConvergeInv
  <1>7. QED
    BY <1>1, <1>5, <1>6, PolicyFrame DEF ConvergeInv

LEMMA NextConvergeInv ==
  Quiet /\ IInv /\ ConvergeInv /\ [Next]_vars => ConvergeInv'
  <1> SUFFICES ASSUME Quiet, IInv, ConvergeInv, [Next]_vars
               PROVE  ConvergeInv'
    OBVIOUS
  <1>1. ForeignErrors = {}
    BY DEF Quiet, ForeignErrors
  <1>2. ASSUME NEW k \in Kdcs, Hint(Advertised(kdcs[k]))
        PROVE  ConvergeInv'
    <2>1. PICK list : list = Advertised(kdcs[k])
      OBVIOUS
    <2>2. Hint(list)
      BY <1>2, <2>1
    <2>3. QED
      BY <2>1, <2>2, HintConvergeInv
  <1>3. ASSUME NEW list \in ForeignLists \cup {<<>>}, Hint(list)
        PROVE  ConvergeInv'
    <2>1. list = <<>>
      BY DEF Quiet
    <2>2. QED
      BY <1>3, <2>1, HintConvergeInv
  <1>4. ASSUME NEW e \in errors \cup ForeignErrors, TryAgain(e)
        PROVE  ConvergeInv'
    BY <1>1, <1>4, TryAgainConvergeInv
  <1>5. ~LoopLimit
    <2> SUFFICES ASSUME LoopLimit
                 PROVE  FALSE
      OBVIOUS
    <2>1. PICK e \in errors : e.nonce = Len(sent)
      BY <1>1 DEF LoopLimit
    <2>2. Len(sent) = 1
      BY <2>1, RefusedGuess
    <2>3. QED
      BY <2>2 DEF LoopLimit, Quiet
  <1>6. ASSUME NEW k \in Kdcs, NEW n \in DOMAIN sent, KdcStep(k, n)
        PROVE  ConvergeInv'
    BY <1>6, KdcStepConvergeInv
  <1>7. CASE Receive
    BY <1>7, ProcessReplyConvergeInv DEF Receive
  <1>8. CASE UNCHANGED vars
    <2>1. UNCHANGED <<config, kdcs, client, sent, errors, outcome>>
      BY <1>8 DEF vars, configVars
    <2>2. QED
      BY <2>1, PolicyFrame DEF ConvergeInv
  <1>9. QED
    BY <1>2, <1>3, <1>4, <1>5, <1>6, <1>7, <1>8 DEF Next
-------------------------------------------------------------------------------
(* Theorems *)

\* The inductive invariant holds of every exchange.
THEOREM Invariance == Spec => []IInv
  <1>1. Init => IInv
    BY InitIInv
  <1>2. IInv /\ [Next]_vars => IInv'
    BY NextIInv
  <1>3. QED
    BY <1>1, <1>2, PTL DEF Spec

\* The client's keys always belong to the algorithms it has chosen.
THEOREM TypeCorrectness == Spec => []TypeOK
  <1>1. IInv => TypeOK
    BY DEF IInv
  <1>2. QED
    BY <1>1, Invariance, PTL

\* Whatever lists the KDCs and anyone else send, and however often: no request
\* of the client breaks its policy.
THEOREM PolicyHolds == Spec => []NeverBelowPolicy
  <1>1. IInv => NeverBelowPolicy
    BY DEF IInv
  <1>2. QED
    BY <1>1, Invariance, PTL

\* A PQ client never goes back from a KEM it has sent, on whatever list.
THEOREM NoDowngrade == Spec => []NoFallBackAfterKem
  <1>1. IInv => NoFallBackAfterKem
    BY DEF IInv
  <1>2. QED
    BY <1>1, Invariance, PTL

\* No KEM key pair serves two requests, and the one held is the latest.
THEOREM FreshDecapsulationKeys == Spec => []DecapsulationKeyIsFresh
  <1>1. IInv => DecapsulationKeyIsFresh
    <2> SUFFICES ASSUME IInv
                 PROVE  DecapsulationKeyIsFresh
      OBVIOUS
    <2>1. ASSUME NEW i \in DOMAIN sent, NEW j \in DOMAIN sent,
                 sent[i].alg \in Kems, sent[i].key = sent[j].key
          PROVE  i = j
      <3>1. sent[j].alg = sent[i].alg
        BY <2>1 DEF IInv, SentInv
      <3>2. sent[i].key.born = i /\ sent[j].key.born = j
        BY <2>1, <3>1 DEF IInv, SentInv
      <3>3. QED
        BY <2>1, <3>2
    <2>2. QED
      BY <2>1 DEF IInv, LatestInv, DecapsulationKeyIsFresh
  <1>2. QED
    BY <1>1, Invariance, PTL

\* A client that finishes and a trusted KDC hold the same key for the client's
\* latest request, however late and from wherever replies arrive.
THEOREM ReplyKeysAgree == Spec => []KeysAgree
  <1>1. IInv => KeysAgree
    BY DEF IInv
  <1>2. QED
    BY <1>1, Invariance, PTL

\* The list of a KDC that refuses a request offers only what it would accept,
\* and never the refused algorithm again.
THEOREM RefusalsHelp == Spec => []RefusalOffersAlternatives
  <1>1. Init => IInv /\ RefusalInv
    BY InitIInv, InitRefusalInv
  <1>2. IInv /\ RefusalInv /\ [Next]_vars => (IInv /\ RefusalInv)'
    BY NextIInv, NextRefusalInv
  <1>3. IInv /\ RefusalInv => RefusalOffersAlternatives
    <2> SUFFICES ASSUME IInv, RefusalInv, NEW e \in errors, NEW i \in DOMAIN e.list
                 PROVE  /\ e.list[i] # sent[e.nonce].alg
                        /\ AcceptsAlg(kdcs[e.kdc], e.list[i])
      BY DEF RefusalOffersAlternatives
    <2>1. /\ e.list = Advertised(kdcs[e.kdc])
          /\ ~AcceptsAlg(kdcs[e.kdc], sent[e.nonce].alg)
      BY DEF RefusalInv
    <2>2. kdcs[e.kdc] \in KdcConfig
      BY ConfigsAssumption DEF IInv, TypeOK
    <2>3. Among(e.list[i], e.list)
      BY DEF Among
    <2>4. AcceptsAlg(kdcs[e.kdc], e.list[i])
      BY <2>1, <2>2, <2>3, AdvertisedIsAccepted
    <2>5. QED
      BY <2>1, <2>4
  <1>4. QED
    BY <1>1, <1>2, <1>3, PTL DEF Spec

\* Between a client and KDCs alike whose policies have an advertised algorithm in
\* common, with or without a hint, no exchange ever fails, and none takes more
\* than one request after the first guess.
THEOREM NeverFails ==
  ASSUME Quiet
  PROVE  Spec /\ Alike /\ AllCompatible => [](outcome # "failed" /\ Len(sent) <= 2)
  <1>1. Init /\ Alike /\ AllCompatible => IInv /\ ConvergeInv
    BY InitIInv, InitConvergeInv
  <1>2. IInv /\ ConvergeInv /\ [Next]_vars => (IInv /\ ConvergeInv)'
    BY NextIInv, NextConvergeInv
  <1>3. IInv /\ ConvergeInv => outcome # "failed" /\ Len(sent) <= 2
    BY DEF ConvergeInv
  <1>4. QED
    BY <1>1, <1>2, <1>3, PTL DEF Spec

\* So an exchange that ends, as TLC checks it does, ends in a key.
THEOREM EndingConverges ==
  ASSUME Quiet
  PROVE  Spec /\ Alike /\ Ends => Converges
  <1>1. Spec /\ Alike /\ AllCompatible => [](outcome # "failed" /\ Len(sent) <= 2)
    BY NeverFails
  <1>2. TypeOK /\ outcome # "failed" /\ Len(sent) <= 2 /\ outcome # "open"
          => outcome = "done"
    BY DEF TypeOK
  <1>3. Converges <=> (AllCompatible => <>(outcome = "done"))
    BY DEF Converges, AllCompatible
  <1>4. QED
    BY <1>1, <1>2, <1>3, TypeCorrectness, PTL DEF Ends
-------------------------------------------------------------------------------
(* Whom a hint turns away *)

\* The KDC has a list of pure KEMs, and one of the groups it lists, if it takes
\* any, is long enough for the client.
Forthcoming(s) ==
  /\ PureKems(s) # {}
  /\ s.requireKem \/ \E g \in Groups : /\ Among(g, GroupOrder) /\ LongEnough(g)
                                       /\ Bits[g] >= s.minBits
AllForthcoming == \A k \in Kdcs : Forthcoming(kdcs[k])

LadderIsWhole == \A a \in Kems \ Composites : Among(a, PureLadder)

\* Of what such a KDC accepts and the client accepts, its list offers something.
LEMMA ForthcomingOffers ==
  ASSUME LadderIsWhole, NEW s \in KdcConfig, Forthcoming(s),
         NEW a \in Algs, AcceptsAlg(s, a), Accepts(a)
  PROVE  Preferred(Advertised(s), NoAlg) # {}
  <1>1. PICK b \in Algs : Among(b, Advertised(s)) /\ Recognized(b) /\ Accepts(b)
    <2>1. CASE a \in Composites /\ a \in Kems
      BY <2>1, AdvertisedMembers, AlgorithmsAssumption
         DEF AcceptsAlg, AcceptsKem, Among, Recognized
    <2>2. CASE a \in Kems \ Composites
      <3>1. a \in PureKems(s)
        BY <2>2, AlgorithmsAssumption DEF AcceptsAlg, AcceptsKem, Forthcoming
      <3>2. QED
        BY <2>2, <3>1, AdvertisedMembers DEF LadderIsWhole, Recognized
    <2>3. CASE a \in Groups
      <3>1. a \notin Kems /\ ~s.requireKem /\ DhAllowed
        BY <2>3, AlgorithmsAssumption DEF AcceptsAlg, AcceptsGroup, Accepts
      <3>2. PICK g \in Groups : /\ Among(g, GroupOrder) /\ LongEnough(g)
                                /\ Bits[g] >= s.minBits
        BY <3>1 DEF Forthcoming
      <3>3. g \in Algs /\ g \notin Kems
        BY <3>2, AlgorithmsAssumption DEF Algs
      <3>4. Among(g, Advertised(s))
        BY <3>1, <3>2, AdvertisedMembers
      <3>5. QED
        BY <3>1, <3>2, <3>3, <3>4 DEF Recognized, Accepts
    <2>4. QED
      BY <2>1, <2>2, <2>3 DEF Algs
  <1>2. b # NoAlg
    BY AlgorithmsAssumption
  <1>3. PICK list \in Seq(Algs) : list = Advertised(s)
    BY AdvertisedParts
  <1>4. PICK i \in DOMAIN list : list[i] = b
    BY <1>1, <1>3 DEF Among
  <1>5. i \in Eligible(list, NoAlg)
    BY <1>1, <1>2, <1>4 DEF Eligible
  <1>6. QED
    BY <1>3, <1>5, PreferredExists

\* Only a hint can end an exchange before its first request.
LEMMA EndedByTheHint ==
  ASSUME IInv, Next, sent' = <<>>, outcome' = "failed", ForeignLists = {}
  PROVE  /\ UNCHANGED <<config, kdcs, client>>
         /\ \E k \in Kdcs : Preferred(Advertised(kdcs[k]), NoAlg) = {}
  <1>1. sent \in Seq(Request)
    BY DEF IInv, TypeOK
  <1>2. \A q : sent' # Append(sent, q)
    <2>1. ASSUME NEW q, sent' = Append(sent, q)
          PROVE  FALSE
      <3>1. sent \in Seq(Request \cup {q})
        BY <1>1
      <3>2. QED
        BY <2>1, <3>1, AppendProperties
    <2>2. QED
      BY <2>1
  <1>3. ASSUME NEW list, Hint(list)
        PROVE  /\ UNCHANGED <<config, kdcs, client>>
               /\ ~Keeps(list) /\ Preferred(list, NoAlg) = {}
    <2>1. outcome = "open" /\ ChoiceInv(client)
      BY <1>3 DEF Hint, IInv
    <2>2. ASSUME NEW c, ChoiceInv(c), Build(c)
          PROVE  FALSE
      BY <1>2, <2>1, <2>2, BuildSends
    <2>3. ~Build(client)
      <3>1. PICK c : c = client
        OBVIOUS
      <3>2. QED
        BY <2>1, <2>2, <3>1
    <2>4. \A a \in Preferred(list, NoAlg) : ~Build(Apply(client, a))
      <3>1. SUFFICES ASSUME NEW a \in Preferred(list, NoAlg), Build(Apply(client, a))
                     PROVE  FALSE
        OBVIOUS
      <3>2. PICK c : c = Apply(client, a)
        OBVIOUS
      <3>3. ChoiceInv(c) /\ Build(c)
        BY <2>1, <3>1, <3>2, ApplyKeepsChoice
      <3>4. QED
        BY <2>2, <3>3
    <2>5. QED
      BY <1>3, <2>3, <2>4 DEF Hint, configVars
  <1>4. \E k \in Kdcs : Hint(Advertised(kdcs[k]))
    <2>1. ~\E e : TryAgain(e)
      <3>1. SUFFICES ASSUME NEW e, TryAgain(e)
                     PROVE  FALSE
        OBVIOUS
      <3>2. sent # <<>> /\ (UNCHANGED sent \/ \E q : sent' = Append(sent, q))
        BY <3>1, ClientOnlyAppends DEF TryAgain
      <3>3. QED
        BY <1>2, <3>2
    <2>2. ~LoopLimit /\ ~Receive
      <3>1. SUFFICES ASSUME LoopLimit \/ Receive
                     PROVE  FALSE
        OBVIOUS
      <3>2. sent = <<>>
        BY <3>1 DEF LoopLimit, Fail, Receive, ProcessReply
      <3>3. errors = {} /\ replies = {}
        BY <3>2 DEF IInv, TypeOK
      <3>4. ForeignErrors = {}
        BY DEF ForeignErrors
      <3>5. QED
        BY <3>1, <3>3, <3>4 DEF LoopLimit, Receive
    <2>3. ~\E k \in Kdcs : \E n \in DOMAIN sent : KdcStep(k, n)
      BY DEF KdcStep
    <2>4. ~Hint(<<>>)
      BY <1>3 DEF Keeps
    <2>5. QED
      BY <2>1, <2>2, <2>3, <2>4 DEF Next
  <1>5. QED
    BY <1>3, <1>4

\* What server.rs:73 says of the hint is right of KDCs alike that have a list of
\* pure KEMs: a client that ends at their hint had nothing to offer them.  It is
\* the KDC without one, which accepts every pure KEM, that turns clients away.
THEOREM NobodyIsTurnedAway ==
  ASSUME LadderIsWhole, ForeignLists = {}
  PROVE  Spec /\ Alike /\ AllForthcoming => []HintTurnsNobodyAway
  <1> DEFINE Fixed == Alike /\ AllForthcoming
  <1>1. Fixed /\ [Next]_vars => Fixed'
    <2> SUFFICES ASSUME Fixed, [Next]_vars
                 PROVE  Fixed'
      OBVIOUS
    <2>1. UNCHANGED configVars
      BY ClientOnlyAppends DEF Next, KdcStep, vars
    <2>2. QED
      BY <2>1 DEF configVars, Alike, AllForthcoming, Forthcoming, LongEnough
  <1>2. Init => HintTurnsNobodyAway
    BY DEF Init, HintTurnsNobodyAway
  <1>3. IInv /\ Fixed /\ HintTurnsNobodyAway /\ [Next]_vars => HintTurnsNobodyAway'
    <2> SUFFICES ASSUME IInv, Fixed, HintTurnsNobodyAway, [Next]_vars,
                        outcome' = "failed", sent' = <<>>,
                        NEW j \in Kdcs, NEW a \in Algs,
                        AcceptsAlg(kdcs'[j], a), Accepts(a)'
                 PROVE  FALSE
      BY DEF HintTurnsNobodyAway, AcceptsAlg, AcceptsKem, AcceptsGroup, ValidParams, PureKems
    <2>1. CASE UNCHANGED vars
      BY <2>1 DEF vars, configVars, HintTurnsNobodyAway, Accepts, DhAllowed
    <2>2. CASE Next
      <3>1. /\ UNCHANGED <<config, kdcs, client>>
            /\ \E k \in Kdcs : Preferred(Advertised(kdcs[k]), NoAlg) = {}
        BY <2>2, EndedByTheHint
      <3>2. PICK k \in Kdcs : Preferred(Advertised(kdcs[k]), NoAlg) = {}
        BY <3>1
      <3>3. PICK s \in KdcConfig : s = kdcs[k]
        BY ConfigsAssumption DEF IInv, TypeOK
      <3>4. AcceptsAlg(s, a) /\ Forthcoming(s)
        BY <3>1, <3>3 DEF Alike, AllForthcoming
      <3>5. Accepts(a)
        BY <3>1 DEF Accepts, DhAllowed
      <3>6. QED
        BY <3>2, <3>3, <3>4, <3>5, ForthcomingOffers
    <2>3. QED
      BY <2>1, <2>2
  <1>4. QED
    BY <1>1, <1>2, <1>3, Invariance, PTL DEF Spec
===============================================================================
