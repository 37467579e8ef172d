-------------------------- MODULE ClientPluginProofs ---------------------------
(* Safety of the client plugin over the exchanges of one context. *)
EXTENDS ClientPlugin, TLAPS

\* A client state is of an exchange that has begun.
BuiltInv ==
  /\ step # "idle" => exchange.n >= 1
  /\ \A s \in state : s.builtIn <= exchange.n

\* Nothing is pending while a request is out, none is out between exchanges, and
\* an exchange under way has no verdict.
SentInv ==
  /\ sent # {} => pending = {}
  /\ step = "idle" => sent = {}
  /\ step = "sent" => sent # {}
  /\ step # "idle" => verdict = "none"

\* The question of this round, the identity it is about and what became of it.
AskedInv ==
  /\ step = "round" => ~asked
  /\ response = "right" => asked
  /\ asked /\ step # "idle" =>
       /\ ~exchange.anonymous
       /\ Relations.requireKem # {} => config.requireKem = Relations.requireKem
       /\ \A p \in pending :
            /\ p.kdcOf = exchange.realm /\ p.trusts = config.anchors
            /\ p.identity \in Locked /\ config.identity = {p.identity}
  /\ step = "prep" /\ asked =>
       pending # {} /\ config.identity # {} /\ config.identity \subseteq Locked
  /\ step = "process" /\ asked /\ response = "right" /\ pending = {} =>
       /\ state # {}
       /\ \A s \in state : s.identity \cap Locked # {} /\ s.builtIn = exchange.n

IInv ==
  /\ TypeOK
  /\ BuiltInv
  /\ SentInv
  /\ AskedInv
  /\ RequestCanBeAnswered
  /\ StateIsOfOneExchange

-------------------------------------------------------------------------------
(* Helpers *)

\* At most one: the empty set or a singleton.
LEMMA OptionalFacts ==
  ASSUME NEW S
  PROVE  /\ {} \in Optional(S) /\ IsOptional({}, S)
         /\ \A x \in S : {x} \in Optional(S) /\ IsOptional({x}, S)
         /\ \A o \in Optional(S) : o # {} => \E x \in S : o = {x}
  BY DEF Optional, IsOptional

\* What at most one state, or pending identity, is.
LEMMA OptionalOf ==
  ASSUME NEW S, NEW o, IsOptional(o, S)
  PROVE  /\ \A x \in o : x \in S
         /\ o # {} => \E x \in S : o = {x}
  BY DEF IsOptional

LEMMA StateType ==
  ASSUME ConstantsAssumption, TypeOK
  PROVE  \A s \in state : s \in State /\ s.builtIn \in Nat /\ s.builtIn >= 1
<1>1. \A s \in state : s \in State
  BY OptionalOf DEF TypeOK
<1>2. \A s \in State : s.builtIn \in 1..MaxExchanges
  BY DEF State
<1>3. QED
  BY <1>1, <1>2 DEF ConstantsAssumption

LEMMA ExchangeType ==
  ASSUME ConstantsAssumption, TypeOK
  PROVE  /\ exchange.n \in Nat /\ exchange.realm \in Realms
         /\ exchange.anonymous \in BOOLEAN
  BY DEF ConstantsAssumption, TypeOK

LEMMA RelationsType ==
  ASSUME ConstantsAssumption, TypeOK
  PROVE  /\ Relations.identity \in Optional(Idents)
         /\ Relations.anchors \subseteq Anchors
         /\ Relations.requireKem \in Optional(BOOLEAN)
  BY DEF ConstantsAssumption, TypeOK, Profile, Relations

\* What a client of the current exchange is built from.
Buildable(id, trusts, configuration, anonymous) ==
  /\ configuration \in Config
  /\ trusts = configuration.anchors
  /\ id = IF anonymous THEN {} ELSE configuration.identity
  /\ anonymous = exchange.anonymous
  /\ Relations.requireKem # {} => configuration.requireKem = Relations.requireKem

\* build_client makes a well-formed state of the current exchange.
LEMMA FreshClient ==
  ASSUME ConstantsAssumption, TypeOK, exchange.n >= 1,
         NEW id, NEW trusts, NEW configuration, NEW anonymous \in BOOLEAN,
         Buildable(id, trusts, configuration, anonymous)
  PROVE  LET new == Client(id, trusts, configuration, exchange.realm, anonymous)
         IN  /\ new \in State
             /\ new.builtIn = exchange.n /\ new.identity = id
             /\ OfOneExchange(new)
<1> DEFINE new == Client(id, trusts, configuration, exchange.realm, anonymous)
<1>1. exchange.n \in 1..MaxExchanges /\ exchange.realm \in Realms
  BY DEF TypeOK, ConstantsAssumption
<1>2. id \in Optional(Idents) /\ trusts \in SUBSET Anchors
  BY OptionalFacts DEF Buildable, Config
<1>3. new \in State
  BY <1>1, <1>2 DEF Client, State, Buildable
<1>4. /\ new.builtIn = exchange.n /\ new.identity = id
      /\ new.anonymous = anonymous /\ new.trusts = trusts
      /\ new.config = configuration /\ new.kdcOf = exchange.realm
  BY DEF Client
<1> HIDE DEF new
<1>5. OfOneExchange(new)
  BY <1>4 DEF OfOneExchange, Buildable
<1>6. QED
  BY <1>3, <1>4, <1>5 DEF new

\* read_client_config never forgets an identity and never has two, and the
\* relations it finds prevail where they parse.
LEMMA ConfigType ==
  ASSUME ConstantsAssumption, TypeOK, ReadClientConfig
  PROVE  /\ config' \in Config
         /\ config.identity # {} => config'.identity = config.identity
         /\ config.identity = {} => config'.identity = Relations.identity
         /\ Relations.parses /\ Relations.requireKem # {} =>
              config'.requireKem = Relations.requireKem
<1>1. config \in Config
  BY DEF TypeOK
<1>2. QED
  BY <1>1, RelationsType DEF ReadClientConfig, Config
-------------------------------------------------------------------------------
(* Initial states *)

LEMMA InitInv == ASSUME ConstantsAssumption, Init PROVE IInv
<1>1. TypeOK
  <2>1. exchange \in [n : 0..MaxExchanges, realm : Realms, default : Realms,
                      anonymous : BOOLEAN]
    <3>1. PICK r \in Realms :
            exchange = [n |-> 0, realm |-> r, default |-> r, anonymous |-> FALSE]
      BY DEF Init
    <3>2. 0 \in 0..MaxExchanges
      BY DEF ConstantsAssumption
    <3>3. QED
      BY <3>1, <3>2
  <2>2. config \in Config
    BY OptionalFacts DEF Init, Config
  <2>3. QED
    BY <2>1, <2>2, OptionalFacts DEF Init, TypeOK
<1>2. BuiltInv /\ SentInv /\ AskedInv
  BY DEF Init, BuiltInv, SentInv, AskedInv, Relations
<1>3. RequestCanBeAnswered /\ StateIsOfOneExchange
  BY DEF Init, RequestCanBeAnswered, StateIsOfOneExchange, OfOneExchange, Relations
<1>4. QED
  BY <1>1, <1>2, <1>3 DEF IInv
-------------------------------------------------------------------------------
(* The application *)

LEMMA ApplicationInv ==
  ASSUME ConstantsAssumption, IInv,
         \/ \E i \in Idents : SupplyIdentity(i)
         \/ \E a \in Anchors : SupplyAnchors(a)
         \/ \E r, d \in Realms, anonymous \in BOOLEAN : Begin(r, d, anonymous)
         \/ Abandon
  PROVE  IInv'
<1> USE DEF given, plugin, round
<1>1. CASE \E i \in Idents : SupplyIdentity(i)
  <2>1. TypeOK'
    <3>1. PICK i \in Idents : SupplyIdentity(i)
      BY <1>1
    <3>2. {i} \in Optional(Idents)
      BY OptionalFacts
    <3>3. supplied' \in Optional(Idents) /\ config' \in Config
      BY <3>1, <3>2 DEF SupplyIdentity, IInv, TypeOK, Config
    <3>4. QED
      BY <3>1, <3>3 DEF SupplyIdentity, IInv, TypeOK
  <2>2. BuiltInv' /\ SentInv' /\ AskedInv'
    BY <1>1 DEF SupplyIdentity, IInv, BuiltInv, SentInv, AskedInv, Relations
  <2>3. RequestCanBeAnswered' /\ StateIsOfOneExchange'
    BY <1>1 DEF SupplyIdentity, IInv, RequestCanBeAnswered, StateIsOfOneExchange, OfOneExchange, Relations
  <2>4. QED
    BY <2>1, <2>2, <2>3 DEF IInv
<1>2. CASE \E a \in Anchors : SupplyAnchors(a)
  <2>1. TypeOK'
    BY <1>2 DEF SupplyAnchors, IInv, TypeOK, Config
  <2>2. BuiltInv' /\ SentInv' /\ AskedInv'
    BY <1>2 DEF SupplyAnchors, IInv, BuiltInv, SentInv, AskedInv, Relations
  <2>3. RequestCanBeAnswered' /\ StateIsOfOneExchange'
    BY <1>2 DEF SupplyAnchors, IInv, RequestCanBeAnswered, StateIsOfOneExchange, OfOneExchange, Relations
  <2>4. QED
    BY <2>1, <2>2, <2>3 DEF IInv
<1>3. ASSUME NEW r \in Realms, NEW d \in Realms, NEW anonymous \in BOOLEAN,
             Begin(r, d, anonymous)
      PROVE  IInv'
  <2>1. exchange' \in [n : 0..MaxExchanges, realm : Realms, default : Realms,
                       anonymous : BOOLEAN]
        /\ exchange'.n = exchange.n + 1 /\ exchange.n \in Nat
    BY <1>3 DEF Begin, IInv, TypeOK, ConstantsAssumption
  <2>2. TypeOK'
    BY <1>3, <2>1 DEF Begin, IInv, TypeOK
  <2>3. BuiltInv' /\ \A s \in state : s.builtIn \in Nat /\ s.builtIn < exchange'.n
    <3>1. \A s \in state : s.builtIn \in Nat
      BY StateType DEF IInv
    <3>2. QED
      BY <1>3, <2>1, <3>1 DEF Begin, IInv, BuiltInv
  <2>4. SentInv' /\ AskedInv'
    BY <1>3 DEF Begin, IInv, SentInv, AskedInv
  <2>5. RequestCanBeAnswered'
    BY <1>3 DEF Begin, IInv, SentInv, RequestCanBeAnswered
  <2>6. StateIsOfOneExchange'
    BY <1>3, <2>3 DEF Begin, IInv, StateIsOfOneExchange, OfOneExchange, Relations
  <2>7. QED
    BY <2>2, <2>3, <2>4, <2>5, <2>6 DEF IInv
<1>4. CASE Abandon
  <2>1. TypeOK'
    BY <1>4 DEF Abandon, End, IInv, TypeOK
  <2>2. BuiltInv' /\ SentInv' /\ AskedInv'
    BY <1>4 DEF Abandon, End, IInv, BuiltInv, SentInv, AskedInv, Relations
  <2>3. RequestCanBeAnswered' /\ StateIsOfOneExchange'
    BY <1>4 DEF Abandon, End, IInv, RequestCanBeAnswered, StateIsOfOneExchange, OfOneExchange, Relations
  <2>4. QED
    BY <2>1, <2>2, <2>3 DEF IInv
<1>5. QED
  BY <1>1, <1>2, <1>3, <1>4
-------------------------------------------------------------------------------
(* init_etype_info *)

\* With a request out, its key is there: nothing but PrepKeeps is possible.
LEMMA SentHasKey ==
  ASSUME IInv, sent # {}
  PROVE  HasKey
  BY DEF IInv, RequestCanBeAnswered, HasKey

LEMMA PrepInv ==
  ASSUME ConstantsAssumption, IInv, InitEtypeInfo
  PROVE  IInv'
<1> USE DEF given, plugin, round
<1>1. /\ step \in {"round", "prep"}
      /\ exchange.n >= 1
      /\ exchange.n \in Nat /\ exchange.realm \in Realms
  <2>1. step \in {"round", "prep"}
    BY DEF InitEtypeInfo, PrepKeeps, PrepAborts, PrepNothing, PrepAnonymous,
           PrepLoads, PrepAsks, Configured, Preparing
  <2>2. QED
    BY <2>1, ExchangeType DEF IInv, BuiltInv
<1>2. CASE PrepKeeps
  <2>1. TypeOK'
    BY <1>2 DEF PrepKeeps, Preparing, IInv, TypeOK
  <2>2. BuiltInv' /\ SentInv' /\ AskedInv'
    BY <1>1, <1>2 DEF PrepKeeps, Preparing, IInv, BuiltInv, SentInv, AskedInv, Relations
  <2>3. RequestCanBeAnswered' /\ StateIsOfOneExchange'
    BY <1>2 DEF PrepKeeps, Preparing, IInv, RequestCanBeAnswered,
                StateIsOfOneExchange, OfOneExchange, Relations
  <2>4. QED
    BY <2>1, <2>2, <2>3 DEF IInv
<1>3. CASE PrepAborts
  <2>1. TypeOK'
    BY <1>3, ConfigType, OptionalFacts DEF PrepAborts, End, IInv, TypeOK
  <2>2. BuiltInv' /\ SentInv' /\ AskedInv'
    BY <1>3 DEF PrepAborts, End, IInv, BuiltInv, SentInv, AskedInv, Relations
  <2>3. RequestCanBeAnswered' /\ StateIsOfOneExchange'
    BY <1>3 DEF PrepAborts, End, IInv, RequestCanBeAnswered, StateIsOfOneExchange, OfOneExchange, Relations
  <2>4. QED
    BY <2>1, <2>2, <2>3 DEF IInv
<1>4. ASSUME Configured
      PROVE  /\ sent = {} /\ sent' = {} /\ step' = "prep"
             /\ config' \in Config
             /\ config.identity # {} => config'.identity = config.identity
             /\ Relations.requireKem # {} => config'.requireKem = Relations.requireKem
             /\ UNCHANGED <<given, exchange>>
  <2>1. sent = {}
    BY <1>4, SentHasKey DEF Configured
  <2>2. QED
    BY <1>4, <2>1, ConfigType DEF Configured, Preparing, IInv
<1>5. CASE PrepNothing
  <2>1. TypeOK'
    BY <1>4, <1>5 DEF PrepNothing, Configured, Preparing, IInv, TypeOK
  <2>2. BuiltInv' /\ SentInv' /\ AskedInv'
    BY <1>1, <1>4, <1>5 DEF PrepNothing, Configured, Preparing, IInv, BuiltInv,
                            SentInv, AskedInv, Relations
  <2>3. RequestCanBeAnswered' /\ StateIsOfOneExchange'
    BY <1>4, <1>5 DEF PrepNothing, Configured, Preparing, IInv,
                      RequestCanBeAnswered, StateIsOfOneExchange, OfOneExchange, Relations
  <2>4. QED
    BY <1>4, <1>5, <2>1, <2>2, <2>3 DEF IInv, PrepNothing
<1>6. ASSUME NEW id, NEW anonymous \in BOOLEAN, Configured,
             anonymous = exchange.anonymous,
             id = IF anonymous THEN {} ELSE config'.identity,
             state' = {Client(id, config'.anchors, config', exchange.realm, anonymous)}
      PROVE  IsOptional(state', State) /\ BuiltInv' /\ StateIsOfOneExchange'
  <2> DEFINE new == Client(id, config'.anchors, config', exchange.realm, anonymous)
  <2>1. Buildable(id, config'.anchors, config', anonymous)
    BY <1>4, <1>6 DEF Buildable
  <2>2. new \in State /\ new.builtIn = exchange.n /\ OfOneExchange(new)
    BY <1>1, <2>1, FreshClient DEF IInv
  <2> HIDE DEF new
  <2>3. state' = {new} /\ UNCHANGED <<given, exchange>>
    BY <1>4, <1>6 DEF new
  <2>4. IsOptional(state', State)
    BY <2>2, <2>3, OptionalFacts
  <2>5. BuiltInv'
    BY <1>1, <2>2, <2>3 DEF BuiltInv
  <2>6. StateIsOfOneExchange'
    BY <2>2, <2>3 DEF StateIsOfOneExchange, OfOneExchange, Relations
  <2>7. QED
    BY <2>4, <2>5, <2>6
<1>7. CASE PrepAnonymous
  <2>1. /\ TRUE = exchange.anonymous /\ Configured
        /\ state' = {Client({}, config'.anchors, config', exchange.realm, TRUE)}
    BY <1>7 DEF PrepAnonymous, IInv, TypeOK
  <2>2. IsOptional(state', State) /\ BuiltInv' /\ StateIsOfOneExchange'
    BY <1>6, <2>1
  <2>3. TypeOK'
    BY <1>4, <1>7, <2>2 DEF PrepAnonymous, Configured, Preparing, IInv, TypeOK
  <2>4. SentInv' /\ AskedInv' /\ RequestCanBeAnswered'
    BY <1>1, <1>4, <1>7 DEF PrepAnonymous, Configured, Preparing, IInv, SentInv,
                            AskedInv, Relations, RequestCanBeAnswered
  <2>5. QED
    BY <2>2, <2>3, <2>4 DEF IInv
<1>8. CASE PrepLoads
  <2>1. PICK i \in config'.identity \ (Locked \cup Broken) :
          state' = {Client({i}, config'.anchors, config', exchange.realm, FALSE)}
    BY <1>8 DEF PrepLoads
  <2>2. Configured /\ FALSE = exchange.anonymous
    BY <1>8 DEF PrepLoads, IInv, TypeOK
  <2>3. {i} = config'.identity
    BY <1>4, <2>1, <2>2, OptionalFacts DEF Config
  <2>4. ~asked
    BY <1>1, <1>4, <2>1, <2>2 DEF IInv, AskedInv
  <2>5. IsOptional(state', State) /\ BuiltInv' /\ StateIsOfOneExchange'
    BY <1>6, <2>1, <2>2, <2>3
  <2>6. TypeOK'
    BY <1>4, <1>8, <2>5, OptionalFacts DEF PrepLoads, Configured, Preparing, IInv, TypeOK
  <2>7. SentInv' /\ AskedInv' /\ RequestCanBeAnswered'
    BY <1>1, <1>4, <1>8, <2>4 DEF PrepLoads, Configured, Preparing, IInv, SentInv,
                            AskedInv, Relations, RequestCanBeAnswered
  <2>8. QED
    BY <2>5, <2>6, <2>7 DEF IInv
<1>9. CASE PrepAsks
  <2>1. PICK i \in config'.identity \cap Locked : pending' = {PendingFor(i)}
    BY <1>9 DEF PrepAsks
  <2>2. Configured /\ ~exchange.anonymous
    BY <1>9 DEF PrepAsks
  <2>3. i \in Idents /\ config'.identity = {i} /\ config'.anchors \subseteq Anchors
    BY <1>4, <2>1, <2>2, OptionalFacts DEF Config
  <2>4. /\ PendingFor(i) \in Pending
        /\ PendingFor(i).kdcOf = exchange.realm /\ PendingFor(i).identity = i
        /\ PendingFor(i).trusts = config'.anchors
    BY <1>1, <2>3 DEF PendingFor, Pending
  <2>5. TypeOK'
    BY <1>4, <1>9, <2>1, <2>4, OptionalFacts DEF PrepAsks, Configured, Preparing, IInv, TypeOK
  <2>6. BuiltInv' /\ SentInv'
    BY <1>1, <1>4, <1>9 DEF PrepAsks, Configured, Preparing, IInv, BuiltInv, SentInv
  <2>7. AskedInv'
    BY <1>4, <1>9, <2>1, <2>2, <2>3, <2>4
       DEF PrepAsks, Configured, Preparing, IInv, AskedInv, Relations
  <2>8. RequestCanBeAnswered' /\ StateIsOfOneExchange'
    BY <1>4, <1>9 DEF PrepAsks, Configured, Preparing, IInv, RequestCanBeAnswered,
                      StateIsOfOneExchange, OfOneExchange, Relations
  <2>9. QED
    BY <2>5, <2>6, <2>7, <2>8 DEF IInv
<1>10. QED
  BY <1>2, <1>3, <1>5, <1>7, <1>8, <1>9 DEF InitEtypeInfo
-------------------------------------------------------------------------------
(* The responder and the informational padata *)

LEMMA RespondInv == ASSUME IInv, Respond PROVE IInv'
<1>1. TypeOK'
  BY DEF Respond, given, plugin, IInv, TypeOK
<1>2. BuiltInv' /\ SentInv' /\ AskedInv'
  BY DEF Respond, given, plugin, IInv, BuiltInv, SentInv, AskedInv, Relations
<1>3. RequestCanBeAnswered' /\ StateIsOfOneExchange'
  BY DEF Respond, given, plugin, IInv, RequestCanBeAnswered, StateIsOfOneExchange, OfOneExchange, Relations
<1>4. QED
  BY <1>1, <1>2, <1>3 DEF IInv

\* What finish_pending_pkcs12 leaves when it does not fail: a state of this
\* exchange when a password was asked for.
LEMMA FinishedFacts ==
  ASSUME ConstantsAssumption, IInv, step = "process", ~FinishFails
  PROVE  /\ IsOptional(Finished, State)
         /\ \A s \in Finished :
              s \in State /\ s.builtIn <= exchange.n /\ OfOneExchange(s)
         /\ asked /\ response = "right" =>
              /\ Finished # {}
              /\ \A s \in Finished : s.identity \cap Locked # {} /\ s.builtIn = exchange.n
<1>1. exchange.n >= 1 /\ exchange.n \in Nat
  BY ExchangeType DEF IInv, BuiltInv
<1>2. CASE pending = {}
  <2>1. Finished = state
    BY <1>2 DEF Finished
  <2>2. \A s \in state : s \in State
    BY OptionalOf DEF IInv, TypeOK
  <2>3. QED
    BY <1>2, <2>1, <2>2 DEF IInv, TypeOK, BuiltInv, AskedInv, StateIsOfOneExchange, OfOneExchange, Relations
<1>3. CASE pending # {}
  <2>1. PICK p \in Pending : pending = {p}
    BY <1>3, OptionalOf DEF IInv, TypeOK
  <2>2. asked /\ FALSE = exchange.anonymous
    BY <1>3 DEF FinishFails, IInv, TypeOK, AskedInv
  <2>3. /\ p.kdcOf = exchange.realm /\ p.trusts = config.anchors
        /\ p.identity \in Locked /\ {p.identity} = config.identity
    BY <2>1, <2>2 DEF IInv, AskedInv
  <2>4. Buildable({p.identity}, config.anchors, config, FALSE)
    BY <2>2, <2>3 DEF Buildable, IInv, TypeOK, AskedInv
  <2> DEFINE new == Client({p.identity}, config.anchors, config, exchange.realm, FALSE)
  <2>5. Finished = {new}
    BY <1>3, <2>1, <2>3 DEF Finished
  <2>6. /\ new \in State /\ OfOneExchange(new)
        /\ new.builtIn = exchange.n /\ new.identity = {p.identity}
    BY <1>1, <2>4, FreshClient DEF IInv
  <2> HIDE DEF new
  <2>7. IsOptional(Finished, State)
    BY <2>5, <2>6, OptionalFacts
  <2>8. QED
    BY <1>1, <2>3, <2>5, <2>6, <2>7
<1>4. QED
  BY <1>2, <1>3

LEMMA ProcessInfoInv ==
  ASSUME ConstantsAssumption, IInv, ProcessInfo PROVE IInv'
<1> USE DEF given, round
<1>1. /\ step = "process" /\ exchange' = exchange /\ sent' = sent
      /\ step' = step /\ asked' = asked /\ response' = response /\ pending' = {}
      /\ verdict' = verdict /\ UNCHANGED <<given, config>>
  BY DEF ProcessInfo
<1>2. /\ IsOptional(state', State)
      /\ \A s \in state' : s.builtIn <= exchange.n
      /\ asked /\ response = "right" =>
           /\ state' # {}
           /\ \A s \in state' : s.identity \cap Locked # {} /\ s.builtIn = exchange.n
      /\ StateIsOfOneExchange'
  <2>1. CASE FinishFails
    <3>1. state' = state /\ response # "right"
      BY <2>1 DEF ProcessInfo, FinishFails
    <3>2. QED
      BY <1>1, <3>1 DEF IInv, TypeOK, BuiltInv, StateIsOfOneExchange, OfOneExchange, Relations
  <2>2. CASE ~FinishFails
    <3>1. state' = Finished
      BY <2>2 DEF ProcessInfo
    <3>2. QED
      BY <1>1, <2>2, <3>1, FinishedFacts DEF StateIsOfOneExchange, OfOneExchange, Relations
  <2>3. QED
    BY <2>1, <2>2
<1>3. TypeOK'
  BY <1>2, OptionalFacts DEF ProcessInfo, IInv, TypeOK
<1>4. BuiltInv' /\ SentInv' /\ AskedInv'
  BY <1>1, <1>2 DEF IInv, BuiltInv, SentInv, AskedInv, Relations
<1>5. RequestCanBeAnswered'
  <2>1. CASE sent = {}
    BY <1>1, <2>1 DEF RequestCanBeAnswered
  <2>2. CASE sent # {}
    <3>1. state' = state
      BY <2>2 DEF ProcessInfo, FinishFails, Finished, IInv, SentInv
    <3>2. QED
      BY <1>1, <3>1 DEF IInv, RequestCanBeAnswered
  <2>3. QED
    BY <2>1, <2>2
<1>6. QED
  BY <1>2, <1>3, <1>4, <1>5 DEF IInv
-------------------------------------------------------------------------------
(* Requests and replies *)

\* Negotiating and building keeps everything of a client state but its keys.
LEMMA NegotiateFacts ==
  ASSUME NEW s \in State, Negotiate(s)
  PROVE  /\ \E t \in State : state' = {t} /\ Signer(t) = Signer(s)
         /\ \A r \in sent' : \E t \in state' : r.key \in t.keys /\ r.by = Signer(t)
         /\ \A r \in sent' : r.key \in {"dh", "kem"}
         /\ \/ step' = "idle" /\ sent' = {} /\ verdict' = "failed"
            \/ step' = "sent" /\ sent' # {} /\ verdict' = verdict
<1>1. PICK next \in Negotiated(s) :
        \/ /\ state' = {next}
           /\ End("failed")
        \/ \E kind \in {"dh", "kem"} :
             /\ state' = {WithKey(next, kind)}
             /\ sent' = {[key |-> kind, by |-> Signer(s)]}
             /\ step' = "sent" /\ UNCHANGED verdict
  BY DEF Negotiate
<1>2. next \in State /\ Signer(next) = Signer(s)
  BY DEF Negotiated, State, Signer
<1>3. CASE state' = {next} /\ End("failed")
  BY <1>2, <1>3 DEF End
<1>4. ASSUME NEW kind \in {"dh", "kem"},
             state' = {WithKey(next, kind)},
             sent' = {[key |-> kind, by |-> Signer(s)]},
             step' = "sent", UNCHANGED verdict
      PROVE  /\ \E t \in State : state' = {t} /\ Signer(t) = Signer(s)
             /\ \A r \in sent' : \E t \in state' : r.key \in t.keys /\ r.by = Signer(t)
             /\ \A r \in sent' : r.key \in {"dh", "kem"}
  <2> DEFINE new == WithKey(next, kind)
  <2>1. new \in State /\ Signer(new) = Signer(next) /\ kind \in new.keys
    BY <1>2 DEF State, Signer, WithKey
  <2> HIDE DEF new
  <2>2. state' = {new}
    BY <1>4 DEF new
  <2>3. QED
    BY <1>2, <1>4, <2>1, <2>2
<1>5. QED
  BY <1>1, <1>3, <1>4

\* Two client states that differ in their keys only.
LEMMA SignerFacts ==
  ASSUME NEW s \in State, NEW t \in State, Signer(s) = Signer(t)
  PROVE  /\ s.builtIn = t.builtIn /\ s.anonymous = t.anonymous
         /\ s.identity = t.identity /\ s.kdcOf = t.kdcOf
         /\ s.config = t.config /\ s.trusts = t.trusts
  BY DEF Signer, State
-------------------------------------------------------------------------------

\* A request built from a state `s` that already satisfies the invariant.
LEMMA NegotiateInv ==
  ASSUME ConstantsAssumption, IInv, exchange.n >= 1,
         NEW s \in State, Negotiate(s), step \in {"process", "sent"},
         s.builtIn <= exchange.n,
         asked /\ response = "right" /\ step = "process" =>
           s.identity \cap Locked # {} /\ s.builtIn = exchange.n,
         OfOneExchange(s),
         pending' = {},
         UNCHANGED <<given, config, exchange, round>>
  PROVE  IInv'
<1>1. PICK t \in State : state' = {t} /\ Signer(t) = Signer(s)
  BY NegotiateFacts
<1>2. /\ t.builtIn = s.builtIn /\ t.anonymous = s.anonymous
      /\ t.identity = s.identity /\ t.kdcOf = s.kdcOf
      /\ t.config = s.config /\ t.trusts = s.trusts
  BY <1>1, SignerFacts
<1>3. /\ \A r \in sent' : r.key \in {"dh", "kem"}
      /\ \/ step' = "idle" /\ sent' = {} /\ verdict' = "failed"
         \/ step' = "sent" /\ sent' # {} /\ verdict' = verdict
  BY NegotiateFacts
<1>4. TypeOK'
  <2>1. IsOptional(state', State) /\ IsOptional(pending', Pending)
    BY <1>1, OptionalFacts
  <2>2. QED
    BY <1>3, <2>1 DEF IInv, TypeOK, given, round
<1>5. BuiltInv' /\ SentInv' /\ AskedInv'
  BY <1>1, <1>2, <1>3 DEF IInv, BuiltInv, SentInv, AskedInv, Relations, given, round
<1>6. RequestCanBeAnswered'
  BY NegotiateFacts DEF RequestCanBeAnswered
<1>7. StateIsOfOneExchange'
  BY <1>1, <1>2 DEF StateIsOfOneExchange, OfOneExchange, Relations, given
<1>8. QED
  BY <1>4, <1>5, <1>6, <1>7 DEF IInv

\* A step that ends the exchange and keeps the state, but perhaps a key.
LEMMA EndInv ==
  ASSUME ConstantsAssumption, IInv,
         NEW how \in {"failed", "declined", "done"}, End(how),
         \/ UNCHANGED state
         \/ \E s \in state, t \in State : state' = {t} /\ Signer(t) = Signer(s),
         pending' = {},
         UNCHANGED <<given, config, exchange, round>>
  PROVE  IInv'
<1> DEFINE Built(n) ==
      /\ \A s \in state' : s.builtIn <= n
      /\ IsOptional(state', State)
<1>1. Built(exchange.n) /\ StateIsOfOneExchange'
  <2>1. CASE UNCHANGED state
    BY <2>1 DEF IInv, TypeOK, BuiltInv, StateIsOfOneExchange, OfOneExchange, Relations, given
  <2>2. ASSUME NEW s \in state, NEW t \in State, state' = {t}, Signer(t) = Signer(s)
        PROVE  Built(exchange.n) /\ StateIsOfOneExchange'
    <3>1. s \in State
      BY OptionalOf DEF IInv, TypeOK
    <3>2. /\ t.builtIn = s.builtIn /\ t.anonymous = s.anonymous
          /\ t.identity = s.identity /\ t.kdcOf = s.kdcOf
      /\ t.config = s.config /\ t.trusts = s.trusts
      BY <2>2, <3>1, SignerFacts
    <3>3. Built(exchange.n)
      BY <2>2, <3>2, OptionalFacts DEF IInv, BuiltInv
    <3>4. StateIsOfOneExchange'
      BY <2>2, <3>2 DEF IInv, StateIsOfOneExchange, OfOneExchange, Relations, given
    <3>5. QED
      BY <3>3, <3>4
  <2>3. QED
    BY <2>1, <2>2
<1>2. TypeOK'
  BY <1>1, OptionalFacts DEF End, IInv, TypeOK, given, round
<1>3. BuiltInv' /\ SentInv' /\ AskedInv'
  BY <1>1 DEF End, IInv, BuiltInv, SentInv, AskedInv, given, round
<1>4. RequestCanBeAnswered'
  BY DEF End, RequestCanBeAnswered
<1>5. QED
  BY <1>1, <1>2, <1>3, <1>4 DEF IInv

LEMMA ProcessAsReqInv ==
  ASSUME ConstantsAssumption, IInv, ProcessAsReq PROVE IInv'
<1>1. /\ step = "process" /\ pending' = {}
      /\ UNCHANGED <<given, config, exchange, round>>
  BY DEF ProcessAsReq
<1>2. exchange.n >= 1
  BY <1>1 DEF IInv, BuiltInv
<1>3. CASE UNCHANGED state /\ (End("failed") \/ End("declined"))
  BY <1>1, <1>3, EndInv
<1>4. CASE ~FinishFails /\ \E s \in Finished : Negotiate(s)
  <2>1. PICK s \in Finished : Negotiate(s)
    BY <1>4
  <2>2. /\ s \in State /\ s.builtIn <= exchange.n
        /\ asked /\ response = "right" => s.identity \cap Locked # {} /\ s.builtIn = exchange.n
        /\ OfOneExchange(s)
    BY <1>1, <1>4, <2>1, FinishedFacts
  <2>3. QED
    BY <1>1, <1>2, <2>1, <2>2, NegotiateInv
<1>5. QED
  BY <1>3, <1>4 DEF ProcessAsReq

LEMMA TryAgainInv ==
  ASSUME ConstantsAssumption, IInv, TryAgain PROVE IInv'
<1>1. PICK s \in state : Negotiate(s)
  BY DEF TryAgain
<1>2. /\ step = "sent"
      /\ UNCHANGED <<given, config, exchange, round, pending>>
  BY DEF TryAgain
<1>3. exchange.n >= 1
  BY <1>2 DEF IInv, BuiltInv
<1>4. s \in State /\ s.builtIn <= exchange.n
  BY OptionalOf DEF IInv, TypeOK, BuiltInv
<1>5. pending' = {}
  BY <1>2 DEF IInv, SentInv
<1>6. QED
  BY <1>1, <1>2, <1>3, <1>4, <1>5, NegotiateInv DEF IInv, StateIsOfOneExchange, OfOneExchange, Relations

LEMMA MoreMethodDataInv == ASSUME IInv, MoreMethodData PROVE IInv'
<1>1. TypeOK'
  BY DEF MoreMethodData, given, plugin, IInv, TypeOK
<1>2. BuiltInv' /\ SentInv' /\ AskedInv'
  BY DEF MoreMethodData, given, plugin, IInv, BuiltInv, SentInv, AskedInv, Relations
<1>3. RequestCanBeAnswered' /\ StateIsOfOneExchange'
  BY DEF MoreMethodData, given, plugin, IInv, RequestCanBeAnswered, StateIsOfOneExchange, OfOneExchange, Relations
<1>4. QED
  BY <1>1, <1>2, <1>3 DEF IInv

LEMMA ProcessAsRepInv ==
  ASSUME ConstantsAssumption, IInv, ProcessAsRep PROVE IInv'
<1>1. PICK s \in state, kind \in {"dh", "kem"} :
        /\ state' = {[s EXCEPT !.keys = @ \ ({kind} \cap {"kem"})]}
        /\ End("done") \/ End("failed")
  BY DEF ProcessAsRep
<1>2. s \in State
  BY OptionalOf DEF IInv, TypeOK
<1> DEFINE new == [s EXCEPT !.keys = @ \ ({kind} \cap {"kem"})]
<1>3. new \in State /\ Signer(new) = Signer(s)
  BY <1>2 DEF State, Signer
<1> HIDE DEF new
<1>4. state' = {new}
  BY <1>1 DEF new
<1>5. pending' = {} /\ UNCHANGED <<given, config, exchange, round>>
  BY DEF ProcessAsRep
<1>6. QED
  BY <1>1, <1>3, <1>4, <1>5, EndInv
-------------------------------------------------------------------------------
(* The theorems *)

LEMMA Preservation ==
  ASSUME ConstantsAssumption, IInv, [Next]_vars PROVE IInv'
<1>1. CASE \/ \E i \in Idents : SupplyIdentity(i)
           \/ \E a \in Anchors : SupplyAnchors(a)
           \/ \E r, d \in Realms, anonymous \in BOOLEAN : Begin(r, d, anonymous)
           \/ Abandon
  BY <1>1, ApplicationInv
<1>2. CASE InitEtypeInfo \/ Respond \/ ProcessInfo
  BY <1>2, PrepInv, RespondInv, ProcessInfoInv
<1>3. CASE ProcessAsReq \/ TryAgain \/ MoreMethodData \/ ProcessAsRep
  BY <1>3, ProcessAsReqInv, TryAgainInv, MoreMethodDataInv, ProcessAsRepInv
<1>4. CASE UNCHANGED vars
  BY <1>4 DEF vars, given, plugin, round, IInv, TypeOK, BuiltInv, SentInv, AskedInv,
              RequestCanBeAnswered, StateIsOfOneExchange, OfOneExchange, Relations
<1>5. QED
  BY <1>1, <1>2, <1>3, <1>4 DEF Next

\* The inductive invariant holds of every sequence of calls libkrb5 may make.
THEOREM Invariance == Spec => []IInv
<1>1. Init => IInv
  BY ConstantsAssumption, InitInv
<1>2. IInv /\ [Next]_vars => IInv'
  BY ConstantsAssumption, Preservation
<1>3. QED
  BY <1>1, <1>2, PTL DEF Spec

\* Every call of the plugin keeps every variable in its range.
THEOREM TypeCorrectness == Spec => []TypeOK
<1>1. IInv => TypeOK
  BY DEF IInv
<1>2. QED
  BY <1>1, Invariance, PTL

\* As long as a request is out the plugin holds its key and its signer, so that
\* init_etype_info and finish_pending_pkcs12 disturb no exchange under way.
THEOREM RequestsCanBeAnswered == Spec => []RequestCanBeAnswered
<1>1. IInv => RequestCanBeAnswered
  BY DEF IInv
<1>2. QED
  BY <1>1, Invariance, PTL

\* No client state mixes two exchanges, whatever an earlier one left pending.
THEOREM StatesAreOfOneExchange == Spec => []StateIsOfOneExchange
<1>1. IInv => StateIsOfOneExchange
  BY DEF IInv
<1>2. QED
  BY <1>1, Invariance, PTL

\* A right password is used for the identity that was asked about.
THEOREM RightPasswordsAreUsed == Spec => UsesTheRightPassword
<1> DEFINE Used ==
      step = "process" /\ asked /\ response = "right" =>
        /\ verdict' # "declined"
        /\ step' = "sent" =>
             \A s \in state' : s.identity \cap Locked # {} /\ s.builtIn = exchange.n
<1>1. IInv /\ [Next]_vars => [Used]_vars
  <2> SUFFICES ASSUME IInv, Next, step = "process", asked, response = "right"
               PROVE  Used
    OBVIOUS
  <2>1. CASE ProcessAsReq
    <3>1. ~FinishFails /\ Finished # {}
      BY ConstantsAssumption, FinishedFacts DEF FinishFails
    <3>2. PICK s \in Finished : Negotiate(s)
      BY <2>1, <3>1 DEF ProcessAsReq
    <3>3. s \in State /\ s.identity \cap Locked # {} /\ s.builtIn = exchange.n
      BY <3>1, <3>2, FinishedFacts, ConstantsAssumption
    <3>4. PICK t \in State : state' = {t} /\ Signer(t) = Signer(s)
      BY <3>2, <3>3, NegotiateFacts
    <3>5. t.identity = s.identity /\ t.builtIn = s.builtIn
      BY <3>3, <3>4, SignerFacts
    <3>6. verdict' # "declined"
      BY <3>2, <3>3, NegotiateFacts DEF IInv, SentInv
    <3>7. QED
      BY <3>3, <3>4, <3>5, <3>6
  <2>2. CASE ProcessInfo
    BY <2>2 DEF ProcessInfo, IInv, SentInv
  <2>3. CASE Abandon
    BY <2>3 DEF Abandon, End
  <2>4. ~\/ \E i \in Idents : SupplyIdentity(i)
         \/ \E a \in Anchors : SupplyAnchors(a)
         \/ \E r, d \in Realms, anonymous \in BOOLEAN : Begin(r, d, anonymous)
         \/ InitEtypeInfo \/ Respond \/ TryAgain \/ MoreMethodData \/ ProcessAsRep
    BY DEF SupplyIdentity, SupplyAnchors, Begin, InitEtypeInfo, PrepKeeps, PrepAborts,
           PrepNothing, PrepAnonymous, PrepLoads, PrepAsks, Configured, Preparing,
           Respond, TryAgain, MoreMethodData, ProcessAsRep
  <2>5. QED
    BY <2>1, <2>2, <2>3, <2>4 DEF Next
<1>2. QED
  BY <1>1, Invariance, PTL DEF Spec, UsesTheRightPassword
-------------------------------------------------------------------------------
(* What is left without an identity *)

\* Nothing is pending then, and what state there is was built anonymously.
AnonymousStateOnly ==
  config.identity = {} => pending = {} /\ \A s \in state : s.anonymous

\* A client state keeps its identity and the exchange it was built in, or is
\* built in this exchange: for an anonymous one, for what is pending, or for the
\* identity `id`.
Derives(t, id) ==
  \/ \E s \in state : t.anonymous = s.anonymous /\ t.identity = s.identity
                      /\ t.builtIn = s.builtIn
  \/ t.anonymous /\ exchange.anonymous
  \/ ~t.anonymous /\ \E p \in pending : t.identity = {p.identity}
  \/ ~t.anonymous /\ id # {} /\ t.identity = id

\* What is pending stays, goes, or is asked about anew.
Pends(q, id) == q \in pending \/ {q.identity} = id

\* The configured identity is never given up, and the caller's is set first.
LEMMA IdentityStays ==
  ASSUME ConstantsAssumption, IInv, Next
  PROVE  /\ config.identity # {} =>
              config'.identity = config.identity /\ supplied' = supplied
         /\ supplied' = supplied \/ (supplied' # {} /\ config'.identity = supplied')
         /\ config.identity = {} /\ supplied' = {} =>
              \/ config'.identity = {}
              \/ step # "idle" /\ config'.identity = Relations.identity
<1>1. CASE \E i \in Idents : SupplyIdentity(i)
  <2>1. config \in Config
    BY DEF IInv, TypeOK
  <2>2. PICK i \in Idents : SupplyIdentity(i)
    BY <1>1
  <2>3. config.identity = {} /\ config'.identity = {i} /\ supplied' = {i}
    BY <2>1, <2>2 DEF SupplyIdentity, Config
  <2>4. QED
    BY <2>3
<1>2. CASE InitEtypeInfo
  <2>1. /\ step # "idle" /\ UNCHANGED supplied
        /\ UNCHANGED config \/ ReadClientConfig
    BY <1>2 DEF InitEtypeInfo, PrepKeeps, PrepAborts, PrepNothing, PrepAnonymous,
                PrepLoads, PrepAsks, Configured, Preparing, given, plugin
  <2>2. QED
    BY <2>1, ConfigType DEF IInv
<1>3. CASE \E a \in Anchors : SupplyAnchors(a)
  <2>1. config \in Config
    BY DEF IInv, TypeOK
  <2>2. QED
    BY <1>3, <2>1 DEF SupplyAnchors, Config, given
<1>4. CASE UNCHANGED <<supplied, config>>
  BY <1>4
<1>5. QED
  BY <1>1, <1>2, <1>3, <1>4
     DEF Next, Begin, Abandon, Respond, ProcessInfo, ProcessAsReq,
         TryAgain, MoreMethodData, ProcessAsRep, given, plugin

\* Finishing what is pending builds a state for an identity.
LEMMA FinishedDerives ==
  ASSUME IInv, NEW id
  PROVE  \A t \in Finished : Derives(t, id)
<1>1. CASE pending = {}
  BY <1>1 DEF Finished, Derives
<1>2. CASE pending # {}
  BY <1>2 DEF Finished, Client, Derives
<1>3. QED
  BY <1>1, <1>2

LEMMA NegotiatedDerives ==
  ASSUME NEW s \in State, NEW id, Derives(s, id), Negotiate(s)
  PROVE  state' # {} /\ \A t \in state' : Derives(t, id)
<1>1. PICK t \in State : state' = {t} /\ Signer(t) = Signer(s)
  BY NegotiateFacts
<1>2. /\ t.anonymous = s.anonymous /\ t.identity = s.identity
      /\ t.builtIn = s.builtIn
  BY <1>1, SignerFacts
<1>3. QED
  BY <1>1, <1>2 DEF Derives

\* What process and tryagain do to the state.
LEMMA ProcessDerives ==
  ASSUME ConstantsAssumption, IInv, NEW id,
         ProcessInfo \/ ProcessAsReq \/ TryAgain \/ ProcessAsRep
  PROVE  /\ pending' \in {{}, pending}
         /\ state' = {} => state = {}
         /\ \A t \in state' : Derives(t, id)
<1>1. \A t \in state : Derives(t, id)
  BY DEF Derives
<1>2. CASE ProcessInfo
  BY <1>1, <1>2, FinishedDerives DEF ProcessInfo, Finished
<1>3. CASE ProcessAsReq
  <2>1. pending' = {}
    BY <1>3 DEF ProcessAsReq
  <2>2. CASE UNCHANGED state
    BY <1>1, <2>1, <2>2
  <2>3. CASE ~FinishFails /\ \E s \in Finished : Negotiate(s)
    <3>1. PICK s \in Finished : Negotiate(s)
      BY <2>3
    <3>2. s \in State /\ Derives(s, id)
      BY <1>3, <2>3, FinishedFacts, FinishedDerives DEF ProcessAsReq
    <3>3. QED
      BY <2>1, <3>1, <3>2, NegotiatedDerives
  <2>4. QED
    BY <1>3, <2>2, <2>3 DEF ProcessAsReq
<1>4. CASE TryAgain
  <2>1. PICK s \in state : Negotiate(s)
    BY <1>4 DEF TryAgain
  <2>2. s \in State
    BY OptionalOf DEF IInv, TypeOK
  <2>3. pending' = pending
    BY <1>4 DEF TryAgain
  <2>4. QED
    BY <1>1, <2>1, <2>2, <2>3, NegotiatedDerives
<1>5. CASE ProcessAsRep
  <2>1. PICK s \in state, kind \in {"dh", "kem"} :
          state' = {[s EXCEPT !.keys = @ \ ({kind} \cap {"kem"})]}
    BY <1>5 DEF ProcessAsRep
  <2>2. s \in State
    BY OptionalOf DEF IInv, TypeOK
  <2>3. \A t \in state' : t.anonymous = s.anonymous /\ t.identity = s.identity
                          /\ t.builtIn = s.builtIn
    BY <2>1, <2>2 DEF State
  <2>4. pending' = {} /\ state' # {}
    BY <1>5, <2>1 DEF ProcessAsRep
  <2>5. QED
    BY <1>1, <2>3, <2>4 DEF Derives
<1>6. QED
  BY <1>2, <1>3, <1>4, <1>5

\* What init_etype_info does to the state.
LEMMA PrepDerives ==
  ASSUME ConstantsAssumption, IInv, InitEtypeInfo
  PROVE  /\ config'.identity = {} => pending' = pending
         /\ \A q \in pending' : Pends(q, config'.identity)
         /\ state' = {} => state = {}
         /\ \A t \in state' : Derives(t, config'.identity)
<1>1. CASE UNCHANGED <<state, pending>>
  BY <1>1 DEF Derives, Pends
<1>2. CASE PrepAnonymous
  <2>1. state' = {Client({}, config'.anchors, config', exchange.realm, TRUE)}
    BY <1>2 DEF PrepAnonymous
  <2>2. \A t \in state' : t.anonymous /\ exchange.anonymous
    BY <1>2, <2>1 DEF PrepAnonymous, Client
  <2>3. pending' = pending
    BY <1>2 DEF PrepAnonymous
  <2>4. QED
    BY <2>1, <2>2, <2>3 DEF Derives, Pends
<1>3. config' \in Config
  <2>1. UNCHANGED config \/ ReadClientConfig
    BY DEF InitEtypeInfo, PrepKeeps, PrepAborts, PrepNothing, PrepAnonymous,
           PrepLoads, PrepAsks, Configured, plugin
  <2>2. QED
    BY <2>1, ConfigType DEF IInv, TypeOK
<1>4. CASE PrepLoads
  <2>1. PICK i \in config'.identity :
          state' = {Client({i}, config'.anchors, config', exchange.realm, FALSE)}
    BY <1>4 DEF PrepLoads
  <2>2. {i} = config'.identity /\ pending' = {}
    BY <1>3, <1>4, <2>1, OptionalFacts DEF Config, PrepLoads
  <2>3. state' # {} /\ \A t \in state' : ~t.anonymous /\ t.identity = {i}
    BY <2>1 DEF Client
  <2>4. QED
    BY <2>2, <2>3 DEF Derives
<1>5. CASE PrepAsks
  <2>1. PICK i \in config'.identity : pending' = {PendingFor(i)}
    BY <1>5 DEF PrepAsks
  <2>2. {i} = config'.identity /\ UNCHANGED state
    BY <1>3, <1>5, <2>1, OptionalFacts DEF Config, PrepAsks
  <2>3. QED
    BY <2>1, <2>2 DEF Derives, Pends, PendingFor
<1>6. QED
  BY <1>1, <1>2, <1>4, <1>5
     DEF InitEtypeInfo, PrepKeeps, PrepAborts, PrepNothing, plugin

\* What any call of the plugin does to the state and to what is pending.
LEMMA StatesDerive ==
  ASSUME ConstantsAssumption, IInv, Next
  PROVE  /\ config'.identity = {} => pending' \in {{}, pending}
         /\ \A q \in pending' : Pends(q, config'.identity)
         /\ state' = {} => state = {}
         /\ \A t \in state' : Derives(t, config'.identity)
<1>1. CASE InitEtypeInfo
  BY <1>1, PrepDerives
<1>2. CASE ProcessInfo \/ ProcessAsReq \/ TryAgain \/ ProcessAsRep
  BY <1>2, ProcessDerives DEF Pends
<1>3. CASE UNCHANGED <<state, pending>>
  BY <1>3 DEF Derives, Pends
<1>4. QED
  BY <1>1, <1>2, <1>3
     DEF Next, SupplyIdentity, SupplyAnchors, Begin, Abandon, Respond, MoreMethodData, plugin

\* When no identity is configured, what an earlier exchange can have left to
\* process is the state of an anonymous one: never one that signs as somebody.
THEOREM OnlyAnonymousStateIsLeft == Spec => []AnonymousStateOnly
<1>1. Init => AnonymousStateOnly
  BY DEF Init, AnonymousStateOnly
<1>2. ASSUME IInv, AnonymousStateOnly, Next PROVE AnonymousStateOnly'
  <2> SUFFICES ASSUME config'.identity = {}
               PROVE  pending' = {} /\ \A t \in state' : t.anonymous
    BY DEF AnonymousStateOnly
  <2>1. config.identity = {}
    BY <1>2, IdentityStays, ConstantsAssumption
  <2>2. pending = {} /\ \A s \in state : s.anonymous
    BY <1>2, <2>1 DEF AnonymousStateOnly
  <2>3. QED
    BY <1>2, <2>2, StatesDerive, ConstantsAssumption DEF Derives
<1>3. AnonymousStateOnly /\ UNCHANGED vars => AnonymousStateOnly'
  BY DEF AnonymousStateOnly, vars, plugin
<1>4. IInv /\ AnonymousStateOnly /\ [Next]_vars => AnonymousStateOnly'
  BY <1>2, <1>3
<1>5. QED
  BY <1>1, <1>4, Invariance, PTL DEF Spec

\* So in a context that never logs in anonymously the comment of process is
\* right: without an identity there is no state, and it declines.
THEOREM DeclinesWithoutIdentity ==
  Spec /\ []~exchange.anonymous => []NoIdentityNoState
<1> DEFINE Named == \A s \in state : ~s.anonymous
<1>1. Init => Named
  BY DEF Init
<1>2. IInv /\ ~exchange.anonymous /\ Named /\ [Next]_vars => Named'
  <2>1. ASSUME IInv, ~exchange.anonymous, Named, Next PROVE Named'
    BY <2>1, StatesDerive, ConstantsAssumption DEF Derives
  <2>2. Named /\ UNCHANGED vars => Named'
    BY DEF vars, plugin
  <2>3. QED
    BY <2>1, <2>2
<1>3. AnonymousStateOnly /\ Named => NoIdentityNoState
  BY DEF AnonymousStateOnly, NoIdentityNoState
<1>4. QED
  BY <1>1, <1>2, <1>3, Invariance, OnlyAnonymousStateIsLeft, PTL DEF Spec

\* The identity that the caller set is the one that signs, in every exchange that
\* follows: no profile and nothing an earlier exchange left prevails over it.
THEOREM CallersIdentityPrevails == Spec => []CallerTakesPrecedence
<1>1. Init => CallerTakesPrecedence
  BY DEF Init, CallerTakesPrecedence
<1>2. ASSUME IInv, AnonymousStateOnly, CallerTakesPrecedence, Next
      PROVE  CallerTakesPrecedence'
  <2> SUFFICES ASSUME supplied' # {}
               PROVE  /\ config'.identity = supplied'
                      /\ \A t \in state' : t.anonymous \/ t.identity = supplied'
                      /\ \A q \in pending' : {q.identity} = supplied'
    BY DEF CallerTakesPrecedence
  <2>1. config'.identity = supplied'
    BY <1>2, IdentityStays, ConstantsAssumption DEF CallerTakesPrecedence, IInv, TypeOK
  <2>2. /\ \A s \in state : s.anonymous \/ s.identity = supplied'
        /\ \A p \in pending : {p.identity} = supplied'
    <3>1. CASE config.identity = {}
      BY <1>2, <3>1 DEF AnonymousStateOnly
    <3>2. CASE config.identity # {}
      BY <1>2, <3>2, IdentityStays, ConstantsAssumption DEF CallerTakesPrecedence
    <3>3. QED
      BY <3>1, <3>2
  <2>3. QED
    BY <1>2, <2>1, <2>2, StatesDerive, ConstantsAssumption DEF Derives, Pends
<1>3. CallerTakesPrecedence /\ UNCHANGED vars => CallerTakesPrecedence'
  BY DEF CallerTakesPrecedence, vars, given, plugin
<1>4. IInv /\ AnonymousStateOnly /\ CallerTakesPrecedence /\ [Next]_vars
        => CallerTakesPrecedence'
  BY <1>2, <1>3
<1>5. QED
  BY <1>1, <1>4, Invariance, OnlyAnonymousStateIsLeft, PTL DEF Spec
-------------------------------------------------------------------------------
(* Password-only principals *)

\* In the first exchange there is no identity but the principal's own.
OwnIdentityFirst ==
  config.identity # {} /\ supplied = {} =>
    /\ exchange.n >= 1
    /\ exchange.n = 1 => Relations.identity # {}

\* The hypothesis of StandsAsideForPasswords.
PasswordOnly ==
  exchange.n > 0 /\ ~exchange.anonymous /\ ~HasOwnIdentity /\ ~LeftOver

LEMMA OwnIdentityStep ==
  ASSUME ConstantsAssumption, IInv, OwnIdentityFirst, Next
  PROVE  OwnIdentityFirst'
<1>1. exchange.n \in Nat /\ (step # "idle" => exchange.n >= 1)
  BY ExchangeType DEF IInv, BuiltInv
<1>2. CASE \E r, d \in Realms, anonymous \in BOOLEAN : Begin(r, d, anonymous)
  <2>1. exchange'.n = exchange.n + 1 /\ UNCHANGED <<config, supplied>>
    BY <1>2 DEF Begin, given, plugin
  <2>2. QED
    BY <1>1, <2>1 DEF OwnIdentityFirst
<1>3. CASE UNCHANGED <<exchange, profile>>
  <2>1. CASE supplied' # supplied
    BY <2>1, IdentityStays DEF OwnIdentityFirst, IInv, TypeOK
  <2>2. CASE supplied' = supplied /\ config.identity # {}
    BY <1>3, <2>2 DEF OwnIdentityFirst, Relations
  <2>3. CASE supplied' = supplied /\ config.identity = {}
    BY <1>1, <1>3, <2>3, IdentityStays DEF OwnIdentityFirst, Relations
  <2>4. QED
    BY <2>1, <2>2, <2>3
<1>4. QED
  BY <1>2, <1>3
     DEF Next, SupplyIdentity, SupplyAnchors, Abandon, InitEtypeInfo, PrepKeeps, PrepAborts,
         PrepNothing, PrepAnonymous, PrepLoads, PrepAsks, Configured, Preparing, Respond,
         ProcessInfo, ProcessAsReq, TryAgain, MoreMethodData, ProcessAsRep, given

\* Such a principal finds the plugin empty.
Empty ==
  PasswordOnly => config.identity = {} /\ state = {} /\ pending = {} /\ sent = {}

LEMMA NothingThere ==
  ASSUME ConstantsAssumption, IInv, AnonymousStateOnly, OwnIdentityFirst
  PROVE  Empty
<1> SUFFICES ASSUME PasswordOnly
             PROVE  config.identity = {} /\ state = {} /\ pending = {} /\ sent = {}
  BY DEF Empty
<1>1. exchange.n \in Nat /\ exchange.n >= 1 /\ ~exchange.anonymous
  BY ExchangeType DEF IInv, PasswordOnly
<1>2. config.identity = {}
  BY <1>1 DEF OwnIdentityFirst, PasswordOnly, HasOwnIdentity, LeftOver
<1>3. pending = {} /\ \A s \in state : s.anonymous
  BY <1>2 DEF AnonymousStateOnly
<1>4. ASSUME NEW s \in state PROVE FALSE
  <2>1. s.builtIn \in Nat /\ s.builtIn >= 1 /\ s.builtIn <= exchange.n
    BY StateType DEF IInv, BuiltInv
  <2>2. s.builtIn = exchange.n
    BY <1>1, <2>1 DEF PasswordOnly, LeftOver
  <2>3. s.anonymous = exchange.anonymous
    BY <2>2 DEF IInv, StateIsOfOneExchange, OfOneExchange
  <2>4. QED
    BY <1>1, <1>3, <2>3
<1>5. state = {}
  BY <1>4
<1>6. sent = {}
  BY <1>5 DEF IInv, RequestCanBeAnswered
<1>7. QED
  BY <1>2, <1>3, <1>5, <1>6

\* The verdict on such a principal.
StandsAside ==
  PasswordOnly =>
    verdict \in {"none", "abandoned", "declined"}
                  \cup (IF Relations.parses THEN {} ELSE {"aborted"})

LEMMA StandsAsideStep ==
  ASSUME ConstantsAssumption, IInv, AnonymousStateOnly, StandsAside, Next,
         Empty', AnonymousStateOnly'
  PROVE  StandsAside'
<1> SUFFICES ASSUME PasswordOnly' PROVE StandsAside'
  BY DEF StandsAside
<1>1. config'.identity = {} /\ state' = {} /\ pending' = {}
  BY DEF Empty
<1>2. config.identity = {} /\ state = {} /\ pending = {}
  BY <1>1, IdentityStays, StatesDerive DEF AnonymousStateOnly
<1>3. CASE \E r, d \in Realms, anonymous \in BOOLEAN : Begin(r, d, anonymous)
  BY <1>3 DEF Begin, StandsAside
<1>4. CASE UNCHANGED <<profile, exchange>>
  <2>1. ~HasOwnIdentity
    <3>1. supplied' = {} /\ Relations' = Relations /\ Relations.identity = {}
      BY <1>4 DEF PasswordOnly, HasOwnIdentity, Relations
    <3>2. supplied = {}
      BY <1>1, <3>1, IdentityStays
    <3>3. QED
      BY <3>1, <3>2 DEF HasOwnIdentity
  <2>2. PasswordOnly
    BY <1>2, <1>4, <2>1 DEF PasswordOnly, LeftOver
  <2>3. CASE UNCHANGED verdict
    BY <1>4, <2>2, <2>3 DEF StandsAside, Relations
  <2>4. CASE Abandon
    BY <2>4 DEF Abandon, End, StandsAside
  <2>5. CASE PrepAborts
    BY <1>1, <1>4, <2>2, <2>5 DEF PrepAborts, End, StandsAside, PasswordOnly, Relations
  <2>6. CASE ProcessAsReq
    BY <1>2, <2>6 DEF ProcessAsReq, FinishFails, Finished, End, StandsAside
  <2>7. ~TryAgain /\ ~ProcessAsRep
    BY <1>2 DEF TryAgain, ProcessAsRep
  <2>8. QED
    BY <1>3, <2>3, <2>4, <2>5, <2>6, <2>7
       DEF Next, SupplyIdentity, SupplyAnchors, InitEtypeInfo, PrepKeeps, PrepNothing,
           PrepAnonymous, PrepLoads, PrepAsks, Configured, Preparing, Respond, ProcessInfo,
           MoreMethodData
<1>5. QED
  BY <1>3, <1>4
     DEF Next, SupplyIdentity, SupplyAnchors, Abandon, InitEtypeInfo, PrepKeeps, PrepAborts,
         PrepNothing, PrepAnonymous, PrepLoads, PrepAsks, Configured, Preparing, Respond,
         ProcessInfo, ProcessAsReq, TryAgain, MoreMethodData, ProcessAsRep, given

\* Whatever the KDC offers and whatever the trust store is like, a principal
\* without an identity of its own, and whom no earlier exchange left one, goes on
\* to its password, unless the profile does not parse.
THEOREM PasswordsGetTheirTurn == Spec => []StandsAsideForPasswords
<1>1. Init => OwnIdentityFirst /\ StandsAside
  BY DEF Init, OwnIdentityFirst, StandsAside
<1>2. IInv /\ OwnIdentityFirst /\ [Next]_vars => OwnIdentityFirst'
  <2>1. IInv /\ OwnIdentityFirst /\ Next => OwnIdentityFirst'
    BY OwnIdentityStep, ConstantsAssumption
  <2>2. OwnIdentityFirst /\ UNCHANGED vars => OwnIdentityFirst'
    BY DEF OwnIdentityFirst, Relations, vars, given, plugin
  <2>3. QED
    BY <2>1, <2>2
<1>3. IInv /\ AnonymousStateOnly /\ OwnIdentityFirst => Empty
  BY NothingThere, ConstantsAssumption
<1>4. IInv /\ AnonymousStateOnly /\ AnonymousStateOnly' /\ Empty' /\ StandsAside
        /\ [Next]_vars => StandsAside'
  <2>1. IInv /\ AnonymousStateOnly /\ AnonymousStateOnly' /\ Empty' /\ StandsAside
          /\ Next => StandsAside'
    BY StandsAsideStep, ConstantsAssumption
  <2>2. StandsAside /\ UNCHANGED vars => StandsAside'
    BY DEF StandsAside, PasswordOnly, HasOwnIdentity, LeftOver, Relations, vars, given, plugin
  <2>3. QED
    BY <2>1, <2>2
<1>5. Empty /\ StandsAside => StandsAsideForPasswords
  BY DEF Empty, StandsAside, PasswordOnly, StandsAsideForPasswords
<1>6. QED
  BY <1>1, <1>2, <1>3, <1>4, <1>5, Invariance, OnlyAnonymousStateIsLeft, PTL DEF Spec
===============================================================================
