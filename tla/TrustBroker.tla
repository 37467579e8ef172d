----------------------------- MODULE TrustBroker ------------------------------
(***************************************************************************)
(* The trust broker: pkinit-trust-brokerd (pin store, varlink service,     *)
(* prompters) and the calls kurbu5-pkinit's VarlinkTrustBroker makes to it.*)
(*                                                                         *)
(* The zlink server handles one request at a time (RequestTrust takes      *)
(* &mut self and awaits decide() to its end), so the daemon is one phase   *)
(* variable and the call it works on.  Around it move the clock, the       *)
(* callers' timers, the human, the file system and crashes.                *)
(*                                                                         *)
(*   down --Start--> idle --Serve--> reply --Deliver--> idle               *)
(*                     \--> prompt --Approve--> truncate --> write --> reply*)
(*                          notify --DenyPrompt--> reply                   *)
(* (prompt: on the caller's terminal; notify: by a desktop notification)   *)
(***************************************************************************)
EXTENDS Naturals, Sequences, FiniteSets

CONSTANTS
  Realms,         \* Kerberos realms
  Certs,          \* certificates: KDC signers and CAs
  Conns,          \* connections that may be open at once
  Chains,         \* the certificate chains callers may present
  Ttls,           \* lengths of the time-boxed grants the prompter offers
  Forever,        \* the grant without an end
  MaxTime,        \* bound of the model: the last tick of the clock
  PromptTimeout,  \* PROMPT_TIMEOUT, in ticks
  Gui,            \* prompts may be desktop notifications (--ui gui, auto)
  HasStateFile,   \* the daemon was started with --state
  DiskErrors,     \* opening and writing the state file may fail
  NoConn,         \* the daemon works on no call
  NoCall          \* the connection carries no request

\* A chain as the client sends it: the signer of the CMS reply, the presented
\* certificates in message order, those of them validates_as_anchor accepts as
\* the root of the signer's path, and whether everything decodes as base64.
Chain == [signer : Certs, presented : Seq(Certs), valid : SUBSET Certs,
          decodes : BOOLEAN]

ASSUME ConstantsAssumption ==
  /\ \A ch \in Chains : ch \in Chain
  /\ Ttls \subseteq Nat \ {0}
  /\ Forever \notin Nat
  /\ MaxTime \in Nat
  /\ PromptTimeout \in Nat
  /\ Gui \in BOOLEAN
  /\ HasStateFile \in BOOLEAN
  /\ DiskErrors \in BOOLEAN
  /\ NoConn \notin Conns

\* GRANT_PRESETS: the shortest grant (15 minutes) outlasts PROMPT_TIMEOUT (300 s).
ASSUME PresetsAssumption == \A d \in Ttls : PromptTimeout < d

Request == [realm : Realms, chain : Chains, interactive : BOOLEAN]

ASSUME NoCallAssumption ==
  /\ NoCall \notin Request
  /\ NoCall \notin [realm : Realms, offer : SUBSET Certs, interactive : BOOLEAN]

Pin == [realm : Realms, ca : Certs, until : Nat \cup {Forever}]

\* A reply is a set of at most one record, {} before the decision.
Answer(decision, anchors) == {[decision |-> decision, anchors |-> anchors]}
Trusted(ca) == Answer("Trusted", {ca})
Denied == Answer("Denied", {})
Unknown == Answer("Unknown", {})
InvalidRequest == Answer("InvalidRequest", {})
Reply == {{}, Denied, Unknown, InvalidRequest} \cup {Trusted(ca) : ca \in Certs}

VARIABLES
  now,       \* now_secs()
  pins,      \* PinStore::pins, a map by realm: at most one pin of each realm
  disk,      \* what PinStore::open would load from the state file
  phase,     \* what the daemon is doing
  job,       \* the connection whose request it works on
  askedAt,   \* the `now` that decide() read before it prompted
  waited,    \* how long the prompt is open by its own clock (Instant)
  reply,     \* the TrustReply decide() is about to return
  status,    \* per connection: idle, waiting, gone (caller timed out), done
  request,   \* per connection: the RequestTrust parameters
  answer     \* per connection: the reply the caller received

daemonVars == <<phase, job, askedAt, waited, reply>>
connVars == <<status, request, answer>>
vars == <<now, pins, disk, daemonVars, connVars>>

-------------------------------------------------------------------------------
(* Pins and chains *)

Live(pin, t) == pin.until = Forever \/ t < pin.until
LivePins(ps, t) == {p \in ps : Live(p, t)}

\* Slip: the lookup passes over time-boxed grants.
PinsOf_ForeverOnly(ps, realm) ==
  {p \in ps : p.realm = realm /\ p.until = Forever}
PinsOf(ps, realm) == {p \in ps : p.realm = realm}

\* A HashMap holds one pin for each realm.
IsPinMap(ps) == \A p, q \in ps : p.realm = q.realm => p = q

\* GrantTtl::expires_at_epoch_secs; saturation at 2^64 seconds is out of reach.
ExpiresAt(ttl, t) == IF ttl = Forever THEN Forever ELSE t + ttl

\* Slip: the signer's own certificate is eligible.
Anchorable_WithSigner(ch) ==
  {i \in DOMAIN ch.presented : ch.presented[i] \in ch.valid}

\* The positions select_ca may stop at, and the certificate it returns: the
\* last presented one that is not the signer and anchors the signer's path.
Anchorable(ch) ==
  {i \in DOMAIN ch.presented : /\ ch.presented[i] # ch.signer
                               /\ ch.presented[i] \in ch.valid}
SelectCA(ch) ==
  {ch.presented[i] : i \in {k \in Anchorable(ch) :
                              \A j \in Anchorable(ch) : j <= k}}
-------------------------------------------------------------------------------
(* The daemon stops and starts *)

Init ==
  /\ now = 0
  /\ pins = {} /\ disk = {}
  /\ phase = "down" /\ job = NoConn /\ reply = {}
  /\ askedAt = 0 /\ waited = 0
  /\ status = [c \in Conns |-> "idle"]
  /\ request = [c \in Conns |-> NoCall]
  /\ answer = [c \in Conns |-> {}]

\* main: PinStore::open loads the state file; one that is missing or does not
\* parse counts as empty, which is how `disk` records it.
Start ==
  /\ phase = "down"
  /\ phase' = "idle"
  /\ pins' = disk
  /\ UNCHANGED <<now, disk, job, askedAt, waited, reply, connVars>>

\* The process dies at any point.  The connection it worked on breaks, and so
\* do the ones it had accepted; those still in the listen queue survive a
\* restart through systemd's socket.
Crash ==
  /\ phase # "down"
  /\ phase' = "down" /\ job' = NoConn /\ reply' = {}
  /\ askedAt' = 0 /\ waited' = 0
  /\ pins' = {}
  /\ \E lost \in SUBSET {c \in Conns : status[c] \in {"waiting", "gone"}} :
       /\ job \in lost \cup {NoConn}
       /\ status' = [c \in Conns |-> IF c \in lost THEN "idle" ELSE status[c]]
       /\ request' = [c \in Conns |-> IF c \in lost THEN NoCall
                                      ELSE request[c]]
  /\ UNCHANGED <<now, disk, answer>>

\* Grants are dated by SystemTime, the prompt's deadline by Instant.  The two keep
\* pace, except that SystemTime moves alone in a suspend or when it is set
\* forward.  (That it is never set back is an assumption.)
Tick ==
  /\ now < MaxTime
  /\ now' = now + 1
  /\ waited' \in IF phase = "prompt" THEN {waited, waited + 1} ELSE {waited}
  /\ UNCHANGED <<pins, disk, phase, job, askedAt, reply, connVars>>
-------------------------------------------------------------------------------
(* Callers: VarlinkTrustBroker::request_trust *)

\* Connect and send.  While the daemon is down this is socket activation: the
\* request waits in the listen queue.  (A refused connection changes nothing.)
Ask(c, req) ==
  /\ status[c] \in {"idle", "done"}
  /\ status' = [status EXCEPT ![c] = "waiting"]
  /\ request' = [request EXCEPT ![c] = req]
  /\ answer' = [answer EXCEPT ![c] = {}]
  /\ UNCHANGED <<now, pins, disk, daemonVars>>

\* The caller's timer (pkinit_kdc_trust_timeout) wins the race against the
\* reply: the call fails, the request stays with the daemon.
GiveUp(c) ==
  /\ status[c] = "waiting"
  /\ status' = [status EXCEPT ![c] = "gone"]
  /\ UNCHANGED <<now, pins, disk, daemonVars, request, answer>>
-------------------------------------------------------------------------------
(* RequestTrust and PinStore::decide *)

\* The server reads a request, also one whose caller has gone, and decide()
\* starts; it holds the store's mutex until it returns.
Take(c) ==
  /\ phase = "idle"
  /\ status[c] \in {"waiting", "gone"}
  /\ job' = c

Conclude(r) ==
  phase' = "reply" /\ reply' = r /\ askedAt' = 0 /\ waited' = 0

\* Where the question is shown.  Without a notification server that renders
\* actions, NotifyPrompter falls back to the terminal at once.
Screens == {"prompt"} \cup (IF Gui THEN {"notify"} ELSE {})
Asking == phase \in {"prompt", "notify"}

\* decode_all() fails before the store is asked.
Malformed(c) == ~request[c].chain.decodes /\ Conclude(InvalidRequest)

\* Fail closed: the signer is never pinned, and there is no fallback anchor.
NoCA(c) ==
  /\ request[c].chain.decodes
  /\ SelectCA(request[c].chain) = {}
  /\ Conclude(Denied)

ServeUndecidable(c) ==
  /\ Take(c)
  /\ Malformed(c) \/ NoCA(c)
  /\ UNCHANGED <<now, pins, disk, connVars>>

\* Slip: the pinned fingerprint is not compared.
ServeKnownRealm_AnyCA(c) ==
  /\ Take(c)
  /\ request[c].chain.decodes
  /\ \E ca \in SelectCA(request[c].chain) :
       /\ LivePins(PinsOf(pins, request[c].realm), now) # {}
       /\ Conclude(Trusted(ca))
  /\ UNCHANGED <<now, pins, disk, connVars>>

\* A live pin decides, for and against, whatever `interactive` says.
ServeKnownRealm(c) ==
  /\ Take(c)
  /\ request[c].chain.decodes
  /\ \E ca \in SelectCA(request[c].chain),
        pin \in LivePins(PinsOf(pins, request[c].realm), now) :
       Conclude(IF pin.ca = ca THEN Trusted(pin.ca) ELSE Denied)
  /\ UNCHANGED <<now, pins, disk, connVars>>

\* Slip: a grant counts as over one tick early.
ServeUnknownRealm_EarlyLapse(c) ==
  /\ Take(c)
  /\ request[c].chain.decodes
  /\ SelectCA(request[c].chain) # {}
  /\ LivePins(PinsOf(pins, request[c].realm), now + 1) = {}
  /\ pins' = pins \ PinsOf(pins, request[c].realm)
  /\ \/ /\ ~request[c].interactive
        /\ Conclude(Unknown)
     \/ /\ request[c].interactive
        /\ phase' \in Screens /\ askedAt' = now /\ waited' = 0
        /\ UNCHANGED reply
  /\ UNCHANGED <<now, disk, connVars>>

\* Slip: the human is asked on behalf of non-interactive callers too.
ServeUnknownRealm_AlwaysAsk(c) ==
  /\ Take(c)
  /\ request[c].chain.decodes
  /\ SelectCA(request[c].chain) # {}
  /\ LivePins(PinsOf(pins, request[c].realm), now) = {}
  /\ pins' = pins \ PinsOf(pins, request[c].realm)
  /\ phase' \in Screens /\ askedAt' = now /\ waited' = 0
  /\ UNCHANGED <<now, disk, reply, connVars>>

\* No live pin: a lapsed one is dropped from memory (the file keeps it).
\* Without a human the answer is Unknown, otherwise decide() blocks in the
\* prompter with the clock reading it took before.
ServeUnknownRealm(c) ==
  /\ Take(c)
  /\ request[c].chain.decodes
  /\ SelectCA(request[c].chain) # {}
  /\ LivePins(PinsOf(pins, request[c].realm), now) = {}
  /\ pins' = pins \ PinsOf(pins, request[c].realm)
  /\ \/ /\ ~request[c].interactive
        /\ Conclude(Unknown)
     \/ /\ request[c].interactive
        /\ phase' \in Screens /\ askedAt' = now /\ waited' = 0
        /\ UNCHANGED reply
  /\ UNCHANGED <<now, disk, connVars>>

Serve(c) ==
  \/ ServeUndecidable(c)
  \/ ServeKnownRealm(c)
  \/ ServeUnknownRealm(c)
-------------------------------------------------------------------------------
(* The prompt *)

\* Slip: the answer is read without a deadline.
Approve_AnyTime(ttl) ==
  /\ Asking
  /\ \E ca \in SelectCA(request[job].chain) :
       LET realm == request[job].realm
           pin == [realm |-> realm, ca |-> ca, until |-> ExpiresAt(ttl, askedAt)]
       IN  /\ pins' = (pins \ PinsOf(pins, realm)) \cup {pin}
           /\ reply' = Trusted(ca)
  /\ phase' = IF HasStateFile THEN "truncate" ELSE "reply"
  /\ askedAt' = 0 /\ waited' = 0
  /\ UNCHANGED <<now, disk, job, connVars>>

\* The user picks a duration.  The terminal prompter returns no approval after
\* its deadline, whatever the wall clock has done; a notification may be clicked
\* at any time.
Approve(ttl) ==
  /\ Asking
  /\ phase = "prompt" => waited <= PromptTimeout
  /\ \E ca \in SelectCA(request[job].chain) :
       LET realm == request[job].realm
           pin == [realm |-> realm, ca |-> ca, until |-> ExpiresAt(ttl, askedAt)]
       IN  /\ pins' = (pins \ PinsOf(pins, realm)) \cup {pin}
           /\ reply' = Trusted(ca)
  /\ phase' = IF HasStateFile THEN "truncate" ELSE "reply"
  /\ askedAt' = 0 /\ waited' = 0
  /\ UNCHANGED <<now, disk, job, connVars>>

\* "No", end of file, no terminal to ask on, an unusable answer; the "Deny"
\* button or a notification closed without a choice.
DenyPrompt ==
  /\ Asking
  /\ Conclude(Denied)
  /\ UNCHANGED <<now, pins, disk, job, connVars>>

\* Slip: every poll starts the timeout anew, so it never runs out.
ExpirePrompt_Rearmed == phase = "prompt" /\ UNCHANGED vars

\* The deadline of the terminal prompter's poll loops.
ExpirePrompt == phase = "prompt" /\ DenyPrompt
-------------------------------------------------------------------------------
(* persist() and the answer *)

\* std::fs::write opens the file with O_TRUNC.  What it leaves does not parse.
\* A failed open leaves the old file; decide() only warns.
Truncate ==
  /\ phase = "truncate"
  /\ \/ disk' = {} /\ phase' = "write"
     \/ DiskErrors /\ UNCHANGED disk /\ phase' = "reply"
  /\ UNCHANGED <<now, pins, job, askedAt, waited, reply, connVars>>

\* The write of the whole map succeeds or leaves an unparsable prefix.
Write ==
  /\ phase = "write"
  /\ disk' = pins \/ (DiskErrors /\ UNCHANGED disk)
  /\ phase' = "reply"
  /\ UNCHANGED <<now, pins, job, askedAt, waited, reply, connVars>>

\* The server sends the reply; a caller that gave up never reads it.
Deliver ==
  /\ phase = "reply"
  /\ phase' = "idle" /\ job' = NoConn /\ reply' = {}
  /\ request' = [request EXCEPT ![job] = NoCall]
  /\ IF status[job] = "waiting"
     THEN /\ status' = [status EXCEPT ![job] = "done"]
          /\ answer' = [answer EXCEPT ![job] = reply]
     ELSE /\ status' = [status EXCEPT ![job] = "idle"]
          /\ UNCHANGED answer
  /\ UNCHANGED <<now, pins, disk, askedAt, waited>>
-------------------------------------------------------------------------------
Daemon ==
  \/ \E c \in Conns : Serve(c)
  \/ \E ttl \in Ttls \cup {Forever} : Approve(ttl)
  \/ DenyPrompt
  \/ Truncate
  \/ Write
  \/ Deliver

Environment ==
  \/ Start
  \/ Crash
  \/ Tick
  \/ \E c \in Conns : GiveUp(c) \/ (\E req \in Request : Ask(c, req))

Next == Daemon \/ Environment

\* The daemon's own steps happen, and a prompt on a terminal ends; nobody
\* promises that a human answers, that the clock moves or that callers call.
Fairness ==
  /\ WF_vars(Start)
  /\ WF_vars(\E c \in Conns : Serve(c))
  /\ WF_vars(ExpirePrompt)
  /\ WF_vars(Truncate)
  /\ WF_vars(Write)
  /\ WF_vars(Deliver)

Spec == Init /\ [][Next]_vars
FairSpec == Spec /\ Fairness
-------------------------------------------------------------------------------
(* Properties *)

\* Every variable keeps its shape through every handler.
TypeOK ==
  /\ now \in 0..MaxTime
  /\ pins \in SUBSET Pin /\ IsPinMap(pins)
  /\ disk \in SUBSET Pin /\ IsPinMap(disk)
  /\ phase \in {"down", "idle", "prompt", "notify", "truncate", "write", "reply"}
  /\ job \in Conns \cup {NoConn}
  /\ askedAt \in 0..now
  /\ waited \in 0..(now - askedAt)
  /\ reply \in Reply
  /\ status \in [Conns -> {"idle", "waiting", "gone", "done"}]
  /\ request \in [Conns -> Request \cup {NoCall}]
  /\ answer \in [Conns -> Reply]

\* The file never holds a live grant that the running daemon has dropped or
\* replaced: a restart at any point, whatever persist() had managed to write,
\* cannot bring back a CA that a later decision superseded (decide, persist,
\* open: nothing is written back when a lapsed pin is removed).
FileHoldsNoSupersededGrant ==
  phase # "down" => LivePins(disk, now) \subseteq pins

\* The anchor decide() is about to hand out is the one the pin store holds for
\* that realm and the one that call presented, although callers came and went
\* while the prompt was open.
TrustedReplyMatchesPin ==
  \A ca \in Certs :
    reply = Trusted(ca) =>
      /\ ca \in SelectCA(request[job].chain)
      /\ ca # request[job].chain.signer
      /\ \E p \in pins : p.realm = request[job].realm /\ p.ca = ca

\* What the realm's users have effectively granted: memory while the daemon
\* runs, the file while it is down.
Effective == LivePins(IF phase = "down" THEN disk ELSE pins, now)

\* No step but a user's approval in an interactive call adds trust, and then
\* only for the realm and CA that were on display, in a realm that trusted
\* nothing: crashes, restarts, lapses and lost writes only take trust away.
AddsTrustByConsent ==
  \A p \in Effective' \ Effective :
    /\ Asking /\ request[job].interactive
    /\ p.realm = request[job].realm
    /\ p.ca \in SelectCA(request[job].chain)
    /\ PinsOf(Effective, p.realm) = {}
TrustOnlyByConsent == [][AddsTrustByConsent]_vars

\* How far the wall clock has run ahead of the open prompt's own clock.
Ahead == (now - askedAt) - waited

\* A grant approved on a terminal is dated from before the prompt, and recorded
\* when the prompt's deadline has not passed: if it is over by then (decide()
\* records it all the same), that is due to the wall clock alone, which ran
\* ahead of the deadline's.  With clocks that kept pace it is not over.
RecordsLiveGrant ==
  \A p \in pins' \ pins : phase = "prompt" => Live(p, now - Ahead)
ApprovedGrantIsLive == [][RecordsLiveGrant]_vars

\* The server comes back to its queue after every request, if notifications do
\* not stay open for ever: no other step of a call can block it.
ServerKeepsServing ==
  []<>(phase # "notify") => []<>(phase \in {"idle", "down"})

\* "How long an interactive prompt (tty or GUI notification) waits for a
\* response before failing closed" (PROMPT_TIMEOUT, store.rs:72): a prompt ends.
PromptFailsClosed == Asking ~> ~Asking

\* "granted forever and never expires on its own (only a changed CA revokes
\* it)" (Pin::expires_at, store.rs:26): a forever grant of a realm the daemon
\* is not deciding about outlives every step, a crash included.
ForeverPinSurvives ==
  [][\A p \in Effective :
       p.until = Forever /\ (job # NoConn => p.realm # request[job].realm)
         => p \in Effective']_vars
-------------------------------------------------------------------------------
(* Refinement of the abstract promise *)

\* The CA a chain puts up for a decision, if any.
Offer == [ch \in Chains |-> IF ch.decodes THEN SelectCA(ch) ELSE {}]

Asked(c) ==
  IF request[c] = NoCall THEN NoCall
  ELSE [realm |-> request[c].realm,
        offer |-> Offer[request[c].chain],
        interactive |-> request[c].interactive]

Promise == INSTANCE Tofu WITH
  trusted <- Effective,
  asked <- [c \in Conns |-> Asked(c)],
  verdict <- [c \in Conns |-> IF c = job THEN reply ELSE answer[c]]

KeepsPromise == Promise!TofuSpec
===============================================================================
