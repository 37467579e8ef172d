# TLA+ models of kurbu5-pkinit

kurbu5-pkinit is a PKINIT (RFC 4556) preauthentication plugin pair for MIT
Kerberos with post-quantum key exchange, and a trust broker that lets a user
accept a KDC's CA on first use. This directory holds TLA+ modules of its control
logic, TLC configurations that check them on small instances, and TLAPS proofs
of their safety properties for every value of the constants.

What is modelled, the parts that carry most of the risk first:

* **the trust broker** - a daemon that decides, sometimes with a human, which CA
  a realm may use, remembers the decision in a file and is called by short-lived
  clients that time out (`TrustBroker`, with the abstract promise `Tofu`);
* **the client's verdict on a KDC**, composed with the broker it may have to ask
  (`KdcTrust`);
* **the negotiation of the key exchange** - how a client and a KDC settle on a
  KEM or a DH group over unauthenticated hints, errors, retries and late replies
  (`KeyExchange`);
* **a KDC with the PKINIT module** - its start from a profile, and AS-REQs on
  their way through its callbacks, with the messages both sides make and read
  (`KdcRequest`, over pure modules for CMS, identities, authorization, key
  derivation, encodings and configuration);
* **the client plugin over the exchanges of one krb5 context** - which state,
  identity and password belong to which exchange (`ClientPlugin`);
* **the export of decisions as permanent configuration** beside a running broker
  (`TrustExport`);
* **certificate matching rules**, down to the loop of the glob (`Matching`).

## 1. Inventory

| Component | Source | State | Operations | Model |
|---|---|---|---|---|
| Pin store | `pkinit-trust-brokerd/src/store.rs` | map realm -> pin, state file | `open`, `decide`, `select_ca`, `persist`, `trusted_realms` | `TrustBroker`; `TrustExport` (`trusted_realms`) |
| Broker service | `pkinit-trust-brokerd/src/lib.rs` | the store behind a mutex | `RequestTrust`, `ListTrustedRealms` | `TrustBroker`; `TrustExport` (`ListTrustedRealms`) |
| Prompters, daemon start | `client_tty.rs`, `graphical.rs`, `main.rs` | deadline of the open prompt | `confirm`, socket activation | `TrustBroker`, partly: the text of prompts is left out |
| Varlink interface | `pkinit-trust-proto/src/lib.rs` | - | message types | `TrustBroker`, `TrustExport` |
| Broker caller | `kurbu5-pkinit/src/trust_broker_client.rs` | one call and its timer | `request_trust` | `TrustBroker` (`Ask`, `GiveUp`), `KdcTrust` (`Heard`) |
| trust-ctl | `pkinit-trust-ctl/src` | anchors directory | `list`, `export` | `TrustExport` |
| Client state machine | `pkinit-core/src/client.rs` | chosen algorithm, DH and KEM keys, last key exchange | hint, `build_as_req`, `process_as_rep`, retry, `validate_kdc_chain` | `KeyExchange` (over a network), `PkinitMessages` (field by field), `KdcTrust` (chain) |
| KDC state machine | `pkinit-core/src/server.rs` | configuration only | hints, `verify_as_req`, `build_as_rep` | `KeyExchange`, `PkinitMessages`, `KdcRequest` |
| Client plugin | `kurbu5-pkinit/src/client_plugin.rs` | client state, pending PKCS#12, options | `init_etype_info`, `process`, `tryagain`, `supply_gic_opts` | `KeyExchange` (one exchange), `ClientPlugin` (several); partly: the freshness token is data of `PkinitMessages` |
| KDC plugin | `kurbu5-pkinit/src/kdc_plugin.rs` | the loaded module; what a request leaves for `return_padata` | `init_module`, `get_edata`, `verify`, `return_padata`, anonymous KX | `KdcRequest`; partly: not the certauth entry points |
| Configuration | `profile.rs`, `config.rs`, `constants.rs` | - | profile -> configuration | `Profile` (KDC), `ClientPlugin` (client) |
| Codecs | `kem_types.rs` | - | nonce, DER lengths, hint | `Wire`, partly: what the ASN.1 library generates is data |
| Certificate authorization | `certauth.rs`, `san.rs`, `identity/matching.rs` | - | verdicts on SAN and EKU, matching rules | `CertAuth`, `Matching` |
| Identities, trust store | `identity/*` | - | load files, directories, archives, tokens; validate a chain | `Identities` |
| Key derivation | `crypto/kdf.rs`, `o2k.rs` | - | choice of the KDF, inputs, `octetstring2key` | `Derivation` |
| Primitives | `crypto/{dh,kem,cms,checksum}.rs` | - | signatures, encapsulation, CMS | `Cms`; partly: the rest are perfect operations |
| Entry points, tracing, test support, build | - | - | - | not modelled |

How they interact: libkrb5 calls the client plugin, which drives the client
state machine; the KDC calls the KDC plugin, which drives the KDC state machine;
the two exchange AS-REQ, KRB-ERROR and AS-REP. While the client validates the
KDC's chain it may call the broker over a Unix socket and waits for the answer
or its timer. The broker serialises its callers (zlink hands one request at a
time to `&mut self`), reads and prompts under the store's mutex, and writes its
file before it answers. `pkinit-trust-ctl` reads the broker's pins over the same
socket and writes them out as permanent configuration.

What is hard in it:

* the broker's prompt lasts minutes, during which callers time out, retry and
  queue, the wall clock may move past the grant being approved (its end is an
  epoch time, the prompt's deadline an `Instant`), and the process may die;
* the state file is rewritten in place, failures to write are only warned about,
  and lapsed pins leave memory but not the file;
* a client blocked in its call to the broker is answered from decisions made for
  other callers, before its own checks of EKU and SAN;
* the client's key exchange state is rewritten by unauthenticated lists, and
  what must never be undone (no fall-back from KEM) is remembered in a field that
  every change resets;
* errors and replies of earlier requests can arrive after the client has moved
  on, with key pairs of both kinds in its state;
* what a KDC advertises and what it accepts are computed in different places;
* a KDC takes an unsigned request for anonymous before it has verified anything,
  and the order of its checks decides which error, indicators and typed data a
  client gets;
* nonces, DER lengths, key sizes and secrets meet boundaries (signed and
  unsigned, short and long form, the thresholds of `pkinit_dh_min_bits`);
* one plugin instance serves all exchanges of a context, and which of its state
  belongs to the current one is not recorded;
* an export works from a snapshot while the broker goes on, and may stop at any
  file;
* the glob takes each part of a pattern where it first occurs and never goes back.

`PROJECT.json` lists these hazards at their lines with the properties that watch
them. What makes each component correct: a realm trusts only what somebody
consented to, and for no longer (store, service, prompters), and only that is
made permanent (trust-ctl); a KDC is accepted under the client's own anchors or
under such a consent (client, caller); the server gets back to its queue (service,
prompters); the client never goes below its policy or back from a KEM, and both
sides hold the same key (client, KDC); policies that can agree do agree; a reply
key goes to nobody but the client a request names, and to every client that
fits (KDC); a request that is out can be answered, a principal without an
identity goes on to its password, and the identity a caller set prevails over
every profile (client plugin); a matching rule says yes only when it is right
(matching).

## 2. Modules

    TrustExport ---> TrustBroker  (implements Tofu)
    KdcTrust ------> TrustBroker, CertAuth
    KdcRequest ----> PkinitMessages ---> Cms, Identities, CertAuth,
                                         Wire, Derivation, Profile
    KeyExchange      ClientPlugin        Matching

An arrow is EXTENDS; the modules of the last line stand alone, but that
`KeyExchange`, `Identities` and `Profile` put their lists together with `Lists`.
`MCKdcTrust`,
`MCTrustBroker`, `MCTrustExport`, `MCKeyExchange`, `MCClientPlugin`,
`MCKdcRequest` and `MCMatching` give the constants small values;
`TrustBrokerProofs`, `KdcTrustProofs`, `TrustExportProofs`, `KeyExchangeProofs`,
`ClientPluginProofs`, `KdcRequestProofs` and `MatchingProofs` hold the proofs,
`ListsProofs` what several of them need of lists. A definition marked "Slip" is a plausible
mistake in the one it is named after (`Approve_AnyTime` of `Approve`): no
specification uses it, and the property it breaks shows that the property can be
broken.

### `Tofu` - the abstract promise

Trust on first use without daemon, file or prompt: a set of live grants, calls
that ask, and verdicts. Trust enters by `Consent` only; `End` may lose it.

### `TrustBroker` - the daemon, its file and its callers

| TLA+ | Code |
|---|---|
| `now`, `waited` | `now_secs()`, which dates grants; how long the open prompt has been up by its own `Instant`, which its deadline is measured with |
| `pins`, `disk` | `PinStore::pins`; what `PinStore::open` would load from the state file |
| `phase`, `job`, `askedAt`, `reply` | where `request_trust`/`decide`/`persist` stands, for which connection, the `now` it read, the answer on its way |
| `status`, `request`, `answer` | the callers: idle, waiting, gone (timed out), done |
| `ServeUndecidable` (`Malformed`, `NoCA`), `ServeKnownRealm`, `ServeUnknownRealm` | the rows of the decision table up to the prompt |
| phases `prompt`, `notify` (with `Gui`) | the question on the caller's terminal, with a deadline; as a desktop notification, without |
| `Approve`, `DenyPrompt`, `ExpirePrompt` | `Prompter::confirm` returns |
| `Truncate`, `Write` | the two halves of `std::fs::write` in `persist()` |
| `Deliver` | the reply is sent; a caller that has gone never reads it |
| `Start`, `Crash` | `main`, `PinStore::open`; death of the process at any point |

`decide()` holds the store's mutex and the server holds its `&mut self` until the
answer is computed, so the daemon is one phase and one job. Its steps are split
exactly where something else can happen in between: while the prompt is open
(clock, callers, crash) and inside the write of the file (crash, error). A chain
is a record of the signer, the presented certificates in message order and the
set of those `validates_as_anchor` accepts, so `SelectCA` keeps the order in
which `select_ca` looks (last first, never the signer). `Tick` moves the two
clocks together or, for a suspend or a clock set forward, `now` alone.

### `KdcTrust` - the client's verdict on a KDC, with the broker

Extends `TrustBroker`; some of its callers are PKINIT clients that verify
replies, the others may call as they like.

| TLA+ | Code |
|---|---|
| `check`, `outcome` | what `validate_kdc_chain` was called with and what it returned |
| `CheckConfigured`, `CheckUnanchored` | the configured anchors; no broker, or no realm to ask about |
| `AskBroker`, `BrokerUnreachable` | `request_trust` goes out, interactive in an anonymous exchange only; `connect` fails |
| `Hear` (`Heard`, `NameChecks`) | the reply: `validate_broker_anchors`, then EKU and SAN, on every path |
| `BrokerFails` | the timer, or a broken connection |
| `consented` | history: what users said yes to |

### `TrustExport` - `pkinit-trust-ctl export` beside the broker

Extends `TrustBroker`, whose every step is also one of `Broker` here.

| TLA+ | Code |
|---|---|
| `ctl` | where `main` of pkinit-trust-ctl stands |
| `todo`, `named` | the reply's realms still to come, those already in the snippet |
| `files`, `conf` | `DIR/<realm>.pem`; the file of `--conf-snippet` |
| `granted` | history: what users approved at any time |
| `Snapshot` | `list_trusted_realms`, served between two requests |
| `SkipRealm`, `WritePem`, `WriteSnippet` | the loop of `export` and what `main` does with its result |

A write that fails or whose process is killed leaves the old file or a torn one
(`Interrupted`), and the next export starts over it. A torn snippet declares a
subset of its realms.

### `KeyExchange` - one exchange between a client and the realm's KDCs

| TLA+ | Code |
|---|---|
| `client` | `config.kem_algorithm`, `config.dh_group`, `key_exchange`, `dh_key`, `kem_key` of `PkinitClientState` |
| `Hint`, `TryAgain`, `ProcessReply` | the plugin's `process` (PA-PK-AS-REQ), `tryagain`, `process` (PA-PK-AS-REP), each with every call it makes |
| `Reject`, `Refuse`, `Grant` | `verify` and `return_padata`: an error, an error with typed data, a reply |
| `Recognized`, `DhAllowed`, `Accepts`, `Preferred` | `recognize`, `dh_allowed`, `accepts`, the search in `handle_tryagain_typed_data` and `process_pkinit_hint` |
| `Advertised`, `AcceptsAlg` | `acceptable_key_establishment_alg_ids` and the checks of `verify_as_req` |
| `sent`, `errors`, `replies` | the wire: nothing in flight is ever lost to the model, so anything may arrive late, twice or never |

A key pair is named by its algorithm and the request it was made for; a reply
carries the public key it was made for and the KDC's fresh secret, so two sides
have the same key exactly when they agree on both and on the AS-REQ bound into
the KDF. `ForeignLists` stands for KDCs of other implementations, whose
unauthenticated hints and errors can say anything. Whether the KDC's signature
and chain are good is one Boolean here; `PkinitMessages` and `KdcTrust` open it.

### `KdcRequest` - a KDC with the PKINIT module

| TLA+ | Code |
|---|---|
| `kdc`, `InitModule`, `Restart` | `PkinitKdc`: `init_module` over `KdcConfig`, `LoadIdentity`, `LoadAll`, with the error of each way to fail |
| `Advertise` | `get_edata`: the hint, as bytes |
| `Receive`, `Finish` | the KDC core (external) takes up a request and forgets it |
| `Verify` | `verify`: `verify_as_req` with its checks in their order (`RefusedWith`), `authorize_client`, the indicators |
| `ReturnDh` | `return_pkinit_dh`: `build_as_rep` over the DH or the KEM path |
| `ReturnKx`, `ReturnKxFails`, `SkipKx` | `return_pkinit_kx`, with its failure after the old session key was freed |
| `modreq`, `refusal`, `indicators`, `replyKey`, `session`, `padata` | what the callbacks leave for each other and for the reply |

`inFlight` is the fixed set of AS-REQs that may arrive in any order, again or
never. A request of this code's client carries the record of that client, so
that a property can compare what the client derives with what the KDC derived.
The pure modules under it are:

| Module | What it defines | Code |
|---|---|---|
| `PkinitMessages` | `BuildAsReq`, `VerifyAsReqError`, `BuildAsRep`, `ProcessAsRep` field by field | `client.rs`, `server.rs` |
| `Cms` | the three wrappings of a payload, signed attributes, verification | `crypto/cms.rs` |
| `Identities` | the sources of an identity and of anchors, chain validation | `identity/*` |
| `CertAuth` | the verdicts on SAN, EKU and key usage | `certauth.rs`, `san.rs` |
| `Derivation` | the choice of the KDF, its inputs, `octetstring2key` | `crypto/kdf.rs`, `o2k.rs` |
| `Wire` | nonces, DER lengths, the wrappers of the hint | `kem_types.rs` |
| `Profile` | lookup, conversions, groups and KEM lists | `profile.rs`, `config.rs`, `constants.rs` |
| `Lists` | the parts of a list joined, the members wanted chosen | the loops and filters that gather lists |

A table of checks is a sequence of conditions with their errors, and
`FirstFailure` is the first row that holds: the order of the rows is the order of
the code. A hash, a signature and a derived key are records of what went in.

### `ClientPlugin` - the plugin over the exchanges of one context

| TLA+ | Code |
|---|---|
| `config` | `self.config`, which outlives an exchange: the identity, the anchors, and `requireKem` for every relation that a profile overrides |
| `Relations` | what the profile says under `ctx.realm()`, the default realm of the context, which need not be the realm of the request |
| `state`, `pending` | `self.state` (with the configuration, trust store and KDC name it was built with), `self.pending_pkcs12` |
| `supplied` | history: the identity the caller set |
| `step`, `exchange`, `asked`, `response` | libkrb5: where the exchange is, the responder's question and answer of this round |
| `sent`, `verdict` | history: the request that is out and who signed it; how the exchange ended for PKINIT |
| `PrepKeeps` ... `PrepAsks` | the outcomes of `init_etype_info` |
| `ProcessInfo`, `ProcessAsReq`, `ProcessAsRep` | `process` by padata type, each with `finish_pending_pkcs12` first |
| `Negotiate` | hint or retry list, then `build_pa_pk_as_req`: any kind of key, some keys dropped (`KeyExchange` says which) |

`init_module` is called once for a context, so neither `state` nor `config` is
reset by `Begin`: what an earlier exchange read for another default realm stays
where the present one says nothing.
libkrb5 calls `init_etype_info` once for each padata type of the list, hence
repeatedly; it ignores errors of informational padata, and goes on with another
mechanism when `process` fails for PA-PK-AS-REQ.

### `Matching` - certificate matching rules

| TLA+ | Code |
|---|---|
| `Parse` | `CertMatcher::parse`: one unknown tag spoils the rule |
| `alt`, `term`, `Holds`, `Fails` | the evaluation of `\|\|` and `&&` |
| `SetTerm`, `BrokenTerm`, `TextTerm` | `evaluate` of one term by its kind |
| `name`, `part`, `pos`, `Contains`, `TakePart`, `AllParts`, `NoNameLeft` | `simple_match` on one text after the other, one turn of its loop a step |

The reference (`Right`, `Glob`) is what the comment of `simple_match` says: a
star stands for any text.

## 3. Runs

| Run | Question | Result |
|---|---|---|
| `KdcTrust_consent` | Is a KDC accepted under the client's anchors or a user's consent only, does trust come from consent only, and does a restart revive nothing superseded? | holds |
| `TrustBroker_promise` | Does the broker implement `Tofu`, with two realms in one file, and does the server return to its queue? | holds |
| `TrustBroker_notify` | Does every prompt fail closed, as `PROMPT_TIMEOUT` says? | violated by the notification prompter |
| `TrustBroker_forever` | Does a "forever" pin survive everything but a changed CA? | violated by a crash inside `persist()` |
| `TrustExport_files` | Is what becomes permanent granted, and what is declared written? | holds |
| `KeyExchange_policy` | Can lists, retries, late replies take the client below its policy, or to a key the KDC does not have? Does every exchange end? | no; yes |
| `KeyExchange_converge` | Do compatible policies lead to a key? | holds |
| `KeyExchange_hint` | Does the hint leave out nothing the KDC accepts, as its comment says? | violated by a default KDC |
| `KdcRequest_served` | Who gets a reply key, who is refused with what, and does the client compute the same keys? | holds |
| `ClientPlugin_context` | Do two exchanges with one context keep their requests, passwords and parts apart? Does PKINIT stand aside where there is no identity, and does the caller's prevail? | holds |
| `ClientPlugin_decline` | Is there no client state when no identity is configured, as a comment says? | violated after an anonymous exchange |
| `Matching_rules` | Is a rule that holds right, and one that fails wrong, but for texts behind the last star? | holds |

### Bounds, and why they are enough

*Trust broker.* Two connections are one to be prompted for and one to queue,
retry or overtake; one is enough where only the store matters. One realm where
pins compete, two where they share the file. Two CAs, an intermediate that is an
anchor too, a signer alone and (in `KdcTrust_consent`) a garbled request: the
ways `select_ca` can come out, and a second CA to change to. `MaxTime` 4 lets a
grant of two ticks be given, lapse and be given again around a prompt of one
tick (`KdcTrust_consent`); with two realms and callers a grant of one tick that
may lapse is enough (`TrustBroker_promise`). `PromptTimeout` is shorter than the
shortest grant, as 300 s is than the 15 minutes of `GRANT_PRESETS` (an ASSUME).
Certificates keep their validity for the whole behaviour.

*The client's verdict.* One client and another caller, who may be served first
and leave a pin, or be prompted meanwhile. The five checks are an anchored chain,
one a user may pin, the same without a realm to ask about, one of another CA in
an authenticated exchange, and a KDC certificate that fails the SAN check after
the user has agreed.

*Export.* Two realms, one whose name is no file name, and two CAs to change
between; `MaxTime` 1 with grants of one tick and a prompt of none is enough for
a grant to lapse between the snapshot and its file, and for another CA to take
its place before the next export. Exports are not counted: they repeat for ever.

*Key exchange.* Two pure KEMs of different strength, a composite one of the
lower strength, one curve, two MODP groups, and an identifier nobody knows:
every comparison in `accepts`, `recognize` and the KDC's checks comes out both
ways. Three requests are one by default and two changes of mind: enough to go
from a KEM to another algorithm and back. libkrb5 stops after 16; `MaxRequests`
stands for that. All client configurations (for `converge` and `hint`; those
with MODP groups for the others) meet all the KDC policies. One KDC and
`ForeignLists` stand for a realm with several: all but the KDC whose reply is
accepted are no more than what they say.

*KDC requests.* One CA, an intermediate, a stranger, a revoked client and a
certificate that does not decode; every source of an identity with a way for it
to fail; `pkinit_dh_min_bits` on both sides of each threshold, and negative.
Every algorithm family, clients from before KDFs were negotiated, enctypes whose
seed is shorter and longer than the secret with its nonces, clocks on both sides
of the skew. Requests are those of this code's clients,
with one thing wrong at a time, and messages of others, with one field wrong at
a time, in the names of a client, of the anonymous principal and of nobody.
`SignBit` 4 and `Base` 10 keep the order of the boundaries 2^31, 0x80, 0x100: a
nonce of -1, one beyond the width, hints on both sides of the long form. The
three-byte form is beyond any list of algorithms and is not reached. Requests do
not meet each other (the module keeps nothing), so one at a time is enough;
they repeat, in any order, across restarts.

*Client plugin.* Two exchanges (`MaxExchanges`) are one that leaves something and
one that finds it, each for either realm and under either default realm. Both
realms have any identity (none, plain, locked); one has an anchor that loads and
insists on a KEM, the other has no anchor or one that does not load, takes the
insistence back or says nothing of it, and parses or not: 72 profiles, in which
each relation can be kept from the other realm, be overridden, and fail to load.
The application may also set any identity, broken ones included, and any anchor.
Every property speaks of one exchange and what an earlier one left, so a
third adds nothing but what the second may leave too.

*Matching.* Two characters; every text of up to four against every pattern of up
to three parts of up to two: parts that overlap, repeat, are empty, and end
the text. Rules of two or three terms in every arrangement of `&&` and `||`,
on certificates with no name or two, sets that fit or not, and extensions that
do not decode.

### Fairness

`TrustBroker`: the daemon's own steps are weakly fair, and a prompt on a terminal
ends, because its poll loops have a deadline (`ExpirePrompt`). Nothing is assumed
of humans, of notifications, of the clock or of callers and their timers; `ServerKeepsServing` therefore asks that notifications be closed
again and again. Weak fairness of `Start` is socket
activation: systemd starts the daemon when somebody connects. `KeyExchange`:
libkrb5 drives an exchange that it has begun - hands over the hint, repeats a
request until a KDC answers, passes on what it got or gives up - and nothing is
assumed of the replicas of other implementations. The other modules state safety
only. Deadlock is checked except where the system stops: a finished exchange
(`KeyExchange`), the bounded exchanges of `ClientPlugin`, an evaluation that has
its verdict (`Matching`).

## 4. Findings

1. `persist()` (`store.rs:371`) truncates the state file before it writes it. A
   crash in between leaves a file that `open()` takes as empty: pins of all
   realms are lost, the forever ones included. Nothing is trusted wrongly
   (`TrustOnlyByConsent`, `FileHoldsNoSupersededGrant` hold in the same model);
   users are asked again.
2. The notification prompter (`graphical.rs:123`) waits without a deadline,
   whereas `store.rs:72-75` says every prompter times out. Callers have timers of
   their own; the server waits as long as the notification is open.
3. The hint (`server.rs:475-515`) omits what `accepts_kem` (`server.rs:98-111`)
   accepts by default, whereas `server.rs:73-79` says it is complete. A client
   that insists on a KEM ends its attempt at the hint.
4. `init_etype_info` leaves `self.state` as it was when there is no identity
   (`client_plugin.rs:95-102`), and returns before that when a key is held
   (`client_plugin.rs:72-78`; a DH key is never dropped after its reply).
   libkrb5 keeps the module instance with the context, so after an anonymous
   exchange a password-only principal is answered for with the anonymous state,
   whereas `client_plugin.rs:213-217` says there is none and PKINIT is skipped.
   The same leftover makes `is_anonymous` (`client.rs:52`, "the current
   exchange") that of an earlier exchange.

Two more that the models show without a run of their own:

* The glob `*ab` does not match `abab`, although `matching.rs:174-175` says a
  star matches any text. `FalseIsJustified` therefore excepts patterns with a text
  behind their last star (`Findable`), and the proofs show that no other pattern
  loses a match.
* `pkinit_pool`, `pkinit_revoke` and `pkinit_require_crl_checking`
  (`README.md:124-126`) are read into the configuration, but only anchors are
  loaded: a KDC that requires CRLs has none unless they came along with the
  anchors, and a client's chain is never checked against one.
  `FittingClientsAreServed` demands service only where the CRLs are there
  (`Checkable`).

## 5. Proofs

Each proof module states an inductive invariant, proves it initially true and
kept by every action (one lemma for each), and derives the properties. Every
constant is arbitrary within the module's ASSUMEs. Every invariant and action
property of the passing runs is proved but for the two named below.

`TrustBrokerProofs` proves for all realms, chains, callers, grants and times:
`TypeOK`, `FileHoldsNoSupersededGrant`, `TrustedReplyMatchesPin`,
`TrustOnlyByConsent`, and (of prompts on a terminal) `ApprovedGrantIsLive`. The
last says how much of a grant can be over when it is recorded: what the wall
clock ran ahead of the prompt's deadline since the question was put. `decide()`
does not look at the clock again, so after a suspend it may record a grant that
is over; with clocks that kept pace it never does (`RecordsLiveGrant` with
`Ahead` = 0), since every preset outlasts the deadline. None of the properties is inductive alone: the invariant has to add what each phase knows - that
a prompt is about an interactive request of the realm that has no live pin, that
a reply on its way is already pinned, that the file, in each phase, is behind
memory and never ahead of it.

It also proves `KeepsPromise`: initial states map to initial states, and every
step of the broker to a step of `Tofu` or a stutter. Besides the broker's
invariant that needs that a call that is open has no answer yet, and that a chain
somebody is prompted about decodes (`CallInv`).

`KdcTrustProofs` and `TrustExportProofs` first show that every behaviour of the
composition is one of the broker alone (`KdcRunsTheBroker`,
`ExportRunsTheBroker`), so that the broker's theorems hold there too.
Over them come the history of consents, which no pin in memory or file is ahead
of, and, in `KdcTrust`, that a blocked client's call is about its own check.
These give `KdcTypeOK`, `AcceptedUnderGrant`, `BrokerNeverOverrulesAnchors`,
`PinIsOfTheAnonymousExchange`; and `ExportTypeOK`, `PermanentTrustWasGranted`,
`SnippetNamesWrittenFiles`.

`KeyExchangeProofs` proves `TypeOK`, `NeverBelowPolicy`, `NoFallBackAfterKem`,
`DecapsulationKeyIsFresh` and `KeysAgree` for all algorithms, configurations,
foreign lists and numbers of requests. The invariant ties the client's fields to
its history: the last key exchange is that of the last request, a client
configured with a KEM stays above the floor, a key pair is as old as the request
that first carried it, and a reply in flight is one that a KDC with its
configuration gave to the request of its nonce. `NoFallBackAfterKem` needs that
`key_exchange` is reset only in steps that at once build another request.
`RefusalsHelp` proves `RefusalOffersAlternatives`: typed data hold the whole list
of the KDC that refused, which accepts all it advertises (`AdvertisedIsAccepted`,
over the parts the list is joined from). Where replicated KDCs suit the client
and nobody else talks to it (`Quiet`, as in `KeyExchange_converge`), `NeverFails`
shows that no exchange fails or takes more than one request after the first
guess, and `EndingConverges` that `Converges` then follows from `Ends`.

`KdcRequestProofs` proves `RequestTypeOK`, `ReplyKeyOnlyForTheNamed`,
`IndicatorsOnlyForSigned`, `OnlyTheKeyIsRefused`, `FittingClientsAreServed`,
`ReplyReachesTheClient`, `KxConveysTheSession`, `DefaultGroupIsAccepted`,
`HintIsReadBack` and the round trip of nonces, for all certificates, profiles,
messages, clocks and widths. Its invariant says what a request has left behind at each stage in terms
of two functions of KDC and request: why `verify` refuses it (`RefusedWith`) and
what the reply is (`Answer`). The rest is about those functions: the first row of
a table that fails (a least element, from the well-foundedness of < on the
naturals), what a signature that verifies says of its signer, and that what one
side builds the other side reads. For the hint that is a lemma about each form of
a length (`LengthIsParsed`), about a value in its wrapper (`ContentIsReadBack`),
which is lost when anything is cut off, and about the two wrappers together
(`HintRoundTrip`). `LoadedIdentity` shows that whatever files, directories and
tokens an identity comes from, in whatever order they are read, what loads
without an error is one key and one certificate with its chain.
`ChainsReachAnAnchor` shows that `LeadsTo`, which `Identities` defines by the sets
closed under issuing, is the existence of a path of issuers to an anchor;
`KeysRestOnPaths` says of the reply keys what that means.

`ClientPluginProofs` proves, for all profiles, identities and numbers of
exchanges, `TypeOK`, `RequestCanBeAnswered`, `StandsAsideForPasswords`,
`CallerTakesPrecedence`, `StateIsOfOneExchange` and `UsesTheRightPassword`. The
invariant adds that nothing is pending while a request is out (so no step can
replace its state), that a state is of an exchange that has begun, and what an
asked question implies in each step: the configured identity is a locked one, its
PKCS#12 is pending with this exchange's KDC and the configured anchors, and what
the default realm overrides is overridden, until a password has turned it into
the state of this exchange. `StandsAsideForPasswords` needs besides where an
identity can come from (`OwnIdentityFirst`) and that what is left without one is
anonymous (`AnonymousStateOnly`): then a password-only principal finds nothing in
the plugin (`Empty`), and no step finds anything to fail on.
`CallerTakesPrecedence` rests on how each step derives a state from what was there
(`Derives`).

`MatchingProofs` proves `MatchTypeOK`, `TrueIsRight` and `FalseIsJustified` for
all rules, certificates and alphabets. The invariant of the walk says that the
parts taken lie in the text one behind the other, and that no way to lay them
ends before `pos`: the first makes a match right, the second makes a failure
justified, since a part not found behind `pos` lies behind no other choice.

Three of the four properties that a run refutes (section 4) are proved where the
code does keep them, which says exactly how far each finding reaches:

* `ForeverPinsOutliveCrashes` - with a state file on a disk that works, a forever
  pin survives every step and every crash but one between truncating the file and
  writing it (`FileKeepsUp`: at any other time the file lacks no live pin but one
  just granted). `GrantsOutliveCrashes` says the same of every grant that does
  not lapse;
* `NobodyIsTurnedAway` - `HintTurnsNobodyAway` holds of replicated KDCs that have
  a list of pure KEMs and list a group the client takes, if they take groups;
* `DeclinesWithoutIdentity` - `NoIdentityNoState` holds of a context that is never
  used anonymously. In every context, what is left without an identity is an
  anonymous state, never one that signs as somebody (`OnlyAnonymousStateIsLeft`).

Recursive functions on lists are reasoned about one element at a time. The
theorem of induction cannot be applied here to a property given as an operator,
so `ListsProofs` proves a form of it about sets: a set of naturals that holds 0
and with each number its successor, up to n, holds 0..n (`UpwardInduction`, from
the least element that is missing).

Only model-checked is liveness under fairness (`ServerKeepsServing`,
`Ends`, and `Converges` as far as it rests on `Ends`), and
the refutation of the fourth property of section 4 (`PromptFailsClosed`), which
is one of liveness too: these are out of the prover's reach.

## 6. Assumptions and abstractions

What the ASSUMEs say, beyond the kinds of the constants:

* a prompt's deadline is shorter than every grant (`PresetsAssumption`);
* a realm's name stands for its KDC principal too (`KdcTrustAssumption`);
* messages have at most one content and one key, signers only in a SignedData,
  and the requests of this code's client are those it builds, in its own name or
  another spelling of the anonymous one (`RequestsAssumption`);
* a number of a profile is an integer, its lists are sequences of names, and its
  identity sources hold finitely many files (`ProfilesAssumption`);
* an encoded algorithm is a sequence of numbers, and the lists a KDC can be
  configured with fit, with their wrappers, into a length of four bytes
  (`HintAssumption`);
* a random session key is not a derived one (`TicketAssumption`); a byte has at
  least ten values, an even number of them, and a nonce a top bit
  (`WireAssumption`).

What the models assume of the world:

* The wall clock never steps back and never runs slower than the prompt's
  monotonic one; it may run ahead of it (a suspend, a clock set forward). One daemon uses a state file; a crash is the death
  of the process, not of the machine (what was written stays written).
* Base64, ASN.1 and varlink framing are perfect but for "decodes or not";
  signatures, hashes, KEMs and DH are perfect; two public keys of one algorithm
  differ when they were made for different requests.
* `KeyExchange` follows one exchange; `ClientPlugin` follows several and leaves
  the algorithms to it; `KdcRequest` follows the requests of one KDC and leaves
  retries to `KeyExchange`.
* The KDC core calls the module's callbacks in the documented order, and drops a
  request when one of them fails.
* One module instance serves a krb5 context (`init_module`); libkrb5 asks the
  responder anew in each round; asking and the responder itself do not fail.
* A failed call of the PKINIT module ends the PKINIT attempt; libkrb5 draws a new
  nonce for each AS-REQ.
* The KDC keeps nothing between requests (no cached keys, no replay state).

Not modelled, and why:

* the checksum branch of `verify_as_req` and `crypto/checksum.rs`: no caller
  hands the request body over, only tests do;
* the entry points of the certauth plugin in `kdc_plugin.rs` (one state for each
  realm, `authorize`): they share `verify_client_san` and the verdicts with
  `KdcRequest`, and keep no state of their own;
* the callers of `db_match`: the plugins have none, so `Matching` stands alone;
* splitting a matching rule into terms, and the text of prompts and listings;
* `set_dh_group()` called from outside the plugin;
* building certification paths, PKCS#12 and PKCS#11 themselves, and what the
  ASN.1 library generates: code of libraries;
* FFI, vtables, tracing, fixtures, build files: no protocol state;
* two daemons on one state file (`main.rs:182`) and a clock that steps back
  (`store.rs:115`): the code does not claim to handle either.

## 7. Plan

Done: `TrustBroker` and `Tofu` with the proof of the refinement; `KeyExchange`;
`TrustExport`; `ClientPlugin`; `KdcTrust`; the KDC with its pure modules;
`Matching`; the proofs of all their safety properties, and of how far each
refuted one holds.

Left, in the order in which it would add most:

1. Two daemons with one state file, as a composition of two `TrustBroker`s over
   one `disk`, once it is decided what the second one should do.
2. What identity a realm should use after another realm's profile was read
   (`profile.rs:126` speaks of the caller's only, which is `CallerTakesPrecedence`;
   `LeftOver` excepts the rest from `StandsAsideForPasswords`): a property of
   `ClientPlugin`, once the intent is stated.
3. The certauth entry points, if they come to keep state.
