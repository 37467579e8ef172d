--------------------------------- MODULE Tofu ---------------------------------
(***************************************************************************)
(* What trust-on-first-use promises, without a daemon, a file or a prompt  *)
(* (README.md "KDC CA trust-on-first-use", the decision table of           *)
(* PinStore::decide).                                                      *)
(*                                                                         *)
(*   - a realm trusts at most the CA somebody consented to, until the      *)
(*     grant lapses;                                                       *)
(*   - consent is asked only for an interactive call, and only about a     *)
(*     realm that trusts nothing at that moment;                           *)
(*   - a call is told "Trusted" only with the CA its realm trusts at the   *)
(*     moment of the verdict, and only if the call presented that CA;      *)
(*   - trust may be forgotten (a crash), it is never replaced or invented. *)
(***************************************************************************)
EXTENDS Naturals

CONSTANTS
  Realms,      \* Kerberos realms
  Certs,       \* certificates
  Conns,       \* calls that may be open at once
  Ttls,        \* durations a grant may be given, Forever aside
  Forever,     \* the grant that does not lapse
  NoCall       \* the request of a call that is not open

VARIABLES
  now,         \* wall clock
  trusted,     \* live grants: records [realm, ca, until]
  asked,       \* asked[c]: the request call c is about, or NoCall
  verdict      \* verdict[c]: what was decided for call c, or {} while open

tofuVars == <<now, trusted, asked, verdict>>

\* A call: the realm, the CA it presents (a set of at most one certificate)
\* and whether a human may be asked about it.
Question == [realm : Realms, offer : SUBSET Certs, interactive : BOOLEAN]

\* A verdict is a set of at most one answer; Trusted carries the one anchor.
Answer(decision, anchors) == {[decision |-> decision, anchors |-> anchors]}
Refusals == {Answer(d, {}) : d \in {"Denied", "Unknown", "InvalidRequest"}}

Lasts(grant, t) == grant.until = Forever \/ t < grant.until
Until(t) == {Forever} \cup {t + d : d \in Ttls}

Open(c) == asked[c] # NoCall /\ verdict[c] = {}

-------------------------------------------------------------------------------
TofuInit ==
  /\ now = 0
  /\ trusted = {}
  /\ asked = [c \in Conns |-> NoCall]
  /\ verdict = [c \in Conns |-> {}]

\* Time passes and takes the lapsed grants with it.
Elapse ==
  /\ now' = now + 1
  /\ trusted' = {g \in trusted : Lasts(g, now + 1)}
  /\ UNCHANGED <<asked, verdict>>

Ask(c) ==
  /\ asked[c] = NoCall
  /\ \E question \in Question : asked' = [asked EXCEPT ![c] = question]
  /\ verdict' = [verdict EXCEPT ![c] = {}]
  /\ UNCHANGED <<now, trusted>>

\* The realm already trusts the very CA that was presented.
Agree(c) ==
  /\ Open(c)
  /\ \E g \in trusted :
       /\ g.realm = asked[c].realm
       /\ g.ca \in asked[c].offer
       /\ verdict' = [verdict EXCEPT ![c] = Answer("Trusted", {g.ca})]
  /\ UNCHANGED <<now, trusted, asked>>

\* The user consents: the first grant of a realm that has none. A user may
\* answer so late that the grant, dated from the question, has lapsed: it then
\* joins nothing, and the verdict stands all the same.
Consent(c) ==
  /\ Open(c)
  /\ asked[c].interactive
  /\ \A g \in trusted : g.realm # asked[c].realm
  /\ \E ca \in asked[c].offer, t \in 0..now : \E until \in Until(t) :
       LET grant == [realm |-> asked[c].realm, ca |-> ca, until |-> until]
       IN  /\ trusted' = trusted \cup {g \in {grant} : Lasts(g, now)}
           /\ verdict' = [verdict EXCEPT ![c] = Answer("Trusted", {ca})]
  /\ UNCHANGED <<now, asked>>

Refuse(c) ==
  /\ Open(c)
  /\ \E refusal \in Refusals : verdict' = [verdict EXCEPT ![c] = refusal]
  /\ UNCHANGED <<now, trusted, asked>>

\* Calls end, answered or abandoned; an answered one may keep its verdict.
\* Trust may be lost with them, as in a crash.
End ==
  /\ \E ended \in SUBSET Conns :
       /\ asked' = [c \in Conns |-> IF c \in ended THEN NoCall ELSE asked[c]]
       /\ \E cleared \in SUBSET ended :
            verdict' = [c \in Conns |-> IF c \in cleared THEN {}
                                       ELSE verdict[c]]
  /\ trusted' \in SUBSET trusted
  /\ UNCHANGED now

TofuNext ==
  \/ Elapse
  \/ End
  \/ \E c \in Conns :
       \/ Ask(c)
       \/ Agree(c)
       \/ Consent(c)
       \/ Refuse(c)

TofuSpec == TofuInit /\ [][TofuNext]_tofuVars
===============================================================================
