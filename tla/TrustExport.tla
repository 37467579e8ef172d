----------------------------- MODULE TrustExport ------------------------------
(***************************************************************************)
(* pkinit-trust-ctl export beside a running trust broker.                  *)
(*                                                                         *)
(* One call of ListTrustedRealms takes a snapshot of the live pins; the    *)
(* broker may then lapse, replace or lose them, and stop, while export     *)
(* writes one PEM file after the other and the snippet that names them     *)
(* last.  export may fail or be killed at any write, and be run again over *)
(* what earlier runs left.                                                 *)
(***************************************************************************)
EXTENDS TrustBroker

CONSTANTS
  SafeRealms,  \* the realms whose name safe_filename() accepts
  NoFile,      \* the file does not exist
  Torn         \* the file was truncated and not, or not wholly, written

ASSUME ExportAssumption ==
  /\ SafeRealms \subseteq Realms
  /\ NoFile \notin Certs /\ Torn \notin Certs /\ NoFile # Torn

VARIABLES
  ctl,      \* off, waiting (for the broker), writing
  todo,     \* pins of the snapshot that export has not come to
  named,    \* realms in the snippet so far
  files,    \* DIR/<realm>.pem
  conf,     \* realms the --conf-snippet file declares
  granted   \* history: what users have ever approved

ctlVars == <<ctl, todo, named, files, conf>>
exportVars == <<vars, ctlVars, granted>>

\* PinStore::trusted_realms()
TrustedRealms(ps, t) == LivePins(ps, t)

\* Slip: a name that is not safe is made so, and may meet another realm's.
FileOf_Sanitized(realm) ==
  IF realm \in SafeRealms THEN {realm} ELSE {CHOOSE r \in SafeRealms : TRUE}

\* safe_filename(): the file of a realm, or none.
FileOf(realm) == {realm} \cap SafeRealms

\* What std::fs::write may leave when it fails or its process is killed.
Interrupted(old) == {old, Torn}
-------------------------------------------------------------------------------
ExportInit ==
  /\ Init
  /\ ctl = "off" /\ todo = {} /\ named = {}
  /\ files = [r \in SafeRealms |-> NoFile]
  /\ conf = {}
  /\ granted = {}

\* The broker goes on by itself.  A call it was to serve may die with it.
Broker ==
  /\ Next
  /\ granted' = IF Asking
                THEN granted \cup {<<p.realm, p.ca>> : p \in pins' \ pins}
                ELSE granted
  /\ \/ UNCHANGED ctl
     \/ ctl = "waiting" /\ phase # "down" /\ phase' = "down" /\ ctl' = "off"
  /\ UNCHANGED <<todo, named, files, conf>>

\* main() of pkinit-trust-ctl: connect and call.  There is no timer.
Call ==
  /\ ctl = "off"
  /\ ctl' = "waiting"
  /\ UNCHANGED <<vars, todo, named, files, conf, granted>>

\* ListTrustedRealms is served between two requests, as the server has one hand.
Snapshot ==
  /\ ctl = "waiting" /\ phase = "idle"
  /\ ctl' = "writing"
  /\ todo' = TrustedRealms(pins, now) /\ named' = {}
  /\ UNCHANGED <<vars, files, conf, granted>>

Stop == ctl' = "off" /\ todo' = {} /\ named' = {}

\* Slip: the realm is skipped after the snippet has named it.
SkipRealm_Named(p) ==
  /\ ctl = "writing" /\ p \in todo
  /\ FileOf(p.realm) = {}
  /\ todo' = todo \ {p} /\ named' = named \cup {p.realm}
  /\ UNCHANGED <<vars, ctl, files, conf, granted>>

\* The `for` of export(): realms come in the order of a HashMap.
SkipRealm(p) ==
  /\ ctl = "writing" /\ p \in todo
  /\ FileOf(p.realm) = {}
  /\ todo' = todo \ {p}
  /\ UNCHANGED <<vars, ctl, named, files, conf, granted>>

WritePem(p) ==
  /\ ctl = "writing" /\ p \in todo
  /\ \E f \in FileOf(p.realm) :
       \/ /\ files' = [files EXCEPT ![f] = p.ca]
          /\ todo' = todo \ {p} /\ named' = named \cup {f}
          /\ UNCHANGED ctl
       \/ /\ \E left \in Interrupted(files[f]) : files' = [files EXCEPT ![f] = left]
          /\ Stop
  /\ UNCHANGED <<vars, conf, granted>>

\* Slip: the snippet file is written before the certificates.
WriteSnippet_First ==
  /\ ctl = "writing"
  /\ conf' = named \cup UNION {FileOf(p.realm) : p \in todo}
  /\ UNCHANGED <<vars, ctl, todo, named, files, granted>>

\* With --conf-snippet the snippet replaces the file of an earlier export, and
\* when interrupted leaves a part of itself; without, it is printed.
WriteSnippet ==
  /\ ctl = "writing" /\ todo = {}
  /\ conf' \in (SUBSET named) \cup {conf}
  /\ Stop
  /\ UNCHANGED <<vars, files, granted>>

ExportNext ==
  \/ Broker
  \/ Call
  \/ Snapshot
  \/ \E p \in todo : SkipRealm(p) \/ WritePem(p)
  \/ WriteSnippet

ExportSpec == ExportInit /\ [][ExportNext]_exportVars
-------------------------------------------------------------------------------
(* Properties *)

\* Shape of the export's variables.
ExportTypeOK ==
  /\ ctl \in {"off", "waiting", "writing"}
  /\ todo \in SUBSET Pin /\ IsPinMap(todo)
  /\ named \subseteq SafeRealms
  /\ files \in [SafeRealms -> Certs \cup {NoFile, Torn}]
  /\ conf \subseteq SafeRealms
  /\ granted \in SUBSET (Realms \X Certs)

\* Whatever export finds, writes and leaves behind, over crashes of the broker
\* and of its own: a certificate in a realm's file is one that a user approved
\* for that very realm (export, safe_filename, trusted_realms, decide).
PermanentTrustWasGranted ==
  \A r \in SafeRealms : files[r] \in Certs => <<r, files[r]>> \in granted

\* The snippet in force never declares a realm whose certificate was never
\* written, though a file may be torn by a later export (export, main).
SnippetNamesWrittenFiles == \A r \in conf : files[r] # NoFile
===============================================================================
