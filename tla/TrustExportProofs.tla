--------------------------- MODULE TrustExportProofs ---------------------------
(***************************************************************************)
(* Proofs about TrustExport for any realms, chains, callers and durations: *)
(* an export is a behaviour of the broker seen from outside, and what it   *)
(* makes permanent was granted.                                            *)
(***************************************************************************)
EXTENDS TrustExport, TrustBrokerProofs

Grant(p) == <<p.realm, p.ca>>

\* Every pin in memory, in the file or in the snapshot was once granted.
GrantedInv == \A p \in pins \cup disk \cup todo : Grant(p) \in granted

\* What the snippet is going to name has been written.
NamedInv == \A r \in named : files[r] # NoFile

\* The inductive invariant, on top of the broker's.
EInv ==
  /\ ExportTypeOK
  /\ GrantedInv
  /\ NamedInv
  /\ PermanentTrustWasGranted
  /\ SnippetNamesWrittenFiles
-------------------------------------------------------------------------------
(* The broker inside the export *)

\* Every step of an export is a step of the broker or none.
LEMMA ExportStep == [ExportNext]_exportVars => [Next]_vars
  BY DEF ExportNext, exportVars, Broker, Call, Snapshot, SkipRealm, WritePem,
         WriteSnippet

\* An export beside the broker shows the broker nothing new: whatever was
\* proved about the broker holds here too (main of pkinit-trust-ctl only reads).
THEOREM ExportRunsTheBroker == ExportSpec => Spec
  <1>1. ExportInit => Init
    BY DEF ExportInit
  <1>2. QED
    BY <1>1, ExportStep, PTL DEF ExportSpec, Spec
-------------------------------------------------------------------------------
(* Initial states and steps *)

LEMMA InitEInv == ExportInit => EInv
  BY ExportAssumption
     DEF ExportInit, Init, EInv, ExportTypeOK, GrantedInv, NamedInv, IsPinMap,
         PermanentTrustWasGranted, SnippetNamesWrittenFiles

\* What the broker grants while the export goes on is added to the history.
LEMMA BrokerEInv ==
  ASSUME EInv, TypeOK', Broker
  PROVE  EInv'
  <1>1. /\ Next /\ UNCHANGED <<todo, named, files, conf>>
        /\ ctl' \in {"off", "waiting", "writing"}
    BY DEF Broker, EInv, ExportTypeOK
  <1>2. pins' \in SUBSET Pin
    BY DEF TypeOK
  <1>3. granted \subseteq granted'
    BY DEF Broker
  <1>4. granted' \in SUBSET (Realms \X Certs)
    <2>1. \A p \in pins' : Grant(p) \in Realms \X Certs
      BY <1>2 DEF Grant, Pin
    <2>2. QED
      BY <2>1 DEF Broker, EInv, ExportTypeOK, Grant
  <1>5. GrantedInv'
    <2>1. ASSUME NEW p \in pins \cup disk \cup todo
          PROVE  Grant(p) \in granted'
      BY <1>3 DEF EInv, GrantedInv
    <2>2. ASSUME NEW p \in pins' \cup disk' \cup todo', p \notin pins \cup disk \cup todo
          PROVE  Grant(p) \in granted'
      <3>1. p \in pins' \ pins /\ Asking
        BY <1>1, <2>2, WherePinsComeFrom
      <3>2. QED
        BY <3>1 DEF Broker, Grant
    <2>3. QED
      BY <2>1, <2>2 DEF GrantedInv
  <1>6. PermanentTrustWasGranted'
    BY <1>1, <1>3 DEF EInv, PermanentTrustWasGranted
  <1>7. QED
    BY <1>1, <1>4, <1>5, <1>6
       DEF EInv, ExportTypeOK, NamedInv, SnippetNamesWrittenFiles, IsPinMap

LEMMA CallEInv == EInv /\ Call => EInv'
  BY DEF EInv, Call, vars, ExportTypeOK, GrantedInv, NamedInv, IsPinMap,
         PermanentTrustWasGranted, SnippetNamesWrittenFiles

\* The snapshot is of pins the broker holds.
LEMMA SnapshotEInv == EInv /\ TypeOK /\ Snapshot => EInv'
  BY DEF EInv, TypeOK, Snapshot, vars, TrustedRealms, LivePins, ExportTypeOK,
         GrantedInv, NamedInv, IsPinMap, PermanentTrustWasGranted,
         SnippetNamesWrittenFiles

\* Pins that are left over are pins of the snapshot.
LEMMA FewerPins ==
  ASSUME EInv, NEW p \in todo
  PROVE  /\ todo \ {p} \in SUBSET Pin /\ IsPinMap(todo \ {p})
         /\ p.realm \in Realms /\ p.ca \in Certs
         /\ Grant(p) \in granted
  BY DEF EInv, ExportTypeOK, GrantedInv, IsPinMap, Pin

LEMMA SkipRealmEInv == ASSUME EInv, NEW p \in todo, SkipRealm(p) PROVE EInv'
  <1>1. /\ todo' \in SUBSET Pin /\ IsPinMap(todo')
        /\ UNCHANGED <<vars, ctl, named, files, conf, granted>>
        /\ todo' \subseteq todo
    BY FewerPins DEF SkipRealm
  <1>2. ExportTypeOK'
    BY <1>1 DEF EInv, ExportTypeOK, IsPinMap
  <1>3. QED
    BY <1>1, <1>2 DEF EInv, vars, GrantedInv, NamedInv,
       PermanentTrustWasGranted, SnippetNamesWrittenFiles

\* A file that is written belongs to the realm of its pin, whose grant is known;
\* a torn one still exists.
LEMMA WritePemEInv == ASSUME EInv, NEW p \in todo, WritePem(p) PROVE EInv'
  <1> USE ExportAssumption
  <1>1. /\ UNCHANGED <<vars, conf, granted>>
        /\ todo \ {p} \in SUBSET Pin /\ IsPinMap(todo \ {p})
        /\ p.ca \in Certs /\ <<p.realm, p.ca>> \in granted
        /\ files \in [SafeRealms -> Certs \cup {NoFile, Torn}]
    BY FewerPins DEF WritePem, Grant, EInv, ExportTypeOK
  <1>2. PICK f \in FileOf(p.realm) :
          \/ /\ files' = [files EXCEPT ![f] = p.ca]
             /\ todo' = todo \ {p} /\ named' = named \cup {f}
             /\ UNCHANGED ctl
          \/ /\ \E left \in Interrupted(files[f]) :
                  files' = [files EXCEPT ![f] = left]
             /\ Stop
    BY DEF WritePem
  <1>3. f = p.realm /\ f \in SafeRealms
    BY DEF FileOf
  <1>4. CASE /\ files' = [files EXCEPT ![f] = p.ca]
             /\ todo' = todo \ {p} /\ named' = named \cup {f}
             /\ UNCHANGED ctl
    <2>1. ExportTypeOK'
      BY <1>1, <1>3, <1>4 DEF EInv, ExportTypeOK, vars, IsPinMap
    <2>2. GrantedInv'
      BY <1>1, <1>4 DEF EInv, GrantedInv, vars, Grant
    <2>3. \A r \in SafeRealms : files'[r] = IF r = f THEN p.ca ELSE files[r]
      BY <1>1, <1>4
    <2>4. NamedInv' /\ SnippetNamesWrittenFiles'
      BY <1>1, <1>3, <1>4, <2>3
         DEF EInv, ExportTypeOK, NamedInv, SnippetNamesWrittenFiles
    <2>5. PermanentTrustWasGranted'
      BY <1>1, <1>3, <2>3 DEF EInv, PermanentTrustWasGranted
    <2>6. QED
      BY <2>1, <2>2, <2>4, <2>5 DEF EInv
  <1>5. CASE /\ \E left \in Interrupted(files[f]) :
                  files' = [files EXCEPT ![f] = left]
             /\ Stop
    <2>1. /\ ctl' = "off" /\ todo' = {} /\ named' = {}
      BY <1>5 DEF Stop
    <2>2. PICK left \in {files[f], Torn} : files' = [files EXCEPT ![f] = left]
      BY <1>5 DEF Interrupted
    <2>3. \A r \in SafeRealms : files'[r] = IF r = f THEN left ELSE files[r]
      BY <1>1, <2>2
    <2>4. files' \in [SafeRealms -> Certs \cup {NoFile, Torn}]
      BY <1>1, <1>3, <2>2
    <2>5. ExportTypeOK' /\ GrantedInv' /\ NamedInv'
      BY <1>1, <2>1, <2>4
         DEF EInv, ExportTypeOK, GrantedInv, NamedInv, vars, IsPinMap
    <2>6. SnippetNamesWrittenFiles'
      BY <1>1, <1>3, <2>2, <2>3 DEF EInv, ExportTypeOK, SnippetNamesWrittenFiles
    <2>7. PermanentTrustWasGranted'
      BY <1>1, <1>3, <2>2, <2>3 DEF EInv, PermanentTrustWasGranted
    <2>8. QED
      BY <2>5, <2>6, <2>7 DEF EInv
  <1>6. QED
    BY <1>2, <1>4, <1>5

\* The snippet declares at most what was named, or stays as it was.
LEMMA WriteSnippetEInv == ASSUME EInv, WriteSnippet PROVE EInv'
  <1>1. /\ UNCHANGED <<vars, files, granted>>
        /\ ctl' = "off" /\ todo' = {} /\ named' = {}
        /\ conf' \subseteq named \/ conf' = conf
    BY DEF WriteSnippet, Stop
  <1>2. ExportTypeOK' /\ GrantedInv' /\ NamedInv'
    BY <1>1 DEF EInv, ExportTypeOK, GrantedInv, NamedInv, vars, IsPinMap
  <1>3. SnippetNamesWrittenFiles' /\ PermanentTrustWasGranted'
    BY <1>1 DEF EInv, NamedInv, SnippetNamesWrittenFiles, PermanentTrustWasGranted
  <1>4. QED
    BY <1>2, <1>3 DEF EInv

LEMMA StutterEInv == EInv /\ UNCHANGED exportVars => EInv'
  BY DEF EInv, exportVars, ctlVars, vars, ExportTypeOK, GrantedInv, NamedInv,
         IsPinMap, PermanentTrustWasGranted, SnippetNamesWrittenFiles

LEMMA NextEInv == EInv /\ TypeOK /\ TypeOK' /\ [ExportNext]_exportVars => EInv'
  BY BrokerEInv, CallEInv, SnapshotEInv, SkipRealmEInv, WritePemEInv,
     WriteSnippetEInv, StutterEInv DEF ExportNext
-------------------------------------------------------------------------------
(* Theorems *)

\* The invariant of the export holds in every behaviour of export and broker.
THEOREM ExportInvariance == ExportSpec => []EInv
  <1>1. ExportSpec => []TypeOK
    BY ExportRunsTheBroker, TypeCorrectness, PTL
  <1>2. QED
    BY <1>1, InitEInv, NextEInv, PTL DEF ExportSpec

\* Export keeps its variables in shape, whatever broker and crashes do.
THEOREM ExportTypeCorrectness == ExportSpec => []ExportTypeOK
  <1>1. EInv => ExportTypeOK
    BY DEF EInv
  <1>2. QED
    BY <1>1, ExportInvariance, PTL

\* What export makes permanent for a realm a user has granted for that realm.
THEOREM PermanentTrust == ExportSpec => []PermanentTrustWasGranted
  <1>1. EInv => PermanentTrustWasGranted
    BY DEF EInv
  <1>2. QED
    BY <1>1, ExportInvariance, PTL

\* A snippet never declares a realm whose certificate was never written.
THEOREM SnippetIsBacked == ExportSpec => []SnippetNamesWrittenFiles
  <1>1. EInv => SnippetNamesWrittenFiles
    BY DEF EInv
  <1>2. QED
    BY <1>1, ExportInvariance, PTL
===============================================================================
