-------------------------------- MODULE Profile --------------------------------
(***************************************************************************)
(* From krb5.conf to a configuration (profile.rs, the defaults of          *)
(* config.rs).  A profile has two sections, the defaults and the realm's;  *)
(* each maps the relations it sets to their values.  A value a getter      *)
(* cannot convert counts as absent, so it is left out of the section.      *)
(***************************************************************************)
EXTENDS Lists, Integers, SequencesExt

CONSTANT U32   \* 2^32, scaled

ASSUME ProfileAssumption == U32 \in Nat

\* The KEMs, by strength; composites have their own list.
PureKems == {"mlkem512", "mlkem768", "mlkem1024"}
CompositeKems == {"mlkem768-x25519", "mlkem768-p256", "mlkem1024-p384"}
Strength == [k \in PureKems \cup CompositeKems |->
               CASE k = "mlkem512" -> 1
                 [] k \in {"mlkem1024", "mlkem1024-p384"} -> 5
                 [] OTHER -> 3]

StrongestFirst == <<"mlkem1024", "mlkem768", "mlkem512">>

\* algorithms_at_or_above: pure ones only.
AtOrAbove(kem) == {k \in PureKems : Strength[k] >= Strength[kem]}

\* Lookup: the realm's relation, else the defaults', else none.
Lookup(profile, key) ==
  IF key \in DOMAIN profile.realm THEN {profile.realm[key]}
  ELSE IF key \in DOMAIN profile.defaults THEN {profile.defaults[key]}
  ELSE {}

\* ... else what the configuration already holds.
Get(profile, key, current) ==
  LET found == Lookup(profile, key) IN
  IF found = {} THEN current ELSE CHOOSE v \in found : TRUE

\* `as u32` of an i32.
AsU32(n) == IF n < 0 THEN n + U32 ELSE n

\* apply_eku_checking: <<require_eku, accept_secondary_eku>>; a word it does
\* not know changes nothing.
EkuChecking(profile, current) ==
  LET word == Lookup(profile, "pkinit_eku_checking") IN
  IF word = {"kpClientAuth"} THEN <<TRUE, FALSE>>
  ELSE IF word = {"scLogin"} THEN <<TRUE, TRUE>>
  ELSE IF word = {"none"} THEN <<FALSE, FALSE>>
  ELSE current

\* Slip: the thresholds are exclusive.
DhGroupFromMinBits_Exclusive(bits) ==
  IF bits < 256 THEN "P-256" ELSE IF bits < 2048 THEN "oakley2048"
  ELSE "oakley4096"

\* dh_group_from_min_bits: the group a client starts with.
DhGroupFromMinBits(bits) ==
  IF bits <= 256 THEN "P-256" ELSE IF bits <= 2048 THEN "oakley2048"
  ELSE "oakley4096"

\* DhGroup::min_bits, for the groups in the order the KDC offers them in.
GroupOrder == <<"P-521", "P-384", "P-256", "oakley4096", "oakley2048">>
GroupBits == <<521, 384, 256, 4096, 2048>>
Curves == {"P-521", "P-384", "P-256"}
Groups == ToSet(GroupOrder)

\* validate_dh_params: curves are not measured by the minimum for MODP groups.
GroupsAt(minBits) ==
  Curves \cup {GroupOrder[i] : i \in {j \in DOMAIN GroupOrder : GroupBits[j] >= minBits}}

\* ... but they are where the KDC lists what it accepts.
GroupsListed(minBits) ==
  Chosen(GroupOrder,
         {GroupOrder[i] : i \in {j \in DOMAIN GroupOrder : GroupBits[j] >= minBits}})

\* A KEM name nobody knows stops the module, it is not skipped.
BadKemNames(profile) ==
  \/ \E k \in Lookup(profile, "pkinit_pqc_min_algorithm") :
       k \notin PureKems \cup CompositeKems
  \/ \E ks \in Lookup(profile, "pkinit_pqc_composite_algorithms") :
       ~(ToSet(ks) \subseteq CompositeKems)

\* What accepts_kem takes: any pure KEM without a floor.
KdcKems(profile) ==
  LET floor == Lookup(profile, "pkinit_pqc_min_algorithm") IN
  (IF floor = {} THEN PureKems ELSE UNION {AtOrAbove(k) : k \in floor})
    \cup UNION {ToSet(ks) : ks \in Lookup(profile, "pkinit_pqc_composite_algorithms")}

\* acceptable_key_establishment_alg_ids: a list of KEMs nobody configured is
\* only written out where there is nothing else; the strongest come first, and
\* composites in the order of the profile.
Listed(profile, minBits) ==
  LET floor == Lookup(profile, "pkinit_pqc_min_algorithm")
      composites == Get(profile, "pkinit_pqc_composite_algorithms", <<>>)
      requireKem == Get(profile, "pkinit_require_kem", FALSE)
      pure == IF floor = {} /\ requireKem /\ composites = <<>> THEN PureKems
              ELSE UNION {AtOrAbove(k) : k \in floor} IN
  Chosen(StrongestFirst, pure) \o composites
    \o (IF requireKem THEN <<>> ELSE GroupsListed(minBits))

\* read_kdc_config, where the names are good, and PkinitKdcState::new.
KdcConfig(profile) ==
  LET eku == EkuChecking(profile, <<TRUE, FALSE>>)
      minBits == AsU32(Get(profile, "pkinit_dh_min_bits", 2048)) IN
  [identity |-> Lookup(profile, "pkinit_identity"),
   anchors |-> Get(profile, "pkinit_anchors", <<>>),
   pool |-> Get(profile, "pkinit_pool", <<>>),
   crls |-> Get(profile, "pkinit_revoke", <<>>),
   requireCrl |-> Get(profile, "pkinit_require_crl_checking", FALSE),
   requireEku |-> eku[1], secondaryEku |-> eku[2],
   freshness |-> Get(profile, "pkinit_require_freshness_token", FALSE),
   allowUpn |-> Get(profile, "pkinit_allow_upn", FALSE),
   indicators |-> Get(profile, "pkinit_indicator", {}),
   requireKem |-> Get(profile, "pkinit_require_kem", FALSE),
   kems |-> KdcKems(profile),
   listed |-> Listed(profile, minBits),
   groups |-> GroupsAt(minBits)]
===============================================================================
