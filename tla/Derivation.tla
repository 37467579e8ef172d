------------------------------ MODULE Derivation -------------------------------
(***************************************************************************)
(* Reply keys (crypto/kdf.rs, o2k.rs): which KDF, over which inputs, and   *)
(* what is left of a secret when there is none.                            *)
(*                                                                         *)
(* A hash is perfect: its output is the record of its inputs, so two keys  *)
(* are equal only if everything that went in is.  random_to_key is a       *)
(* function of the seed and appears as the seed itself.                    *)
(***************************************************************************)
EXTENDS Integers, SequencesExt

CONSTANTS
  SeedLength,   \* krb5_c_keylengths: the seed bytes of each enctype
  Anonymous     \* the names WELLKNOWN/ANONYMOUS has, one for each realm

\* constants.rs: the KDC's order of preference.
KdfPreference == <<"sha256", "sha1", "sha512">>

\* pick_kdf_alg: the KDC's order decides, not the client's; none in common
\* means the derivation without a KDF.
PickKdf(kdfs) ==
  LET i == SelectInSeq(KdfPreference, LAMBDA k : k \in kdfs) IN
  IF i = 0 THEN {} ELSE {KdfPreference[i]}

\* Slip: the principal goes in as the request spells it.
PartyInfo_Verbatim(name) == <<name>>

\* encode_principal_for_kdf: one name for the anonymous principal of every
\* realm.
PartyInfo(name) == IF name \in Anonymous THEN <<"anonymous">> ELSE <<name>>

\* pkinit_kdf: SSKDF over OtherInfo.
PkinitKdf(kdf, secret, enctype, client, server, asReq, paRep) ==
  [enctype |-> enctype, kdf |-> kdf, secret |-> secret,
   info |-> <<PartyInfo(client), PartyInfo(server), asReq, paRep>>]

\* pkinit_kem_kdf: HKDF-SHA-512 over PkinitKEMSuppPubInfo.
PkinitKemKdf(secret, enctype, asReq, kemSignedData) ==
  [enctype |-> enctype, kdf |-> "hkdf-sha512", secret |-> secret,
   info |-> <<asReq, kemSignedData>>]

\* octetstring2key: the front of the secret, filled up with zeros.
OctetString2Key(secret, enctype) ==
  [enctype |-> enctype, kdf |-> "none", info |-> <<>>,
   secret |-> [i \in 1..SeedLength[enctype] |->
                 IF i <= Len(secret) THEN secret[i] ELSE "0"]]

\* Both sides of a DH exchange: the secret, with both nonces behind it where
\* no KDF was agreed on.
DhReplyKey(kdf, secret, cNonce, sNonce, enctype, client, server, asReq, paRep) ==
  IF kdf = {} THEN OctetString2Key(secret \o cNonce \o sNonce, enctype)
  ELSE PkinitKdf(CHOOSE k \in kdf : TRUE, secret, enctype, client, server,
                 asReq, paRep)
===============================================================================
