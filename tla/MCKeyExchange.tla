---------------------------- MODULE MCKeyExchange -----------------------------
(* Small instances of KeyExchange for TLC. *)
EXTENDS KeyExchange, TLC

CONSTANTS k768, k1024, x768, p256, modp2, modp4, unheard

MCKems == {k768, k1024, x768}
MCComposites == {x768}
MCPureLadder == <<k1024, k768>>
MCStrength == (k768 :> 3) @@ (k1024 :> 5) @@ (x768 :> 3)
MCGroups == {p256, modp2, modp4}
MCCurves == {p256}
MCGroupOrder == <<p256, modp4, modp2>>
MCBits == (p256 :> 256) @@ (modp2 :> 2048) @@ (modp4 :> 4096)

\* read_client_config derives the group from the minimum (dh_group_from_min_bits).
MCClientConfigs ==
  {[kem |-> k, requireKem |-> r, group |-> g, pqCert |-> q, minBits |-> MCBits[g]] :
     k \in {NoAlg, k768, k1024}, r \in BOOLEAN, g \in MCGroups, q \in BOOLEAN}
MCFewClientConfigs == {c \in MCClientConfigs : c.group \in {modp2, modp4}}

\* pkinit_pqc_min_algorithm gives the pure list: none, or a floor and above.
MCKdcPolicies ==
  {[pure |-> p, composites |-> c, requireKem |-> r, minBits |-> b,
    verifies |-> TRUE, authorizes |-> TRUE, trusted |-> TRUE, pqSigner |-> TRUE] :
     p \in {{}, {k1024}, {k768, k1024}}, c \in {<<>>, <<x768>>},
     r \in BOOLEAN, b \in {256, 2048, 4096}}

\* The same KDC with a flaw in how it and the client stand to each other.
MCKdcConfigs ==
  LET base == [pure |-> {k1024}, composites |-> <<x768>>, requireKem |-> FALSE,
               minBits |-> 2048, verifies |-> TRUE, authorizes |-> TRUE,
               trusted |-> TRUE, pqSigner |-> TRUE]
  IN  {base, [base EXCEPT !.requireKem = TRUE],
       [base EXCEPT !.pure = {}, !.composites = <<>>],
       [base EXCEPT !.verifies = FALSE], [base EXCEPT !.authorizes = FALSE],
       [base EXCEPT !.trusted = FALSE], [base EXCEPT !.pqSigner = FALSE]}

\* Every single algorithm, one nobody knows, and a list in an unusual order.
MCForeignLists ==
  {<<a>> : a \in MCKems \cup {modp2, unheard}} \cup {<<unheard, p256, k768>>}
===============================================================================
