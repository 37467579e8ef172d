---------------------------- MODULE MCTrustBroker -----------------------------
(* Small instances of TrustBroker for TLC. *)
EXTENDS TrustBroker

CONSTANTS kdc, inter, caA, caB

\* A self-contained set of chains: two CAs, one of them behind an intermediate
\* that would do as an anchor too, and a signer alone.
chainA == [signer |-> kdc, presented |-> <<kdc, caA>>, valid |-> {kdc, caA},
           decodes |-> TRUE]
chainB == [signer |-> kdc, presented |-> <<kdc, inter, caB>>,
           valid |-> {inter, caB}, decodes |-> TRUE]
leafOnly == [signer |-> kdc, presented |-> <<kdc>>, valid |-> {kdc},
             decodes |-> TRUE]

MCCerts == {kdc, inter, caA, caB}
MCTwoChains == {chainA, chainB}
MCThreeChains == {chainA, chainB, leafOnly}
===============================================================================
