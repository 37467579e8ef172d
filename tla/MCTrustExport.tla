---------------------------- MODULE MCTrustExport -----------------------------
(* A small instance of TrustExport for TLC. *)
EXTENDS TrustExport

CONSTANTS kdc, caA, caB

chainA == [signer |-> kdc, presented |-> <<kdc, caA>>, valid |-> {caA},
           decodes |-> TRUE]
chainB == [signer |-> kdc, presented |-> <<kdc, caB>>, valid |-> {caB},
           decodes |-> TRUE]

MCCerts == {kdc, caA, caB}
MCChains == {chainA, chainB}
===============================================================================
