------------------------------ MODULE MCKdcTrust -------------------------------
(* A small instance of KdcTrust: two callers, one of them a PKINIT client. *)
EXTENDS KdcTrust

CONSTANTS r1, kdc, kdcX, inter, caA, caB

\* An anchored chain, two CAs for the user to decide about, a signer alone, a
\* KDC certificate that is a web server's and names another realm, and a
\* garbled request.
anchored == [signer |-> kdc, presented |-> <<kdc>>, valid |-> {}, decodes |-> TRUE]
chainA == [signer |-> kdc, presented |-> <<kdc, caA>>, valid |-> {kdc, caA},
           decodes |-> TRUE]
chainB == [signer |-> kdc, presented |-> <<inter, caB, kdc>>,
           valid |-> {inter, caB, kdc}, decodes |-> TRUE]
misnamed == [signer |-> kdcX, presented |-> <<kdcX, caA>>, valid |-> {caA},
             decodes |-> TRUE]
garbled == [signer |-> kdc, presented |-> <<>>, valid |-> {}, decodes |-> FALSE]

MCCerts == {kdc, kdcX, inter, caA, caB}
MCChains == {anchored, chainA, chainB, misnamed, garbled}
MCNames == {r1}
MCFolded == [n \in MCNames |-> n]

\* Logins, anonymous exchanges, and one that does not know its KDC.
MCChecks ==
  {[chain |-> anchored, kdc |-> {r1}, anonymous |-> FALSE],
   [chain |-> chainA, kdc |-> {r1}, anonymous |-> TRUE],
   [chain |-> chainA, kdc |-> {}, anonymous |-> TRUE],
   [chain |-> chainB, kdc |-> {r1}, anonymous |-> FALSE],
   [chain |-> misnamed, kdc |-> {r1}, anonymous |-> TRUE]}

MCAnchored == {anchored}

kdcCert == [pkinit |-> {r1}, upn |-> {}, dns |-> {}, ekus |-> {"KPKdc"},
            usage |-> {"digitalSignature"}, broken |-> {}]
MCLeaf == [ch \in MCChains |->
             IF ch = misnamed THEN [kdcCert EXCEPT !.pkinit = {}] ELSE kdcCert]
===============================================================================
