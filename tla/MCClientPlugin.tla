---------------------------- MODULE MCClientPlugin ----------------------------
(* A small instance of ClientPlugin for TLC. *)
EXTENDS ClientPlugin, TLC

CONSTANTS r1, r2, plain, locked, broken, good, bad

Identity == {{}, {plain}, {locked}}

\* The first realm has an anchor that loads and insists on a KEM.
First == [identity : Identity, anchors : {{good}}, parses : {TRUE},
          requireKem : {{TRUE}}]

\* The second has none, or one that does not load; it does not insist, or does not
\* say; or its section does not parse.
Second == [identity : Identity, anchors : {{}, {bad}}, parses : BOOLEAN,
           requireKem : {{}, {FALSE}}]

MCProfiles == {(r1 :> p) @@ (r2 :> q) : p \in First, q \in Second}
===============================================================================
