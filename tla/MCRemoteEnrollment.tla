--------------------------- MODULE MCRemoteEnrollment ---------------------------
(***************************************************************************)
(* Instance of RemoteEnrollment: host h1 is published through nginx, an    *)
(* operator may move the control name to h2, which the transaction here    *)
(* does not publish (its provider is another one).                         *)
(***************************************************************************)
EXTENDS RemoteEnrollment, TLC

CONSTANTS h1, h2, c1, c2

Intents == {[host |-> h1, provider |-> "nginx"], [host |-> h2, provider |-> "caddy"]}
Clients == {c1, c2}
Symmetry == Permutations(Clients)
================================================================================
