---------------------------- MODULE WebServerMC -----------------------------
(* An instance of WebServer for TLC. *)
EXTENDS WebServer, TLC

CONSTANTS w1, w2, c1, c2

TwoWorkers == {w1, w2}
TwoClients == {c1, c2}

\* c1 sends its request in two pieces and then something more, c2 nothing.
OneRequest == c1 :> 3 @@ c2 :> 0

EmptyOrTwo == {0, 2}
=============================================================================
