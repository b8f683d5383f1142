--------------------------- MODULE MCZephyrBackend ---------------------------
(* Instances of ZephyrBackend for TLC. *)
EXTENDS ZephyrBackend, TLC

CONSTANTS app, disp

\* The application and the dispatcher, which leaves at the retry limit and starts the clock
\* synchronization of FUOTA.
JoinClient == (app :> {"join", "leave", "send", "nonce"}) @@ (disp :> {"leave"})
FeatureClient == (app :> {"join", "class", "adr", "rate"}) @@ (disp :> {})
FuotaClient == (app :> {"join"}) @@ (disp :> {"clock"})
AllClients == {JoinClient, FeatureClient, FuotaClient}
=============================================================================
