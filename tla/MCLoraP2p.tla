------------------------------ MODULE MCLoraP2p ------------------------------
(* Instances of LoraP2p for TLC: the threads and what each of them calls. *)
EXTENDS LoraP2p, TLC

CONSTANTS t1, t2

\* A client that makes every call and polls, and one that sends and stops beside it.
Clients == (t1 :> AllOps) @@ (t2 :> {"send", "stop"})

\* For the properties the code does not keep: two equal clients.
Equals == [t \in {t1, t2} |-> AllOps \ {"test", "test_rx"}]
=============================================================================
