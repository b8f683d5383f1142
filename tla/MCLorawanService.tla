--------------------------- MODULE MCLorawanService ---------------------------
(* Instances of LorawanService for TLC: the threads and what each of them calls. *)
EXTENDS LorawanService, TLC

CONSTANTS t1, t2

\* One thread that makes every call.
Alone == t1 :> AllOps

\* One thread joins while the other, as the AT command thread does, stores credentials.
Pair == (t1 :> {"start"}) @@ (t2 :> {"set_cred"})

\* For the properties the code does not keep.
Stopping == t1 :> {"start", "stop", "leave"}
=============================================================================
