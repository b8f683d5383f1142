------------------------------ MODULE PmLedger ------------------------------
(***************************************************************************)
(* What the power service promises (include/rzi/power/power.h): every      *)
(* reference a client takes holds one native all-state PM lock until that  *)
(* client releases it, and the runtime switch holds one more while it is   *)
(* off.  Nobody releases a reference that it does not hold.                *)
(***************************************************************************)
EXTENDS Integers

CONSTANTS Clients, Locks

VARIABLES
    refs,       \* refs[c][l]: references on lock l that client c holds
    off,        \* the runtime switch is off
    native      \* native all-state PM locks RZI holds

ledger == <<refs, off, native>>

Init ==
    /\ refs = [c \in Clients |-> [l \in Locks |-> 0]]
    /\ off = FALSE
    /\ native = 0

Take(c, l) ==
    /\ refs' = [refs EXCEPT ![c][l] = @ + 1]
    /\ native' = native + 1
    /\ UNCHANGED off

Release(c, l) ==
    /\ refs[c][l] > 0
    /\ refs' = [refs EXCEPT ![c][l] = @ - 1]
    /\ native' = native - 1
    /\ UNCHANGED off

Switch ==
    /\ off' = ~off
    /\ native' = IF off THEN native - 1 ELSE native + 1
    /\ UNCHANGED refs

Next == Switch \/ \E c \in Clients, l \in Locks : Take(c, l) \/ Release(c, l)

Spec == Init /\ [][Next]_ledger
=============================================================================
