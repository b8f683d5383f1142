----------------------------- MODULE Multicast -----------------------------
(***************************************************************************)
(* The multicast sessions of the USP backend (lorawan_multicast.c and      *)
(* lorawan_backend_usp_multicast.c): a table of groups beside the sessions *)
(* the modem runs.  Every call of the modem may fail and then changes      *)
(* nothing.                                                                *)
(***************************************************************************)
EXTENDS LorawanCall

CONSTANTS
    Addrs,          \* multicast addresses
    McGroups        \* MULTICAST_GROUPS group indexes

McClasses == {"B", "C"}
Free == [class |-> "none", addr |-> "none"]
Sessions == [class : McClasses, addr : Addrs]
Allocate == -1

ASSUME MulticastAssumption ==
    McGroups \subseteq Nat /\ IsFiniteSet(McGroups) /\ "none" \notin Addrs

VARIABLES
    multicast,      \* multicast[] and multicast_used[]
    running,        \* the sessions the modem runs
    held            \* history: for every address, the sessions added less those removed

mcVars == <<multicast, running, held>>

McInit ==
    /\ multicast = [g \in McGroups |-> Free]
    /\ running = [g \in McGroups |-> Free]
    /\ held = [a \in Addrs |-> 0]

\* allocate_group(): the requested group if it is free, or the first free one.
allocate_group(requested) ==
    IF requested # Allocate THEN {g \in {requested} : multicast[g] = Free}
    ELSE {g \in McGroups : multicast[g] = Free /\ \A h \in McGroups : multicast[h] = Free => g <= h}

Quiet == Stay /\ UNCHANGED <<session, events>>

\* usp_multicast_add(): the keys, the session, and the table if both were taken.
Add(t, s, requested) ==
    /\ Begin(t, "mc_add") /\ ready /\ Quiet
    /\ \E g \in allocate_group(requested) :
          /\ running' = [running EXCEPT ![g] = s]
          /\ multicast' = [multicast EXCEPT ![g] = s]
    /\ held' = [held EXCEPT ![s.addr] = @ + 1]

\* The first group of the table with this address; others with the same address stay.
Found(a) == {g \in McGroups : multicast[g].addr = a /\ \A h \in McGroups : multicast[h].addr = a => g <= h}

\* usp_multicast_remove(): stops the session, then frees its group.
Remove(t, a, ok) ==
    /\ Begin(t, "mc_remove") /\ ready /\ Quiet
    /\ \E g \in Found(a) :
          /\ running' = IF ok THEN [running EXCEPT ![g] = Free] ELSE running
          /\ multicast' = IF ok THEN [multicast EXCEPT ![g] = Free] ELSE multicast
    /\ held' = IF ok THEN [held EXCEPT ![a] = @ - 1] ELSE held

Stopped(classes) == [g \in McGroups |-> IF running[g].class \in classes THEN Free ELSE running[g]]

\* Mutant: the table is emptied although Class B was not stopped.
ClearForgets(t, c_ok, b_ok) ==
    /\ Begin(t, "mc_clear") /\ ready /\ Quiet
    /\ running' = Stopped(IF ~c_ok THEN {} ELSE IF b_ok THEN McClasses ELSE {"C"})
    /\ multicast' = IF c_ok THEN [g \in McGroups |-> Free] ELSE multicast
    /\ held' = IF c_ok THEN [a \in Addrs |-> 0] ELSE held

\* usp_multicast_clear(): all of Class C, then all of Class B, then the table.
Clear(t, c_ok, b_ok) ==
    /\ Begin(t, "mc_clear") /\ ready /\ Quiet
    /\ running' = Stopped(IF ~c_ok THEN {} ELSE IF b_ok THEN McClasses ELSE {"C"})
    /\ multicast' = IF c_ok /\ b_ok THEN [g \in McGroups |-> Free] ELSE multicast
    /\ held' = IF c_ok /\ b_ok THEN [a \in Addrs |-> 0] ELSE held

\* The session ends or the modem resets: its multicast sessions end, the table stays.
McSessionEnds == running' = [g \in McGroups |-> Free] /\ UNCHANGED <<multicast, held>>

McReboot ==
    /\ multicast' = [g \in McGroups |-> Free] /\ running' = [g \in McGroups |-> Free]
    /\ held' = [a \in Addrs |-> 0]

McNext ==
    \E t \in Threads :
       \/ \E s \in Sessions, requested \in McGroups \cup {Allocate} : Add(t, s, requested)
       \/ \E a \in Addrs, ok \in BOOLEAN : Remove(t, a, ok)
       \/ \E c_ok, b_ok \in BOOLEAN : Clear(t, c_ok, b_ok)

-----------------------------------------------------------------------------
McTypeOK == multicast \in [McGroups -> Sessions \cup {Free}] /\ running \in [McGroups -> Sessions \cup {Free}]

\* The modem runs no session that the table does not hold: one that could not be stopped, by a
\* failed remove or by a clear that failed half way, can still be listed and removed.
NoHiddenSession == \A g \in McGroups : running[g] \in {Free, multicast[g]}

\* Every accepted removal stops a session of its address, every accepted clear all of them: no
\* more sessions run with an address than were added and not removed, none if all were removed.
RemovedIsQuiet == \A a \in Addrs : Cardinality({g \in McGroups : running[g].addr = a}) <= held[a]

\* include/rzi/lorawan/multicast.h: "Stop and remove the multicast session with dev_addr."  After
\* one removal no session runs with the address; an address added twice needs two.
RemovedIsGone ==
    [][\A t \in Threads, a \in Addrs : Remove(t, a, TRUE) => \A g \in McGroups : running'[g].addr # a]_<<callVars, mcVars>>

\* The table of sessions and the modem agree: what runs is in the table, what was removed
\* does not run.
SessionsKept == McTypeOK /\ NoHiddenSession /\ RemovedIsQuiet
=============================================================================
