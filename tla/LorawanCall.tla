---------------------------- MODULE LorawanCall ----------------------------
(***************************************************************************)
(* What the calls of the network API share: the threads that make them,    *)
(* the service and the modem session they need (rzi_lorawan_check_started, *)
(* rzi_lorawan_usp_enter and rzi_lorawan_usp_require_joined).  Everything  *)
(* between enter and finish runs under the USP lock and is one step.       *)
(***************************************************************************)
EXTENDS Integers, FiniteSets

CONSTANTS
    Threads,        \* client threads
    Clients,        \* what the threads of a behaviour do, and where: [threads, ops, regions]
    MaxCalls,       \* bound: calls of all threads
    MaxEvents       \* bound: events of the modem and the network

ASSUME CallAssumption ==
    /\ \A c \in Clients : c.threads \subseteq Threads
    /\ MaxCalls \in Nat /\ MaxEvents \in Nat

VARIABLES
    client,         \* the client of this behaviour
    pc, arg,        \* where a thread is in its call, and its local as a set
    started,        \* the service runs
    ready,          \* the backend has seen the modem's reset
    joining, joined,\* the modem's session
    calls, events

session == <<started, ready, joining, joined>>
thread == <<client, pc, arg, calls>>
callVars == <<client, pc, arg, started, ready, joining, joined, calls, events>>

Idle == "idle"

CallInit ==
    /\ client \in Clients
    /\ pc = [t \in Threads |-> Idle] /\ arg = [t \in Threads |-> {}]
    /\ started = FALSE /\ ready = FALSE /\ joining = FALSE /\ joined = FALSE
    /\ calls = 0 /\ events = 0

\* Thread t begins a call of op.
Begin(t, op) ==
    /\ t \in client.threads /\ op \in client.ops /\ pc[t] = Idle /\ calls < MaxCalls
    /\ calls' = calls + 1
    /\ UNCHANGED client

Stay == UNCHANGED <<pc, arg>>
Goto(t, next) == pc' = [pc EXCEPT ![t] = next] /\ UNCHANGED <<arg, calls, client>>
GotoWith(t, next, local) == pc' = [pc EXCEPT ![t] = next] /\ arg' = [arg EXCEPT ![t] = local]

\* One event of the modem or the network.
Event == events < MaxEvents /\ events' = events + 1 /\ UNCHANGED thread

\* rzi_lorawan_init() and the reset the modem reports when it has started.
Start == ~started /\ started' = TRUE /\ UNCHANGED <<ready, joining, joined, thread, events>>
ModemReady == started /\ ~ready /\ ready' = TRUE /\ UNCHANGED <<started, joining, joined, thread, events>>

CallTypeOK ==
    /\ client \in Clients
    /\ DOMAIN pc = Threads /\ DOMAIN arg = Threads
    /\ started \in BOOLEAN /\ ready \in BOOLEAN /\ joining \in BOOLEAN /\ joined \in BOOLEAN
    /\ calls \in 0..MaxCalls /\ events \in 0..MaxEvents
=============================================================================
