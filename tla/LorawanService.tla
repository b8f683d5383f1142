---------------------------- MODULE LorawanService ----------------------------
(***************************************************************************)
(* The backend-independent LoRaWAN service (src/src/lorawan/lorawan.c)     *)
(* running on the USP backend (backend/usp/lorawan_backend_usp.c): the     *)
(* join sequence, leave, send, the event queue, the dispatcher thread and  *)
(* the modem that produces the events.                                     *)
(*                                                                         *)
(* Every step of a thread is one atomic access of the C code: an atomic_t  *)
(* operation, a section under one mutex, or a message-queue operation.     *)
(***************************************************************************)
EXTENDS Integers, Sequences

CONSTANTS
    Threads,        \* application threads that call the public API
    Ops,            \* the calls each of them makes
    Attempts,       \* values of the join-attempts policy (uint8_t in C)
    Creds,          \* stored credential sets
    QueueSize,      \* CONFIG_RZI_LORAWAN_EVENT_QUEUE_SIZE
    MaxResets,      \* bound: unexpected modem resets per behaviour
    MaxFails,       \* bound: failed attempts counted for one join request
    Faults,         \* TRUE: modem and flash calls may return errors
    Backoff,        \* TRUE: a join attempt ends only after the dispatcher has dealt with
                    \* the failure of the one before it
    StartMayFail    \* TRUE: the backend's start operation may fail

AllOps == {"start", "stop", "keep", "leave", "send", "set_cred"}

Disp == "dispatcher"
Engine == "engine"
Actors == Threads \cup {Disp, Engine}
Keep == -1          \* RZI_LORAWAN_JOIN_KEEP

ASSUME ServiceAssumption ==
    /\ Ops \in [Threads -> SUBSET AllOps]
    /\ Attempts \subseteq 0..255 /\ Attempts # {}
    /\ Creds # {}
    /\ QueueSize \in Nat \ {0}
    /\ MaxResets \in Nat /\ MaxFails \in Nat
    /\ Faults \in BOOLEAN /\ Backoff \in BOOLEAN /\ StartMayFail \in BOOLEAN
    /\ Disp \notin Threads /\ Engine \notin Threads

VARIABLES
    \* the service
    started,        \* atomic_t started
    queue,          \* k_msgq events
    overflow,       \* atomic_t overflow
    dropping,       \* actors between a failed k_msgq_put and atomic_set(&overflow)
    active,         \* atomic_t join_sequence_active
    retries,        \* atomic_t join_retries_remaining
    attempts,       \* credentials.join_attempts
    cred,           \* the stored credentials
    owned,          \* credentials.join_active
    \* threads
    pc,             \* next step of every application thread and of the dispatcher
    loc,            \* locals of every application thread; raced (history) says that the
                    \* credentials were changed after its begin_join() had read them
    event,          \* the event the dispatcher holds
    \* the USP backend and the modem
    handler,        \* the backend's modem-event handler is installed
    ready,          \* ready
    tx_pending,     \* tx_pending
    modem,          \* state of LBM: [state, tx, cred, fails], and raced of its join
    resets,         \* unexpected resets so far
    \* history
    lost,           \* some event was dropped since boot
    told            \* last of the Network events the subscribers were given

service == <<started, active, retries, attempts, cred, owned>>
events == <<queue, dropping, lost>>
backend == <<handler, ready, tx_pending, modem, resets>>
vars == <<started, queue, overflow, dropping, active, retries, attempts, cred, owned,
          pc, loc, event, handler, ready, tx_pending, modem, resets, lost, told>>

\* STATE_READY is STATE_CHANGED(READY), published by the service; READY is the backend's.
ReadyEvents == {"READY", "STATE_READY"}
Network == ReadyEvents \cup {"JOINED"}
\* The events no decision of the service and no property depends on: STATE_CHANGED to
\* STARTING, STOPPED and JOINING, TX_DONE, DOWNLINK, ERROR.
Other == "OTHER"
Events == Network \cup {"JOIN_FAILED", Other}
None == "NONE"

ModemStates == {"off", "idle", "joining", "joined"}
ThreadLabels ==
    {"idle", "publish_starting", "backend_start", "on_started", "publish_stopped", "policy", "get_attempts",
     "build_config", "cas", "set_retries", "own", "publish_joining", "backend_join",
     "was_active", "clear_active", "clear_retries", "disown", "is_joined", "stop_leave",
     "publish_ready", "send"}
DispLabels ==
    {"get", "swallow", "check_retries", "decrement", "clear_active", "clear_retries", "disown",
     "limit_leave", "publish_ready", "deliver", "check_overflow", "deliver_overflow"}

\* Between these labels begin_join() works with the credentials it has read.
Reading == {"cas", "set_retries", "own", "publish_joining", "backend_join"}

NoLoc == [start |-> "keep", att |-> 0, cfg |-> CHOOSE c \in Creds : TRUE, then |-> "idle",
          raced |-> FALSE]

-----------------------------------------------------------------------------
(* Publishing an event *)

\* publish(): a failed k_msgq_put leaves the actor one step away from the overflow flag.
publish(a, e) ==
    IF Len(queue) < QueueSize
    THEN queue' = Append(queue, e) /\ UNCHANGED <<dropping, lost>>
    ELSE dropping' = dropping \cup {a} /\ lost' = TRUE /\ UNCHANGED queue

\* The atomic_set(&overflow, 1) that follows the failed put.
FlagOverflow(a) ==
    /\ a \in dropping
    /\ overflow' = TRUE
    /\ dropping' = dropping \ {a}
    /\ UNCHANGED <<service, queue, lost, pc, loc, event, backend, told>>

\* Actor a is about to execute the step named l.
At(a, l) == pc[a] = l /\ a \notin dropping
\* It goes on at l with the locals x; a call that returns forgets its locals.
GotoWith(a, l, x) == pc' = [pc EXCEPT ![a] = l] /\ loc' = x
Goto(a, l) == GotoWith(a, l, IF l = "idle" THEN [loc EXCEPT ![a] = NoLoc] ELSE loc)

\* The USP lock is free: the engine, and a thread inside usp_start(), publish holding it.
UspFree == \A a \in dropping : a # Engine /\ pc[a] # "on_started"

-----------------------------------------------------------------------------
(* The USP backend's operations, each under the USP lock *)

UspEnter == UspFree /\ ready

\* Mutant: the outstanding uplink is not looked at.
LeaveIgnoresTx == ready

\* usp_leave(): refused while an uplink is outstanding.
usp_leave_ok == ready /\ ~tx_pending
ModemLeave == modem' = [modem EXCEPT !.state = "idle", !.tx = FALSE]

\* The modem refuses credentials and a join unless it is out of a network.
modem_join_ok == modem.state = "idle"

\* Mutant: an unexpected reset is reported as an error only.
ResetNotAnnounced(a) == tx_pending' = FALSE /\ ready' = TRUE /\ publish(a, Other)

\* SMTC_MODEM_EVENT_RESET in handle_event(): the backend is configured again, and
\* announces READY, or stays not ready when the modem refuses its configuration.
HandleReset(a) ==
    /\ tx_pending' = FALSE
    /\ \/ ready' = TRUE /\ publish(a, "READY")
       \/ Faults /\ ready' = FALSE /\ publish(a, Other)

-----------------------------------------------------------------------------
(* rzi_lorawan_init() *)

\* Mutant: init() tests and sets the flag without a compare-and-set.
InitCallTwice(t) ==
    /\ At(t, "idle")
    /\ started' = TRUE
    /\ Goto(t, "publish_starting")
    /\ UNCHANGED <<events, overflow, active, retries, attempts, cred, owned, event, backend,
                   told>>

InitCall(t) ==
    /\ At(t, "idle")
    /\ ~started
    /\ started' = TRUE
    /\ Goto(t, "publish_starting")
    /\ UNCHANGED <<events, overflow, active, retries, attempts, cred, owned, event, backend,
                   told>>

\* The region could not be persisted: init() returns before anything is announced.
InitRegionFails(t) ==
    /\ At(t, "publish_starting")
    /\ Faults
    /\ started' = FALSE
    /\ Goto(t, "idle")
    /\ UNCHANGED <<events, overflow, active, retries, attempts, cred, owned, event, backend,
                   told>>

InitPublish(t) ==
    /\ At(t, "publish_starting")
    /\ publish(t, Other)   \* STATE_CHANGED(STARTING)
    /\ Goto(t, "backend_start")
    /\ UNCHANGED <<service, overflow, event, backend, told>>

\* usp_start(): the handler is installed, and told of a reset that happened before.
InitStart(t) ==
    /\ At(t, "backend_start")
    /\ UspFree
    /\ handler' = TRUE
    /\ IF modem.state = "off"
       THEN UNCHANGED <<ready, tx_pending, events>>
       ELSE HandleReset(t)
    /\ Goto(t, "on_started")
    /\ UNCHANGED <<service, overflow, event, modem, resets, told>>

\* The attached services' on_started hooks.
InitOnStarted(t) ==
    /\ At(t, "on_started")
    /\ Goto(t, "idle")
    /\ UNCHANGED <<service, events, overflow, event, backend, told>>

InitFails(t) ==
    /\ At(t, "backend_start")
    /\ StartMayFail
    /\ started' = FALSE
    /\ Goto(t, "publish_stopped")
    /\ UNCHANGED <<events, overflow, active, retries, attempts, cred, owned, event, backend,
                   told>>

InitStopped(t) ==
    /\ At(t, "publish_stopped")
    /\ publish(t, Other)   \* STATE_CHANGED(STOPPED)
    /\ Goto(t, "idle")
    /\ UNCHANGED <<service, overflow, event, backend, told>>

-----------------------------------------------------------------------------
(* rzi_lorawan_join(start, auto_join, interval, attempts) *)

\* The early BUSY return of a start while a sequence is active changes nothing.
JoinCall(t, start, att) ==
    /\ At(t, "idle")
    /\ start \in Ops[t] \cap {"start", "stop", "keep"}
    /\ start = "start" => ~active
    /\ GotoWith(t, "policy", [loc EXCEPT ![t] = [NoLoc EXCEPT !.start = start, !.att = att]])
    /\ UNCHANGED <<service, events, overflow, event, backend, told>>

\* rzi_lorawan_credentials_update_policy() and the branch on start.
JoinPolicy(t) ==
    /\ At(t, "policy")
    /\ attempts' = IF loc[t].att = Keep THEN attempts ELSE loc[t].att
    /\ GotoWith(t, CASE loc[t].start = "stop" -> "was_active"
                     [] loc[t].start = "start" /\ started -> "get_attempts"
                     [] OTHER -> "idle",
                [loc EXCEPT ![t] = NoLoc])      \* the arguments are not used again
    /\ UNCHANGED <<started, active, retries, cred, owned, events, overflow, event, backend,
                   told>>

\* The policy could not be persisted.
JoinPolicyFails(t) ==
    /\ At(t, "policy")
    /\ Faults
    /\ Goto(t, "idle")
    /\ UNCHANGED <<service, events, overflow, event, backend, told>>

\* The policy or the credentials could not be read, or are incomplete.
BeginReadFails(t) ==
    /\ At(t, "get_attempts") \/ At(t, "build_config")
    /\ Faults
    /\ Goto(t, "idle")
    /\ UNCHANGED <<service, events, overflow, event, backend, told>>

\* begin_join(): the attempt count and the credentials are read in separate sections.
BeginAttempts(t) ==
    /\ At(t, "get_attempts")
    /\ GotoWith(t, "build_config", [loc EXCEPT ![t].att = attempts])
    /\ UNCHANGED <<service, events, overflow, event, backend, told>>

BeginConfig(t) ==
    /\ At(t, "build_config")
    /\ GotoWith(t, "cas", [loc EXCEPT ![t].cfg = cred])
    /\ UNCHANGED <<service, events, overflow, event, backend, told>>

BeginCas(t) ==
    /\ At(t, "cas")
    /\ active' = TRUE
    /\ Goto(t, IF active THEN "idle" ELSE "set_retries")
    /\ UNCHANGED <<started, retries, attempts, cred, owned, events, overflow, event, backend,
                   told>>

BeginRetries(t) ==
    /\ At(t, "set_retries")
    /\ retries' = loc[t].att
    /\ Goto(t, "own")
    /\ UNCHANGED <<started, active, attempts, cred, owned, events, overflow, event, backend,
                   told>>

BeginOwn(t) ==
    /\ At(t, "own")
    /\ owned' = TRUE
    /\ Goto(t, "publish_joining")
    /\ UNCHANGED <<started, active, retries, attempts, cred, events, overflow, event, backend,
                   told>>

BeginPublish(t) ==
    /\ At(t, "publish_joining")
    /\ publish(t, Other)   \* STATE_CHANGED(JOINING)
    /\ Goto(t, "backend_join")
    /\ UNCHANGED <<service, overflow, event, backend, told>>

\* usp_join() accepted the request.
BeginJoin(t) ==
    /\ At(t, "backend_join")
    /\ UspEnter
    /\ modem_join_ok
    /\ modem' = [modem EXCEPT !.state = "joining", !.cred = loc[t].cfg, !.fails = 0,
                                !.raced = loc[t].raced]
    /\ Goto(t, "idle")
    /\ UNCHANGED <<service, events, overflow, event, handler, ready, tx_pending, resets,
                   told>>

\* Mutant: the refused sequence is not cleared.
JoinFailsUncleared(t) ==
    /\ At(t, "backend_join")
    /\ UspFree
    /\ ~ready \/ ~modem_join_ok \/ Faults
    /\ Goto(t, "publish_ready")
    /\ UNCHANGED <<service, events, overflow, event, backend, told>>

\* usp_join() refused it: the sequence is cleared and the service is READY again.
BeginJoinFails(t) ==
    /\ At(t, "backend_join")
    /\ UspFree
    /\ ~ready \/ ~modem_join_ok \/ Faults
    /\ GotoWith(t, "clear_active", [loc EXCEPT ![t].then = "publish_ready"])
    /\ UNCHANGED <<service, events, overflow, event, backend, told>>

-----------------------------------------------------------------------------
(* clear_join_sequence(), called by threads and by the dispatcher *)

ClearActive(a) ==
    /\ At(a, "clear_active")
    /\ active' = FALSE
    /\ Goto(a, "clear_retries")
    /\ UNCHANGED <<started, retries, attempts, cred, owned, events, overflow, event, backend,
                   told>>

ClearRetries(a) ==
    /\ At(a, "clear_retries")
    /\ retries' = 0
    /\ Goto(a, "disown")
    /\ UNCHANGED <<started, active, attempts, cred, owned, events, overflow, event, backend,
                   told>>

\* rzi_lorawan_credentials_set_join_active(false), then back to the caller.
Disown(a) ==
    /\ At(a, "disown")
    /\ owned' = FALSE
    /\ Goto(a, CASE a = Disp /\ event = "JOINED" -> "deliver"
                 [] a = Disp /\ event # "JOINED" -> "limit_leave"
                 [] OTHER -> loc[a].then)
    /\ UNCHANGED <<started, active, retries, attempts, cred, events, overflow, event, backend,
                   told>>

-----------------------------------------------------------------------------
(* stop_join(), rzi_lorawan_leave(), rzi_lorawan_send(), the credential setters *)

StopRead(t) ==
    /\ At(t, "was_active")
    /\ GotoWith(t, "clear_active", [loc EXCEPT ![t].then = IF active THEN "is_joined" ELSE "idle"])
    /\ UNCHANGED <<service, events, overflow, event, backend, told>>

\* check_context() and usp_is_joined(): an error, or a joined session, ends the call.
StopIsJoined(t) ==
    /\ At(t, "is_joined")
    /\ UspFree
    /\ Goto(t, IF started /\ ready /\ modem.state # "joined" THEN "stop_leave" ELSE "idle")
    /\ UNCHANGED <<service, events, overflow, event, backend, told>>

\* The backend's leave operation and its refusals, called at the step named l.
Leave(a, l, after) ==
    /\ At(a, l)
    /\ UspFree
    /\ usp_leave_ok
    /\ ModemLeave
    /\ Goto(a, after)
    /\ UNCHANGED <<service, events, overflow, event, handler, ready, tx_pending, resets,
                   told>>

LeaveFails(a, l, after) ==
    /\ At(a, l)
    /\ UspFree
    /\ ~usp_leave_ok \/ Faults
    /\ Goto(a, after)
    /\ UNCHANGED <<service, events, overflow, event, backend, told>>

StopLeave(t) == Leave(t, "stop_leave", "publish_ready") \/ LeaveFails(t, "stop_leave", "idle")

\* rzi_lorawan_leave(); a refused leave returns its error and changes nothing.
LeaveCall(t) == "leave" \in Ops[t] /\ started /\ Leave(t, "idle", "publish_ready")

\* publish_state(RZI_LORAWAN_STATE_READY), the last step of several calls.
PublishReady(t) ==
    /\ At(t, "publish_ready")
    /\ publish(t, "STATE_READY")
    /\ Goto(t, "idle")
    /\ UNCHANGED <<service, overflow, event, backend, told>>

\* rzi_lorawan_send(): check_joined(), then the backend's send in a second section.
SendCall(t) ==
    /\ At(t, "idle")
    /\ "send" \in Ops[t] /\ started
    /\ UspEnter
    /\ modem.state = "joined"
    /\ Goto(t, "send")
    /\ UNCHANGED <<service, events, overflow, event, backend, told>>

\* usp_send(): one outstanding uplink, and the modem sends only in a network.
Send(t) ==
    /\ At(t, "send")
    /\ UspFree
    /\ Goto(t, "idle")
    /\ \/ /\ ready /\ ~tx_pending /\ modem.state = "joined"
          /\ tx_pending' = TRUE
          /\ modem' = [modem EXCEPT !.tx = TRUE]
       \/ /\ ~ready \/ tx_pending \/ modem.state # "joined" \/ Faults
          /\ UNCHANGED <<tx_pending, modem>>
    /\ UNCHANGED <<service, events, overflow, event, handler, ready, resets, told>>

\* Credentials c replace the stored ones; a begin_join() that holds others has been raced.
StoreCred(c) ==
    /\ cred' = c
    /\ loc' = [u \in Threads |->
                 [loc[u] EXCEPT !.raced = @ \/ (pc[u] \in Reading /\ c # cred)]]

\* Mutant: credentials are changed under a running sequence.
SetCredAnytime(t, c) ==
    /\ At(t, "idle")
    /\ "set_cred" \in Ops[t]
    /\ StoreCred(c)
    /\ UNCHANGED <<started, active, retries, attempts, owned, events, overflow, pc, event,
                   backend, told>>

\* set_bytes(): refused while a join sequence owns the credentials.
SetCred(t, c) ==
    /\ At(t, "idle")
    /\ "set_cred" \in Ops[t]
    /\ ~owned
    /\ StoreCred(c)
    /\ UNCHANGED <<started, active, retries, attempts, owned, events, overflow, pc, event,
                   backend, told>>

-----------------------------------------------------------------------------
(* The dispatcher thread *)

DispGet ==
    /\ At(Disp, "get")
    /\ queue # <<>>
    /\ event' = Head(queue)
    /\ queue' = Tail(queue)
    /\ Goto(Disp, "swallow")
    /\ UNCHANGED <<service, overflow, dropping, lost, backend, told>>

\* Mutant: JOINED does not end the sequence.
SwallowIgnoresJoined ==
    /\ At(Disp, "swallow")
    /\ Goto(Disp, IF event = "JOIN_FAILED" /\ active THEN "check_retries" ELSE "deliver")
    /\ UNCHANGED <<service, events, overflow, event, backend, told>>

\* swallow_join_event(), up to the read of the retry counter.
DispSwallow ==
    /\ At(Disp, "swallow")
    /\ Goto(Disp, CASE event = "JOINED" -> "clear_active"
                    [] event = "JOIN_FAILED" /\ active -> "check_retries"
                    [] OTHER -> "deliver")
    /\ UNCHANGED <<service, events, overflow, event, backend, told>>

DispCheckRetries ==
    /\ At(Disp, "check_retries")
    /\ Goto(Disp, IF retries > 0 THEN "decrement" ELSE "clear_active")
    /\ UNCHANGED <<service, events, overflow, event, backend, told>>

\* A failure within the limit is counted and not shown to anybody.
DispDecrement ==
    /\ At(Disp, "decrement")
    /\ retries' = retries - 1
    /\ event' = None
    /\ Goto(Disp, "check_overflow")
    /\ UNCHANGED <<started, active, attempts, cred, owned, events, overflow, backend,
                   told>>

\* At the limit the service stops the modem; the result of leave() is ignored.
DispLimitLeave ==
    \/ Leave(Disp, "limit_leave", "publish_ready")
    \/ LeaveFails(Disp, "limit_leave", "publish_ready")

DispPublishReady ==
    /\ At(Disp, "publish_ready")
    /\ publish(Disp, "STATE_READY")
    /\ Goto(Disp, "deliver")
    /\ UNCHANGED <<service, overflow, event, backend, told>>

\* The event reaches the subscribers and the attached services.
DispDeliver ==
    /\ At(Disp, "deliver")
    /\ told' = IF event \in Network THEN event ELSE told
    /\ event' = None
    /\ Goto(Disp, "check_overflow")
    /\ UNCHANGED <<service, events, overflow, backend>>

DispCheckOverflow ==
    /\ At(Disp, "check_overflow")
    /\ overflow' = FALSE
    /\ Goto(Disp, IF overflow THEN "deliver_overflow" ELSE "get")
    /\ UNCHANGED <<service, events, event, backend, told>>

\* The overflow error is dispatched in turn; no lifecycle state depends on it.
DispDeliverOverflow ==
    /\ At(Disp, "deliver_overflow")
    /\ Goto(Disp, "get")
    /\ UNCHANGED <<service, events, overflow, event, backend, told>>

-----------------------------------------------------------------------------
(* The modem engine: it runs handle_event() under the USP lock *)

EngineStep == handler /\ UspFree

\* Events reach handle_event() in the order LBM raises them.
ModemReset ==
    /\ EngineStep
    /\ \/ modem.state = "off" /\ UNCHANGED resets
       \/ modem.state # "off" /\ resets < MaxResets /\ resets' = resets + 1
    /\ modem' = [modem EXCEPT !.state = "idle", !.tx = FALSE]
    /\ HandleReset(Engine)
    /\ UNCHANGED <<service, overflow, pc, loc, event, handler, told>>

\* LBM spaces join attempts by the regional backoff, many seconds apart.
AttemptEnds ==
    /\ modem.state = "joining"
    /\ Backoff => event # "JOIN_FAILED" /\ \A i \in 1..Len(queue) : queue[i] # "JOIN_FAILED"

\* One attempt failed; LBM has already scheduled the next one.
ModemJoinFail ==
    /\ EngineStep
    /\ AttemptEnds
    /\ modem' = [modem EXCEPT !.fails = IF @ < MaxFails THEN @ + 1 ELSE @]
    /\ publish(Engine, "JOIN_FAILED")
    /\ UNCHANGED <<service, overflow, pc, loc, event, handler, ready, tx_pending, resets, told>>

ModemJoined ==
    /\ EngineStep
    /\ AttemptEnds
    /\ modem' = [modem EXCEPT !.state = "joined"]
    /\ publish(Engine, "JOINED")
    /\ UNCHANGED <<service, overflow, pc, loc, event, handler, ready, tx_pending, resets, told>>

ModemTxDone ==
    /\ EngineStep
    /\ modem.tx
    /\ modem' = [modem EXCEPT !.tx = FALSE]
    /\ tx_pending' = FALSE
    /\ publish(Engine, Other)   \* TX_DONE
    /\ UNCHANGED <<service, overflow, pc, loc, event, handler, ready, resets, told>>

\* publish_downlinks(): one event for every stored downlink.
ModemDownlink ==
    /\ EngineStep
    /\ modem.state = "joined"
    /\ publish(Engine, Other)   \* DOWNLINK
    /\ UNCHANGED <<service, overflow, pc, loc, event, backend, told>>

-----------------------------------------------------------------------------
Init ==
    /\ started = FALSE /\ queue = <<>> /\ overflow = FALSE /\ dropping = {}
    /\ active = FALSE /\ retries = 0 /\ attempts \in Attempts /\ cred \in Creds /\ owned = FALSE
    /\ pc = [a \in Threads \cup {Disp} |-> IF a = Disp THEN "get" ELSE "idle"]
    /\ loc = [t \in Threads |-> NoLoc]
    /\ event = None
    /\ handler = FALSE /\ ready = FALSE /\ tx_pending = FALSE
    \* LoRa P2P may have started the shared USP platform before the service
    /\ modem \in [state : {"off", "idle"}, tx : {FALSE}, cred : {cred}, fails : {0},
                raced : {FALSE}]
    /\ resets = 0
    /\ lost = FALSE /\ told = None

ThreadNext(t) ==
    \/ InitCall(t) \/ InitRegionFails(t) \/ InitPublish(t) \/ InitStart(t) \/ InitOnStarted(t) \/ InitFails(t) \/ InitStopped(t)
    \/ \E start \in {"start", "stop", "keep"}, att \in Attempts \cup {Keep} : JoinCall(t, start, att)
    \/ JoinPolicy(t) \/ JoinPolicyFails(t)
    \/ BeginReadFails(t) \/ BeginAttempts(t) \/ BeginConfig(t) \/ BeginCas(t) \/ BeginRetries(t) \/ BeginOwn(t)
    \/ BeginPublish(t) \/ BeginJoin(t) \/ BeginJoinFails(t)
    \/ ClearActive(t) \/ ClearRetries(t) \/ Disown(t)
    \/ StopRead(t) \/ StopIsJoined(t) \/ StopLeave(t)
    \/ LeaveCall(t) \/ PublishReady(t)
    \/ SendCall(t) \/ Send(t)
    \/ \E c \in Creds : SetCred(t, c)

DispNext ==
    \/ DispGet \/ DispSwallow \/ DispCheckRetries \/ DispDecrement
    \/ ClearActive(Disp) \/ ClearRetries(Disp) \/ Disown(Disp)
    \/ DispLimitLeave \/ DispPublishReady
    \/ DispDeliver \/ DispCheckOverflow \/ DispDeliverOverflow

EngineNext == ModemReset \/ ModemJoinFail \/ ModemJoined \/ ModemTxDone \/ ModemDownlink

Next ==
    \/ \E t \in Threads : ThreadNext(t)
    \/ DispNext
    \/ EngineNext
    \/ \E a \in Actors : FlagOverflow(a)

Spec == Init /\ [][Next]_vars

\* The scheduler runs a thread that is inside a call and the dispatcher when it has
\* work.  LBM ends every join attempt, and hands its events over in the order they
\* happened, so downlinks cannot overtake one forever.  Nothing makes an
\* application call anything.
Fairness ==
    /\ \A t \in Threads : WF_vars(pc[t] # "idle" /\ ThreadNext(t))
    /\ WF_vars(DispNext)
    /\ \A a \in Actors : WF_vars(FlagOverflow(a))
    /\ SF_vars(ModemJoinFail \/ ModemJoined)

FairSpec == Spec /\ Fairness

-----------------------------------------------------------------------------
(* Properties *)

Locals == [start : {"start", "stop", "keep"}, att : -1..255, cfg : Creds,
           then : {"idle", "is_joined", "publish_ready"}, raced : BOOLEAN]

ServiceOK ==
    /\ started \in BOOLEAN /\ active \in BOOLEAN /\ owned \in BOOLEAN
    /\ retries \in -1..255 /\ attempts \in 0..255 /\ cred \in Creds

QueueOK ==
    /\ queue \in Seq(Events) /\ Len(queue) <= QueueSize
    /\ dropping \subseteq Actors
    /\ overflow \in BOOLEAN /\ lost \in BOOLEAN
    /\ event \in Events \cup {None} /\ told \in Network \cup {None}

ControlOK ==
    /\ pc \in [Threads \cup {Disp} -> ThreadLabels \cup DispLabels]
    /\ \A t \in Threads : pc[t] \in ThreadLabels
    /\ pc[Disp] \in DispLabels
    /\ loc \in [Threads -> Locals]

BackendOK ==
    /\ handler \in BOOLEAN /\ ready \in BOOLEAN /\ tx_pending \in BOOLEAN
    /\ modem \in [state : ModemStates, tx : BOOLEAN, cred : Creds, fails : 0..MaxFails,
                  raced : BOOLEAN]
    /\ resets \in 0..MaxResets

\* The dispatcher decrements a counter it has just seen positive: a clear in between
\* takes it to zero and no lower.
CounterOK ==
    /\ pc[Disp] = "decrement" => retries >= 0
    /\ \A t \in Threads : pc[t] \in {"build_config", "cas", "set_retries"} => loc[t].att >= 0

\* Every variable has its C type.  The retry counter is an atomic_t that two threads
\* use: it may fall one below zero.
TypeOK == ServiceOK /\ QueueOK /\ ControlOK /\ BackendOK

Starting == {"publish_starting", "backend_start"}

\* init() is a one-shot: at most one thread starts the backend, and until it has done so
\* the modem of the shared platform is out of any network, so that the reset which
\* usp_start() replays cannot hit a running join or uplink.
StartsOnce ==
    /\ \A t \in Threads : pc[t] \in Starting => started /\ ~handler
    /\ \A t, u \in Threads : pc[t] \in Starting /\ pc[u] \in Starting => t = u
    /\ handler => started
    /\ ~handler => ~ready /\ modem.state \in {"off", "idle"}

\* The uplink the backend waits for (tx_pending) is the one the modem is sending: no
\* leave or reset orphans it, so every TX_DONE belongs to the send that was accepted.
TxOwnership ==
    /\ tx_pending = modem.tx
    /\ modem.tx => modem.state = "joined"

\* The dispatcher holds an event the subscribers have not been given yet.
Holding == pc[Disp] \notin {"get", "check_overflow", "deliver_overflow"}

NoneReady == \A j \in 1..Len(queue) : queue[j] \notin ReadyEvents

\* What the subscribers were told, the event in the dispatcher's hands and the queue,
\* read in this order, end with JOINED and no READY after it.
JoinedIsLast ==
    \/ \E i \in 1..Len(queue) : /\ queue[i] = "JOINED"
                                /\ \A j \in i + 1..Len(queue) : queue[j] \notin ReadyEvents
    \/ NoneReady /\ Holding /\ event = "JOINED"
    \/ NoneReady /\ ~(Holding /\ event \in ReadyEvents) /\ told = "JOINED"

\* A session that ended is announced: as long as no event was dropped, a ready modem
\* that is out of the network has a READY behind every JOINED, or an actor just about
\* to publish it, whichever thread, reset or retry limit ended the session.
LossReported ==
    ready /\ modem.state # "joined" /\ ~lost /\ JoinedIsLast
        => \E a \in Threads \cup {Disp} : pc[a] = "publish_ready"

\* At every step of every call, callback and event: the service starts once, an uplink the
\* backend waits for is the one the modem sends, and every variable keeps its type.
ServiceConsistent == TypeOK /\ StartsOnce /\ TxOwnership

\* Nothing is going on: no call, no event in flight.
Quiescent ==
    /\ \A t \in Threads : pc[t] = "idle"
    /\ pc[Disp] = "get" /\ queue = <<>> /\ dropping = {}

\* Once the subscribers know of a READY and nothing is going on, an idle modem is not
\* kept from joining by a sequence nobody will end.
JoinNotBlocked == Quiescent /\ told \in ReadyEvents /\ modem.state = "idle" => ~active

\* STATE_READY is the last word only when the device is out of the network.
ReadyIsTrue == Quiescent /\ told = "STATE_READY" /\ ~lost => modem.state # "joined"

\* From the claim of the credentials to the end of begin_join() or of a clear.
Claiming == {"publish_joining", "backend_join", "clear_active", "clear_retries", "disown"}

\* At rest the credentials are locked exactly while a join sequence is active.
OwnershipMatches == Quiescent => owned = active

\* While a sequence owns the credentials and no begin_join() is between its claim and
\* its end, the modem joins with the stored credentials.  The one exception is a join
\* whose begin_join() had read them before another thread changed them: it goes on with
\* what it has read, and the credentials it owns are not the ones the modem uses.
CredentialsUsed ==
    modem.state = "joining" /\ owned /\ (\A t \in Threads : pc[t] \notin Claiming)
        => modem.cred = cred \/ modem.raced

\* Without the exception; it takes a second thread to break it.
CredentialsStored ==
    modem.state = "joining" /\ owned /\ (\A t \in Threads : pc[t] \notin Claiming)
        => modem.cred = cred

\* A stop never takes the modem out of a network it has joined.
StopKeepsSession ==
    [][\A t \in Threads : pc[t] = "stop_leave" /\ modem.state = "joined" /\ pc'[t] # pc[t]
                               => modem'.state = "joined"]_vars

\* The dispatcher decides to pass a JOIN_FAILED on to the subscribers.
ShowsFailure ==
    /\ event = "JOIN_FAILED"
    /\ pc[Disp] \in {"swallow", "check_retries"}
    /\ pc'[Disp] \in {"deliver", "clear_active"}

\* A JOIN_FAILED is passed on to the subscribers only when the join request the modem
\* works on has failed more often than the retry limit allows.
FailureMeansExhausted == [][ShowsFailure => \E a \in Attempts : modem.fails > a]_vars

\* Every join sequence ends, unless an event it depends on was dropped.
SequenceEnds == active ~> (~active \/ lost)

\* If an event was ever dropped, the overflow error is dispatched at some time.
OverflowReported == <>lost => <>(pc[Disp] = "deliver_overflow")
=============================================================================
