------------------------------ MODULE AtLorawan ------------------------------
(***************************************************************************)
(* The LoRaWAN AT package (src/src/at/commands/lorawan/*.c): the handlers  *)
(* of AT+JOIN, SEND, LPSEND, RECV, CFM and CLASS on the AT thread,         *)
(* and on_event() on the dispatcher thread, which share one context.  The  *)
(* service below is taken at the grain of one call; LorawanService.tla has *)
(* its inside.  Between two calls of a handler the other thread runs.      *)
(***************************************************************************)
EXTENDS Integers, Sequences, FiniteSets

CONSTANTS
    Attempts,       \* retries of a join sequence after the first attempt
    HostWaits,      \* TRUE: the host sends again only after the event of the last uplink
    Inputs,         \* the commands the host types, a subset of AllInputs
    QueueSize,      \* CONFIG_RZI_LORAWAN_EVENT_QUEUE_SIZE
    MaxLines,       \* bound: commands of the host
    MaxDownlinks,   \* bound: application downlinks
    MaxResets       \* bound: resets of the modem after the one that starts it

AllInputs == {"JOIN", "JOIN=1", "JOIN=0", "SEND", "LPSEND", "RECV", "CFM", "CLASS", "CLASS=?"}
Classes == {"A", "C"}
NoTx == "none"
Mode(confirmed) == IF confirmed THEN "confirmed" ELSE "unconfirmed"    \* enum rzi_lorawan_message_type

LwConstants ==
    /\ Attempts \in Nat /\ HostWaits \in BOOLEAN /\ Inputs \subseteq AllInputs
    /\ MaxLines \in Nat /\ MaxDownlinks \in Nat
    /\ MaxResets \in Nat /\ QueueSize \in Nat \ {0}

ASSUME AtLorawanAssumption == LwConstants

VARIABLES
    ctx,            \* struct rzi_at_lorawan_context
    svc,            \* the LoRaWAN service and its modem
    cfm,            \* rzi_lorawan_get_confirmed()
    events,         \* events the dispatcher has still to deliver
    at, arg,        \* where the AT thread is, and its local
    disp,           \* where the dispatcher is
    asked, begun,   \* joins the host or auto-join asked for; sequences that began
    awaiting,       \* "yes": nothing was said of the end of a join that was accepted;
                    \* "cut": nor will be, its event was dropped or a reset ended it
    label,          \* the last uplink event and the uplink it was about
    heard, read,    \* application downlinks delivered; those AT+RECV returned
    lines, resets   \* commands typed and resets of the modem so far

lw_vars == <<ctx, svc, cfm, events, at, arg, disp, asked, begun, awaiting, label, heard, read,
             lines, resets>>

joins == <<asked, begun, awaiting>>
history == <<label, heard, read, resets>>

-----------------------------------------------------------------------------
(* The service: each call as a set of results [svc, out, rc], out the events it publishes *)

Call(s, out, rc) == [svc |-> s, out |-> out, rc |-> rc]
Ready == [type |-> "READY"]                 \* RZI_LORAWAN_EVENT_READY
StateReady == [type |-> "STATE_READY"]      \* STATE_CHANGED to READY
StateJoining == [type |-> "STATE_JOINING"]  \* STATE_CHANGED to JOINING
Error == [type |-> "ERROR"]                 \* RZI_LORAWAN_EVENT_ERROR

\* An event that finds the queue full is dropped.
publish(q, e) == IF Len(q) < QueueSize THEN Append(q, e) ELSE q

\* A call publishes two states at most.
PublishAll(q, out) ==
    CASE out = <<>> -> q
      [] Len(out) = 1 -> publish(q, out[1])
      [] OTHER -> publish(publish(q, out[1]), out[2])

\* rzi_lorawan_join(1): the policy and the credentials, whose errors come before anything is
\* published, then the sequence, then the modem, which refuses until it is ready.
rzi_lorawan_join(s) ==
    LET failed == <<StateJoining, StateReady>>
    IN  IF s.joining THEN {Call(s, <<>>, "AT_BUSY_ERROR")}
        ELSE {Call(s, <<>>, "AT_ERROR")}
             \cup IF ~s.started THEN {Call(s, <<>>, "NOT_READY")}
                  ELSE IF ~s.ready THEN {Call(s, failed, "NOT_READY")}
                  ELSE {Call(s, failed, "AT_ERROR"),
                        Call([s EXCEPT !.joining = TRUE, !.retries = Attempts, !.attempting = TRUE],
                             <<StateJoining>>, "OK")}

\* rzi_lorawan_join(0): stop_join(); a modem that is not ready, or busy, cannot be stopped.
stop_join(s) ==
    LET stopped == [s EXCEPT !.joining = FALSE]
    IN  IF ~s.joining \/ s.joined THEN {Call(stopped, <<>>, "OK")}
        ELSE {Call(stopped, <<>>, "AT_ERROR")}
             \cup IF s.ready /\ s.tx = NoTx
                  THEN {Call([stopped EXCEPT !.attempting = FALSE], <<StateReady>>, "OK")} ELSE {}

\* rzi_lorawan_leave(): refused while an uplink is outstanding.
rzi_lorawan_leave(s) ==
    IF ~s.ready \/ s.tx # NoTx THEN {Call(s, <<>>, "AT_ERROR")}
    ELSE {Call([s EXCEPT !.joined = FALSE, !.attempting = FALSE], <<StateReady>>, "OK")}

\* rzi_lorawan_send(): one uplink at a time.
rzi_lorawan_send(s, confirmed) ==
    IF ~s.joined THEN {Call(s, <<>>, "AT_ERROR")}
    ELSE IF s.tx # NoTx THEN {Call(s, <<>>, "AT_BUSY_ERROR")}
    ELSE {Call([s EXCEPT !.tx = Mode(confirmed)], <<>>, "OK"), Call(s, <<>>, "AT_ERROR")}

rzi_lorawan_set_class(s, c) ==
    {Call(s, <<>>, "AT_ERROR")} \cup IF s.ready THEN {Call([s EXCEPT !.class = c], <<>>, "OK")} ELSE {}

\* One call: what it changes in the service and publishes; it counts a sequence that began.
Do(r) ==
    /\ svc' = r.svc
    /\ events' = PublishAll(events, r.out)
    /\ begun' = IF r.svc.joining /\ ~svc.joining THEN begun + 1 ELSE begun

-----------------------------------------------------------------------------
LwInit ==
    /\ ctx = [service_started |-> FALSE, join_pending |-> FALSE, device_class |-> "A",
              confirmed_ok |-> FALSE, tx_confirmed |-> FALSE, downlink |-> 0]
    /\ svc = [started |-> FALSE, ready |-> FALSE, joining |-> FALSE, retries |-> 0,
              attempting |-> FALSE, joined |-> FALSE, tx |-> NoTx, class |-> "A"]
    /\ cfm \in BOOLEAN
    /\ events = <<>> /\ at = "boot" /\ arg = FALSE /\ disp = "idle"
    /\ asked = 0 /\ begun = 0 /\ awaiting = "no"
    /\ label = [event |-> "none", confirmed |-> FALSE, status |-> "none"]
    /\ heard = 0 /\ read = {} /\ lines = 0 /\ resets = 0

Goto(next) == at' = next /\ UNCHANGED arg
Answer == Goto("idle")

\* The package starts; with auto-join on it starts a join as AT+JOIN does.
ExtensionStart(auto_join) ==
    /\ at = "boot"
    /\ Goto(IF auto_join THEN "join_start" ELSE "idle")
    /\ asked' = IF auto_join THEN asked + 1 ELSE asked
    /\ UNCHANGED <<ctx, svc, cfm, events, disp, begun, awaiting, history, lines>>

Input(c) ==
    /\ at = "idle" /\ c \in Inputs /\ lines < MaxLines
    /\ lines' = lines + 1

\* AT+JOIN
HandleJoinRun ==
    /\ Input("JOIN")
    /\ Goto("join_start")
    /\ asked' = asked + 1
    /\ UNCHANGED <<ctx, svc, cfm, events, disp, begun, awaiting, history>>

\* AT+JOIN=1:...; a joined device only stores the policy and says so.
HandleJoinStart ==
    /\ Input("JOIN=1")
    /\ asked' = asked + 1
    /\ IF ctx.service_started /\ svc.joined
       THEN Answer /\ UNCHANGED <<svc, events, begun, awaiting>>
       ELSE \E r \in rzi_lorawan_join(svc) :
               /\ Do(r)
               /\ Goto(IF r.rc = "NOT_READY" THEN "join_start" ELSE "idle")
               /\ awaiting' = IF r.rc = "OK" THEN "yes" ELSE awaiting
    /\ UNCHANGED <<ctx, cfm, disp, history>>

\* rzi_at_lorawan_join_start() when the service runs.
JoinStart ==
    /\ at = "join_start" /\ ctx.service_started
    /\ IF svc.joined THEN UNCHANGED <<svc, events, begun, awaiting>>
       ELSE \E r \in rzi_lorawan_join(svc) :
               /\ Do(r)
               /\ awaiting' = IF r.rc = "OK" THEN "yes" ELSE awaiting
    /\ Answer
    /\ UNCHANGED <<ctx, cfm, disp, asked, history, lines>>

\* start_service(): the join is pending before the service can report that it is ready.
StartService(ok) ==
    /\ at = "join_start" /\ ~ctx.service_started
    /\ IF ok
       THEN /\ ctx' = [ctx EXCEPT !.join_pending = TRUE]
            /\ svc' = [svc EXCEPT !.started = TRUE]
            /\ awaiting' = "yes"
            /\ Goto("started")
       ELSE Answer /\ UNCHANGED <<ctx, svc, awaiting>>
    /\ UNCHANGED <<cfm, events, disp, asked, begun, history, lines>>

\* rzi_lorawan_init() has returned, and the dispatcher may have ended the join by now.
ServiceStarted ==
    /\ at = "started"
    /\ ctx' = [ctx EXCEPT !.service_started = TRUE]
    /\ Answer
    /\ UNCHANGED <<svc, cfm, events, disp, joins, history, lines>>

\* AT+JOIN=0:...: the sequence, then a pending join, then the session.
HandleJoinStop ==
    /\ Input("JOIN=0")
    /\ awaiting' = "no"
    /\ \E r \in stop_join(svc) : Do(r) /\ Goto(IF r.rc = "OK" THEN "stop" ELSE "idle")
    /\ UNCHANGED <<ctx, cfm, disp, asked, history>>

\* rzi_at_lorawan_join_stop()
JoinStop ==
    /\ at = "stop"
    /\ ctx' = [ctx EXCEPT !.join_pending = FALSE]
    /\ IF ctx.service_started THEN \E r \in rzi_lorawan_leave(svc) : Do(r)
       ELSE UNCHANGED <<svc, events, begun>>
    /\ Answer
    /\ UNCHANGED <<cfm, disp, asked, awaiting, history, lines>>

\* A host that waits has had the event of its last uplink.
MayWrite == HostWaits => svc.tx = NoTx /\ \A i \in DOMAIN events : events[i].type # "TXDONE"

\* Mutant: the confirmation mode is noted once the uplink is accepted.
HandleSendNotesLate(confirmed) ==
    /\ \/ Input("SEND") /\ confirmed = cfm
       \/ Input("LPSEND")
    /\ MayWrite
    /\ \E r \in rzi_lorawan_send(svc, confirmed) : Do(r)
    /\ at' = "send" /\ arg' = confirmed
    /\ UNCHANGED <<ctx, cfm, disp, asked, awaiting, history>>

\* AT+SEND takes the confirmation of AT+CFM, AT+LPSEND its own.
HandleSend(confirmed) ==
    /\ \/ Input("SEND") /\ confirmed = cfm
       \/ Input("LPSEND")
    /\ MayWrite
    /\ ctx' = [ctx EXCEPT !.tx_confirmed = confirmed]
    /\ at' = "send" /\ arg' = confirmed
    /\ UNCHANGED <<svc, cfm, events, disp, joins, history>>

Send ==
    /\ at = "send"
    /\ \E r \in rzi_lorawan_send(svc, arg) : Do(r)
    /\ Answer
    /\ UNCHANGED <<ctx, cfm, disp, asked, awaiting, history, lines>>

\* AT+RECV=?: reads and consumes under state_lock; nothing stored answers an empty value.
HandleRecv ==
    /\ Input("RECV")
    /\ ctx.downlink # 0
    /\ read' = read \cup {<<ctx.downlink, lines>>}
    /\ ctx' = [ctx EXCEPT !.downlink = 0]
    /\ UNCHANGED <<svc, cfm, events, at, arg, disp, joins, label, heard, resets>>

HandleCfm ==
    /\ Input("CFM")
    /\ cfm' = ~cfm
    /\ UNCHANGED <<ctx, svc, events, at, arg, disp, joins, history>>

\* AT+CLASS: kept until the service starts, then given to the modem first.
HandleClass(c) ==
    /\ Input("CLASS")
    /\ IF ~ctx.service_started
       THEN ctx' = [ctx EXCEPT !.device_class = c] /\ UNCHANGED <<svc, events, begun>>
       ELSE \E r \in rzi_lorawan_set_class(svc, c) :
               /\ Do(r)
               /\ ctx' = IF r.rc = "OK" THEN [ctx EXCEPT !.device_class = c] ELSE ctx
    /\ UNCHANGED <<cfm, at, arg, disp, asked, awaiting, history>>

\* AT+CLASS=? takes over the class of the running service.
HandleClassRead ==
    /\ Input("CLASS=?")
    /\ ctx.service_started
    /\ ctx' = [ctx EXCEPT !.device_class = svc.class]
    /\ UNCHANGED <<svc, cfm, events, at, arg, disp, joins, history>>

-----------------------------------------------------------------------------
(* The dispatcher: on_event() *)

Take(type) == disp = "idle" /\ events # <<>> /\ Head(events).type = type

\* Mutant: the join stays pending.
PendingJoinKept ==
    /\ Take("READY") \/ Take("STATE_READY")
    /\ disp' = IF ctx.join_pending THEN "class" ELSE "idle"
    /\ events' = Tail(events)
    /\ UNCHANGED <<ctx, svc, cfm, at, arg, joins, history, lines>>

\* READY, or the state READY: continue_pending_join() takes a pending join, once.
OnReady ==
    /\ Take("READY") \/ Take("STATE_READY")
    /\ disp' = IF ctx.join_pending THEN "class" ELSE "idle"
    /\ ctx' = [ctx EXCEPT !.join_pending = FALSE]
    /\ events' = Tail(events)
    /\ UNCHANGED <<svc, cfm, at, arg, joins, history, lines>>

\* apply_class(): only a class other than A, and only once the service is marked started.
ApplyClass ==
    /\ disp = "class"
    /\ IF ~ctx.service_started \/ ctx.device_class = "A"
       THEN disp' = "join" /\ UNCHANGED <<svc, events, begun, awaiting>>
       ELSE \E r \in rzi_lorawan_set_class(svc, ctx.device_class) :
               /\ Do(r)
               /\ disp' = IF r.rc = "OK" THEN "join" ELSE "idle"
               /\ awaiting' = IF r.rc = "OK" THEN awaiting ELSE "no"
    /\ UNCHANGED <<ctx, cfm, at, arg, asked, history, lines>>

\* The pending join begins, or +EVT:JOIN_FAILED_RX_TIMEOUT.
BeginPendingJoin ==
    /\ disp = "join"
    /\ \E r \in rzi_lorawan_join(svc) : Do(r) /\ awaiting' = IF r.rc = "OK" THEN awaiting ELSE "no"
    /\ disp' = "idle"
    /\ UNCHANGED <<ctx, cfm, at, arg, asked, history, lines>>

\* +EVT:JOINED
OnJoined ==
    /\ Take("JOINED")
    /\ svc' = [svc EXCEPT !.joining = FALSE]
    /\ awaiting' = "no"
    /\ events' = Tail(events)
    /\ UNCHANGED <<ctx, cfm, at, arg, disp, asked, begun, history, lines>>

\* Mutant: a retry is counted whatever is left.
JoinFailedCountsOn ==
    /\ Take("JOIN_FAILED")
    /\ svc' = [svc EXCEPT !.retries = IF @ > 0 THEN @ - 1 ELSE @]
    /\ events' = Tail(events)
    /\ UNCHANGED <<ctx, cfm, at, arg, disp, joins, history, lines>>

\* The service counts an attempt; after the last one it stops the modem, and the host is told.
OnJoinFailed ==
    /\ Take("JOIN_FAILED")
    /\ IF svc.joining /\ svc.retries > 0
       THEN /\ svc' = [svc EXCEPT !.retries = @ - 1]
            /\ events' = Tail(events)
            /\ UNCHANGED awaiting
       ELSE /\ svc' = [svc EXCEPT !.joining = FALSE,
                                  !.attempting = @ /\ ~(svc.joining /\ svc.ready /\ svc.tx = NoTx),
                                  !.joined = @ /\ ~(svc.joining /\ svc.ready /\ svc.tx = NoTx)]
            /\ events' = IF svc.joining THEN publish(Tail(events), StateReady) ELSE Tail(events)
            /\ awaiting' = "no"
    /\ UNCHANGED <<ctx, cfm, at, arg, disp, asked, begun, history, lines>>

\* The other states and errors say nothing to this package.
OnOther ==
    /\ Take("STATE_JOINING") \/ Take("ERROR")
    /\ events' = Tail(events)
    /\ UNCHANGED <<ctx, svc, cfm, at, arg, disp, joins, history, lines>>

TxEvent(confirmed, status) ==
    CASE ~confirmed \/ status = "SENT" -> "TX_DONE"
      [] status = "CONFIRMED" -> "SEND_CONFIRMED_OK"
      [] OTHER -> "SEND_CONFIRMED_FAILED"

\* The uplink event, by the mode noted for the last AT+SEND; AT+CFS keeps what was confirmed.
OnTxDone ==
    /\ Take("TXDONE")
    /\ LET e == Head(events)
       IN  /\ label' = [event |-> TxEvent(ctx.tx_confirmed, e.status), confirmed |-> e.confirmed,
                        status |-> e.status]
           /\ ctx' = [ctx EXCEPT !.confirmed_ok =
                         IF ~ctx.tx_confirmed \/ e.status = "SENT" THEN @ ELSE e.status = "CONFIRMED"]
    /\ events' = Tail(events)
    /\ UNCHANGED <<svc, cfm, at, arg, disp, joins, heard, read, lines, resets>>

\* +EVT:RX_1; the newest downlink is the one AT+RECV returns.
OnDownlink ==
    /\ Take("DOWNDATA")
    /\ heard' = heard + 1
    /\ ctx' = [ctx EXCEPT !.downlink = heard + 1]
    /\ events' = Tail(events)
    /\ UNCHANGED <<svc, cfm, at, arg, disp, joins, label, read, lines, resets>>

-----------------------------------------------------------------------------
(* The modem *)

Report(s, e) ==
    /\ svc' = s
    /\ events' = publish(events, e)
    /\ UNCHANGED <<ctx, cfm, at, arg, disp, asked, begun, label, heard, read, lines>>

\* The event of an awaited join is lost when it is dropped, or when a reset takes the attempt away.
CutOff(lost) == awaiting' = IF awaiting = "yes" /\ lost THEN "cut" ELSE awaiting

Full == Len(events) >= QueueSize

\* A modem that resets loses its session, its join, its uplink and its class; the backend
\* configures it again, and it stays unready when that fails.
ModemReset(ok) ==
    /\ svc.started /\ resets <= MaxResets
    /\ resets' = resets + 1
    /\ Report([svc EXCEPT !.ready = ok, !.attempting = FALSE, !.joined = FALSE, !.tx = NoTx,
                          !.class = "A"],
              IF ok THEN Ready ELSE Error)
    /\ CutOff(svc.attempting \/ (ctx.join_pending /\ (Full \/ ~ok)))

JoinAccept ==
    /\ svc.attempting
    /\ Report([svc EXCEPT !.attempting = FALSE, !.joined = TRUE], [type |-> "JOINED"])
    /\ CutOff(Full)
    /\ UNCHANGED resets

\* The modem goes on trying, so that a later failure is reported when this one is dropped.
JoinReject ==
    /\ svc.attempting
    /\ Report(svc, [type |-> "JOIN_FAILED"])
    /\ UNCHANGED <<awaiting, resets>>

TxEnd(status) ==
    /\ svc.tx # NoTx
    /\ status = "CONFIRMED" => svc.tx = "confirmed"
    /\ Report([svc EXCEPT !.tx = NoTx],
              [type |-> "TXDONE", confirmed |-> (svc.tx = "confirmed"), status |-> status])
    /\ UNCHANGED <<awaiting, resets>>

Downlink ==
    /\ svc.joined
    /\ heard + Cardinality({i \in DOMAIN events : events[i].type = "DOWNDATA"}) < MaxDownlinks
    /\ Report(svc, [type |-> "DOWNDATA"])
    /\ UNCHANGED <<awaiting, resets>>

-----------------------------------------------------------------------------
LwThread ==
    \/ \E auto_join \in BOOLEAN : ExtensionStart(auto_join)
    \/ JoinStart \/ ServiceStarted \/ JoinStop \/ Send
    \/ \E ok \in BOOLEAN : StartService(ok)

LwHost ==
    \/ HandleJoinRun \/ HandleJoinStart \/ HandleJoinStop \/ HandleRecv \/ HandleCfm
    \/ HandleClassRead
    \/ \E confirmed \in BOOLEAN : HandleSend(confirmed)
    \/ \E c \in Classes : HandleClass(c)

Dispatcher ==
    \/ OnReady \/ ApplyClass \/ BeginPendingJoin \/ OnJoined \/ OnJoinFailed \/ OnOther
    \/ OnTxDone \/ OnDownlink

\* What the modem was asked to do: start, join, send.
Modem ==
    \/ resets = 0 /\ \E ok \in BOOLEAN : ModemReset(ok)
    \/ JoinAccept \/ JoinReject
    \/ \E s \in {"CONFIRMED", "SENT", "NOT_SENT"} : TxEnd(s)

ModemResets == \E ok \in BOOLEAN : ModemReset(ok)

LwNext == LwThread \/ LwHost \/ Dispatcher \/ Modem \/ ModemResets \/ Downlink

LwSpec == LwInit /\ [][LwNext]_lw_vars

\* The threads run, the modem ends what it was asked to do.
LwFairSpec == LwSpec /\ WF_lw_vars(LwThread) /\ WF_lw_vars(Dispatcher) /\ WF_lw_vars(Modem)

-----------------------------------------------------------------------------
(* Properties *)

LwTypeOK ==
    /\ ctx.service_started \in BOOLEAN /\ ctx.join_pending \in BOOLEAN
    /\ ctx.device_class \in Classes /\ ctx.downlink \in 0..MaxDownlinks
    /\ svc.tx \in {NoTx, "confirmed", "unconfirmed"} /\ svc.retries \in 0..Attempts /\ svc.class \in Classes
    /\ at \in {"boot", "idle", "join_start", "started", "stop", "send"}
    /\ disp \in {"idle", "class", "join"}
    /\ lines \in 0..MaxLines /\ resets \in 0..(MaxResets + 1)
    /\ awaiting \in {"no", "yes", "cut"} /\ Len(events) <= QueueSize

\* A join that was asked for once begins at most once: neither the two events that report a
\* ready modem, nor the READY states after a failed, stopped or left session, begin another.
JoinsAreAskedFor == begun <= asked

\* A join that was accepted is followed by JOINED or JOIN_FAILED unless the host stops it,
\* however the start of the service, its events, resets and further commands interleave.  The
\* exceptions are the JOINED, or the READY a deferred join waits for, that found the queue full
\* or the modem unconfigured, and the attempt a reset took away: the service retries none of them.
JoinAnswered == awaiting = "yes" ~> awaiting # "yes"

\* Without the exceptions.
NoJoinCut == awaiting # "cut"

\* The event of an uplink is the one for its own confirmation mode, when the host waits for
\* it before it sends again: the mode is noted before the uplink can complete.
UplinkLabelled ==
    HostWaits => label.event \in {"none", TxEvent(label.confirmed, label.status)}

\* AT+RECV returns each downlink at most once, and never an older one after a newer one.
DownlinkReadOnce == \A x, y \in read : x[2] < y[2] => x[1] < y[1]

\* What the host is told belongs to what it asked for: the event of an uplink to that uplink,
\* a downlink read to the last one received.
HostAnswersMatch == LwTypeOK /\ UplinkLabelled /\ DownlinkReadOnce

\* at_lorawan_priv.h: tx_confirmed is the "Confirmation mode captured for the outstanding uplink."
OutstandingUplinkMode == (svc.tx # NoTx /\ at # "send") => svc.tx = Mode(ctx.tx_confirmed)

\* at_lorawan_priv.h: "Apply AT+CLASS after the LoRaWAN service has started."
ClassApplied ==
    (svc.joining /\ ~ctx.join_pending /\ disp = "idle" /\ at = "idle") => svc.class = ctx.device_class

\* at_lorawan_priv.h: join_pending "Defers the first join until backend readiness."
DeferredUntilReady == disp = "join" => svc.ready

\* doc/at-command-compatibility.md: AT+JOIN=0 "stops joining, cancels scheduled retries, and
\* aborts an attempt still waiting for Join-Accept."
StopStops == [][at = "stop" /\ at' = "idle" => disp' = "idle"]_lw_vars
=============================================================================
