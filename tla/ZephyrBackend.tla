--------------------------- MODULE ZephyrBackend ---------------------------
(***************************************************************************)
(* The Zephyr LoRaWAN backend (src/src/lorawan/backend/zephyr): the calls  *)
(* of the service, and the work queue on which the blocking lorawan_join() *)
(* and lorawan_send() run.  A section under the backend's mutex is one     *)
(* step.  The flags of a work item are those of Zephyr's kernel: an item   *)
(* whose handler is running can be queued or delayed again, but not while  *)
(* it is being cancelled.                                                  *)
(***************************************************************************)
EXTENDS Integers, Sequences, FiniteSets

CONSTANTS
    Threads,        \* threads that call the backend
    Clients,        \* what each thread of a behaviour calls: [Threads -> SUBSET Calls]
    Payloads,       \* application payloads
    Rates,          \* data rates the callers ask for
    Region,         \* the region in use
    NonceModulus,   \* 2^16: next_dev_nonce is a uint16_t
    ClockTries,     \* CLOCK_POLL_TRIES
    MaxCalls,       \* bound: calls of all threads
    MaxFails        \* bound: failed join attempts

Calls == {"join", "leave", "send", "class", "adr", "rate", "nonce", "clock"}
Work == {"join", "send", "clock"}
Flags == {"delayed", "queued", "running", "canceling"}
Classes == {"A", "C"}
Idle == "idle"

\* uplink_data_rate_mask()
uplink_data_rates(region) ==
    CASE region = "EU_868" -> 0..11
      [] region = "US_915" -> 0..6
      [] region = "IN_865" -> 0..5 \cup {7}
      [] region = "KR_920" -> 0..5
      [] OTHER -> 0..7

ASSUME ZephyrAssumption ==
    /\ Clients \subseteq [Threads -> SUBSET Calls] /\ Payloads # {}
    /\ Rates \subseteq 0..15 /\ NonceModulus \in Nat \ 0..2 /\ ClockTries \in Nat
    /\ MaxCalls \in Nat /\ MaxFails \in Nat

VARIABLES
    client,         \* the client of this behaviour
    started, joined, join_pending, join_stop, tx_pending,
    tx,             \* tx_data with tx_port and tx_type
    next_dev_nonce,
    device_class, adr_enabled, data_rate,
    clock_poll_left, fuota_services_started,
    work, queue,    \* the flags of the work items, and worker_q
    worker, result, \* the worker thread: its next step, and its local
    pc, arg,        \* a calling thread: its next step, and its local
    stack,          \* loramac-node: [session, class, adr, rate, frag, time]
    used,           \* DevNonces of the join requests since the last set_dev_nonce()
    orphaned,       \* the pending join has lost its work item: see JoinKeptUp
    accepted, done, \* uplinks accepted, TX_DONE events published
    calls, fails

flags == <<started, joined, join_pending, join_stop, tx_pending, tx>>
features == <<next_dev_nonce, device_class, adr_enabled, data_rate>>
fuota == <<clock_poll_left, fuota_services_started>>
kernel == <<work, queue, worker, result>>
caller == <<client, pc, arg, calls>>
history == <<used, orphaned, accepted, done, fails>>
vars == <<flags, features, fuota, kernel, caller, stack, history>>

Init ==
    /\ client \in Clients
    /\ started = FALSE /\ joined = FALSE /\ join_pending = FALSE /\ join_stop = FALSE
    /\ tx_pending = FALSE /\ tx \in Payloads
    /\ next_dev_nonce = 1 /\ device_class = "A" /\ adr_enabled = TRUE /\ data_rate = 0
    /\ clock_poll_left = 0 /\ fuota_services_started = FALSE
    /\ work = [w \in Work |-> {}] /\ queue = <<>> /\ worker = Idle /\ result = 0
    /\ pc = [t \in Threads |-> Idle] /\ arg = [t \in Threads |-> "A"]
    /\ stack = [session |-> FALSE, class |-> "A", adr |-> TRUE, rate |-> 0, frag |-> FALSE, time |-> FALSE]
    /\ used = {} /\ orphaned = FALSE /\ accepted = 0 /\ done = 0 /\ calls = 0 /\ fails = 0

-----------------------------------------------------------------------------
(* The kernel's work queue *)

\* k_work_schedule_for_queue(): nothing happens unless the item is idle or only running.
Schedule(w, flag) ==
    IF work[w] \subseteq {"running"}
    THEN /\ work' = [work EXCEPT ![w] = @ \cup {flag}]
         /\ queue' = IF flag = "queued" THEN Append(queue, w) ELSE queue
    ELSE UNCHANGED <<work, queue>>

\* An item that is cancelled leaves the queue.
Without(s, k) == SubSeq(s, 1, k - 1) \o SubSeq(s, k + 1, Len(s))
Unqueued(w) ==
    IF \E i \in 1..Len(queue) : queue[i] = w
    THEN Without(queue, CHOOSE i \in 1..Len(queue) : queue[i] = w)
    ELSE queue

\* The delay of an item is over.
Expire(w) ==
    /\ "delayed" \in work[w]
    /\ work' = [work EXCEPT ![w] = (@ \ {"delayed"}) \cup {"queued"}]
    /\ queue' = Append(queue, w)
    /\ UNCHANGED <<flags, features, fuota, worker, result, caller, stack, history>>

\* The worker takes the next item.
Take ==
    /\ worker = Idle /\ queue # <<>>
    /\ work' = [work EXCEPT ![Head(queue)] = (@ \ {"queued"}) \cup {"running"}]
    /\ queue' = Tail(queue)
    /\ worker' = [join |-> "join_start", send |-> "send_start", clock |-> "clock_poll"][Head(queue)]
    /\ UNCHANGED <<flags, features, fuota, result, caller, stack, history>>

\* A handler has returned: its item is no longer running, nor being cancelled.
Return ==
    /\ worker = "return"
    /\ work' = [w \in Work |-> work[w] \ {"running", "canceling"}]
    /\ worker' = Idle /\ result' = 0
    /\ UNCHANGED <<flags, features, fuota, queue, caller, stack, history>>

-----------------------------------------------------------------------------
(* The calls of the service *)

InJoin == worker \in {"join_start", "joining", "join_end"}

Begin(t, op) == op \in client[t] /\ pc[t] = Idle /\ calls < MaxCalls /\ calls' = calls + 1 /\ UNCHANGED client
Stay == UNCHANGED <<pc, arg>>

\* zephyr_start(), once; each of its steps may fail and then nothing is started.
zephyr_start ==
    /\ ~started
    /\ started' = TRUE /\ joined' = FALSE
    /\ UNCHANGED <<join_pending, join_stop, tx_pending, tx, features, fuota, kernel, caller, stack, history>>

\* zephyr_join(): refused while a join or an uplink is under way, or if the stack refuses the
\* mask.  While a handler that was cancelled has not returned, nothing is scheduled.
zephyr_join(t) ==
    /\ Begin(t, "join") /\ Stay
    /\ started /\ ~join_pending /\ ~tx_pending
    /\ join_pending' = TRUE /\ join_stop' = FALSE
    /\ Schedule("join", "queued")
    /\ orphaned' = ("canceling" \in work["join"])
    /\ UNCHANGED <<started, joined, tx_pending, tx, features, fuota, worker, result, stack,
                   used, accepted, done, fails>>

\* zephyr_leave(): only a join can be left; one that is running goes on to its end.
zephyr_leave(t) ==
    /\ Begin(t, "leave") /\ Stay
    /\ join_pending
    /\ join_stop' = TRUE
    /\ LET busy == "running" \in work["join"]       \* what k_work_cancel_delayable() returns
       IN  /\ join_pending' = busy
           /\ work' = [work EXCEPT !["join"] = IF busy THEN {"running", "canceling"} ELSE {}]
           /\ orphaned' = (busy /\ ~InJoin)
    /\ queue' = Unqueued("join")
    /\ UNCHANGED <<started, joined, tx_pending, tx, features, fuota, worker, result, stack,
                   used, accepted, done, fails>>

\* zephyr_send(): the uplink is taken under the mutex ...
zephyr_send(t, p) ==
    /\ Begin(t, "send") /\ started /\ joined /\ ~join_pending /\ ~tx_pending
    /\ tx' = p /\ tx_pending' = TRUE /\ accepted' = accepted + 1
    /\ pc' = [pc EXCEPT ![t] = "submit"] /\ UNCHANGED arg
    /\ UNCHANGED <<started, joined, join_pending, join_stop, features, fuota, kernel, stack, used, orphaned, done, fails>>

\* Mutant: an item whose handler is still running is not queued again.
SubmitIfIdle(t) ==
    /\ pc[t] = "submit" /\ pc' = [pc EXCEPT ![t] = Idle]
    /\ IF work["send"] = {} THEN Schedule("send", "queued") ELSE UNCHANGED <<work, queue>>
    /\ UNCHANGED <<flags, features, fuota, worker, result, client, arg, calls, stack, history>>

\* ... and its work item submitted after it.
Submit(t) ==
    /\ pc[t] = "submit" /\ pc' = [pc EXCEPT ![t] = Idle]
    /\ Schedule("send", "queued")
    /\ UNCHANGED <<flags, features, fuota, worker, result, client, arg, calls, stack, history>>

\* zephyr_set_class(): the stack first ...
zephyr_set_class(t, c) ==
    /\ Begin(t, "class") /\ started
    /\ stack' = [stack EXCEPT !.class = c]
    /\ pc' = [pc EXCEPT ![t] = "note_class"] /\ arg' = [arg EXCEPT ![t] = c]
    /\ UNCHANGED <<flags, features, fuota, kernel, history>>

\* ... then its copy, under no lock.
NoteClass(t) ==
    /\ pc[t] = "note_class" /\ pc' = [pc EXCEPT ![t] = Idle]
    /\ device_class' = arg[t]
    /\ UNCHANGED <<flags, next_dev_nonce, adr_enabled, data_rate, fuota, kernel, client, arg, calls, stack, history>>

zephyr_set_adr(t, on) ==
    /\ Begin(t, "adr") /\ Stay /\ started
    /\ stack' = [stack EXCEPT !.adr = on] /\ adr_enabled' = on
    /\ UNCHANGED <<flags, next_dev_nonce, device_class, data_rate, fuota, kernel, history>>

\* zephyr_set_data_rate(), of a rate of zephyr_get_enabled_data_rates(); refused under ADR.
zephyr_set_data_rate(t, r) ==
    /\ Begin(t, "rate") /\ Stay /\ started
    /\ r \in uplink_data_rates(Region) /\ ~stack.adr
    /\ stack' = [stack EXCEPT !.rate = r] /\ data_rate' = r
    /\ UNCHANGED <<flags, next_dev_nonce, device_class, adr_enabled, fuota, kernel, history>>

\* zephyr_set_dev_nonce(): zero counts as one.
zephyr_set_dev_nonce(t, n) ==
    /\ Begin(t, "nonce") /\ Stay /\ started
    /\ next_dev_nonce' = IF n = 0 THEN 1 ELSE n
    /\ used' = {}
    /\ UNCHANGED <<flags, device_class, adr_enabled, data_rate, fuota, kernel, stack, orphaned, accepted, done, fails>>

\* zephyr_fuota_start_clock_sync(): the clock is polled if its service runs, and the transport
\* is started by the first call, whether it starts or not.
zephyr_fuota_start_clock_sync(t, clock, frag) ==
    /\ Begin(t, "clock") /\ Stay /\ started
    /\ IF clock THEN clock_poll_left' = ClockTries /\ Schedule("clock", "queued")
                ELSE UNCHANGED <<clock_poll_left, work, queue>>
    /\ fuota_services_started' = TRUE
    /\ stack' = [stack EXCEPT !.frag = @ \/ (frag /\ ~fuota_services_started)]
    /\ UNCHANGED <<flags, features, worker, result, history>>

-----------------------------------------------------------------------------
(* The handlers on the worker thread *)

\* Mutant: every join request of a sequence has the same DevNonce.
FillJoinKeepsNonce(otaa) ==
    /\ result' = IF otaa THEN next_dev_nonce ELSE -1
    /\ used' = IF otaa THEN used \cup {next_dev_nonce} ELSE used
    /\ UNCHANGED next_dev_nonce

\* fill_zephyr_join(): an OTAA request takes the next DevNonce (build_config() gives the join
\* settings none of their own).
fill_zephyr_join(otaa) ==
    /\ result' = IF otaa THEN next_dev_nonce ELSE -1
    /\ used' = IF otaa THEN used \cup {next_dev_nonce} ELSE used
    /\ next_dev_nonce' = IF otaa THEN (next_dev_nonce + 1) % NonceModulus ELSE next_dev_nonce

\* join_work_handler(): a join that was stopped does not begin ...
JoinStopped ==
    /\ worker = "join_start" /\ join_stop
    /\ join_pending' = FALSE /\ worker' = "return"
    /\ UNCHANGED <<started, joined, join_stop, tx_pending, tx, features, fuota, work, queue, result,
                   caller, stack, history>>

\* ... another calls lorawan_join(), which drops the session ...
JoinStart(otaa) ==
    /\ worker = "join_start" /\ ~join_stop
    /\ fill_zephyr_join(otaa)
    /\ stack' = [stack EXCEPT !.session = FALSE]
    /\ worker' = "joining"
    /\ UNCHANGED <<flags, device_class, adr_enabled, data_rate, fuota, work, queue, caller,
                   orphaned, accepted, done, fails>>

\* ... and blocks until it has joined or failed ...
Joining(ok) ==
    /\ worker = "joining" /\ (~ok => fails < MaxFails)
    /\ stack' = [stack EXCEPT !.session = ok]
    /\ fails' = IF ok THEN fails ELSE fails + 1
    /\ worker' = "join_end" /\ result' = IF ok THEN 0 ELSE -1
    /\ UNCHANGED <<flags, features, fuota, work, queue, caller, used, orphaned, accepted, done>>

\* Mutant: the next attempt is left to the service.
JoinEndNoRetry ==
    /\ worker = "join_end"
    /\ joined' = (result = 0)
    /\ join_pending' = (join_pending /\ result # 0 /\ ~join_stop)
    /\ worker' = IF join_stop /\ result # 0 THEN "return" ELSE "join_publish"
    /\ UNCHANGED <<started, join_stop, tx_pending, tx, features, fuota, work, queue, result, caller, stack, history>>

\* ... after which the next attempt is scheduled, unless the device has joined or left ...
JoinEnd ==
    /\ worker = "join_end"
    /\ joined' = (result = 0)
    /\ IF result = 0 \/ join_stop
       THEN join_pending' = FALSE /\ UNCHANGED <<work, queue>>
       ELSE Schedule("join", "delayed") /\ UNCHANGED join_pending
    /\ worker' = IF join_stop /\ result # 0 THEN "return" ELSE "join_publish"
    /\ UNCHANGED <<started, join_stop, tx_pending, tx, features, fuota, result, caller, stack, history>>

\* ... and JOINED or JOIN_FAILED is published.
JoinPublish ==
    /\ worker = "join_publish" /\ worker' = "return"
    /\ UNCHANGED <<flags, features, fuota, work, queue, result, caller, stack, history>>

\* send_work_handler(): the uplink is copied under the mutex and sent ...
SendStart ==
    /\ worker = "send_start" /\ worker' = "sending" /\ result' = tx
    /\ UNCHANGED <<flags, features, fuota, work, queue, caller, stack, history>>

Sending ==
    /\ worker = "sending" /\ worker' = "send_end"
    /\ UNCHANGED <<flags, features, fuota, work, queue, result, caller, stack, history>>

\* Mutant: the uplink stays pending.
SendEndKeeps ==
    /\ worker = "send_end" /\ worker' = "send_publish"
    /\ UNCHANGED <<flags, features, fuota, work, queue, result, caller, stack, history>>

\* ... the backend takes uplinks again ...
SendEnd ==
    /\ worker = "send_end" /\ worker' = "send_publish"
    /\ tx_pending' = FALSE
    /\ UNCHANGED <<started, joined, join_pending, join_stop, tx, features, fuota, work, queue, result,
                   caller, stack, history>>

\* ... and TX_DONE is published.
SendPublish ==
    /\ worker = "send_publish" /\ worker' = "return"
    /\ done' = done + 1
    /\ UNCHANGED <<flags, features, fuota, work, queue, result, caller, stack, used, orphaned, accepted, fails>>

\* clock_poll_handler(): CLOCK_SYNCED, or the next of the tries.
ClockPoll ==
    /\ worker = "clock_poll" /\ worker' = "return"
    /\ IF ~stack.time /\ clock_poll_left > 0
       THEN clock_poll_left' = clock_poll_left - 1 /\ Schedule("clock", "delayed")
       ELSE UNCHANGED <<clock_poll_left, work, queue>>
    /\ UNCHANGED <<flags, features, fuota_services_started, result, caller, stack, history>>

-----------------------------------------------------------------------------
(* The network: a LinkADRReq and the time *)

LinkAdr(r) ==
    /\ stack.session /\ stack.adr /\ r \in uplink_data_rates(Region)
    /\ stack' = [stack EXCEPT !.rate = r]
    /\ UNCHANGED <<flags, features, fuota, kernel, caller, history>>

TimeAnswer ==
    /\ stack.session /\ ~stack.time
    /\ stack' = [stack EXCEPT !.time = TRUE]
    /\ UNCHANGED <<flags, features, fuota, kernel, caller, history>>

WorkerStep ==
    \/ Take \/ Return \/ JoinStopped \/ JoinEnd \/ JoinPublish
    \/ \E otaa \in BOOLEAN : JoinStart(otaa)
    \/ \E ok \in BOOLEAN : Joining(ok)
    \/ SendStart \/ Sending \/ SendEnd \/ SendPublish \/ ClockPoll

Next ==
    \/ zephyr_start
    \/ \E t \in Threads :
          \/ zephyr_join(t) \/ zephyr_leave(t) \/ Submit(t) \/ NoteClass(t)
          \/ \E p \in Payloads : zephyr_send(t, p)
          \/ \E c \in Classes : zephyr_set_class(t, c)
          \/ \E on \in BOOLEAN : zephyr_set_adr(t, on)
          \/ \E r \in Rates : zephyr_set_data_rate(t, r)
          \/ \E n \in {0, 2} : zephyr_set_dev_nonce(t, n)
          \/ \E clock, frag \in BOOLEAN : zephyr_fuota_start_clock_sync(t, clock, frag)
    \/ \E w \in Work : Expire(w)
    \/ WorkerStep
    \/ \E r \in Rates : LinkAdr(r)
    \/ TimeAnswer

Spec == Init /\ [][Next]_vars

\* The worker runs, delays end, the stack's blocking calls return and a thread in a call goes on.
Fairness ==
    /\ WF_vars(WorkerStep)
    /\ \A w \in Work : WF_vars(Expire(w))
    /\ \A t \in Threads : WF_vars(Submit(t))

FairSpec == Spec /\ Fairness

-----------------------------------------------------------------------------
(* Properties *)

InSend == worker \in {"send_start", "sending", "send_end"}

\* The types; the data rate in use is one of the region's.
TypeOK ==
    /\ \A b \in {started, joined, join_pending, join_stop, tx_pending, adr_enabled} : b \in BOOLEAN
    /\ tx \in Payloads /\ next_dev_nonce \in 0..(NonceModulus - 1)
    /\ device_class \in Classes /\ data_rate \in uplink_data_rates(Region)
    /\ clock_poll_left \in 0..ClockTries
    /\ work \in [Work -> SUBSET Flags] /\ queue \in Seq(Work)

\* An accepted uplink has one owner until it completes: a thread that has still to submit it,
\* the work queue, or the handler, which sends the payload that was accepted; and every uplink
\* gets one TX_DONE.
TxOwned ==
    /\ Cardinality({t \in Threads : pc[t] = "submit"})
         + (IF "queued" \in work["send"] THEN 1 ELSE 0) + (IF InSend THEN 1 ELSE 0)
       = (IF tx_pending THEN 1 ELSE 0)
    /\ worker \in {"sending", "send_end"} => result = tx
    /\ accepted = done + (IF tx_pending THEN 1 ELSE 0) + (IF worker = "send_publish" THEN 1 ELSE 0)

\* An uplink is sent on a session: between its acceptance and its completion no join, not even
\* one that was stopped, touches the stack; without a join, joined is what the stack says.
SendHasSession ==
    /\ tx_pending => stack.session /\ ~InJoin
    /\ (~join_pending /\ ~InJoin) => joined = stack.session

\* A pending join is kept up: it waits for its next attempt, makes it, or has lost its work
\* item in one of two ways.  leave() found the handler between the section in which it had
\* scheduled the next attempt and its return, took that attempt back and left join_pending
\* set; or the join was accepted while a handler that leave() had cancelled was still
\* returning, so that k_work_schedule_for_queue() did nothing.
JoinKeptUp == join_pending => (work["join"] \cap {"delayed", "queued"} # {} \/ InJoin \/ orphaned)

\* The backend's flags, its work items and the stack fit together at every step: an uplink has
\* one owner and a session, and a pending join has somebody working on it but for the two
\* ways of JoinKeptUp.
BackendConsistent == TypeOK /\ TxOwned /\ SendHasSession /\ JoinKeptUp

\* No DevNonce is used for two join requests, retries included, unless the application set it
\* back.
NonceFresh == [][worker' = "joining" /\ result' # -1 => result' \notin used]_worker

\* An accepted uplink completes.
TxCompletes == tx_pending ~> ~tx_pending

\* A join ends: the network answers after MaxFails failures at the latest, or the join is left;
\* one that lost its work item (JoinKeptUp) stays pending until leave() is called again.
JoinEnds == (join_pending /\ ~orphaned) ~> (~join_pending \/ orphaned)

\* The clock is not polled for ever.
ClockPollEnds == (work["clock"] # {}) ~> (work["clock"] = {})

\* Nothing the worker retries is retried for ever: a join ends and so does the clock poll.
RetriesEnd == JoinEnds /\ ClockPollEnds

\* lorawan_backend.h:153, leave(): "Leave or cancel the active network session.": a join that
\* was left is over once its handler has returned, so that the next join is not refused.
LeaveCancels == (join_pending /\ join_stop) => "running" \in work["join"]

\* lorawan_backend.h:142: "join() starts a sequence the backend keeps retrying, ... until JOINED
\* or leave().": an accepted join that nobody has left is attempted.
AcceptedJoinRuns ==
    (join_pending /\ ~join_stop) => (work["join"] \cap {"delayed", "queued"} # {} \/ InJoin)

\* lorawan_backend_zephyr.c:598: "A running lorawan_join() cannot be aborted; its result is
\* dropped.": JOINED is not published for a join that was left.
ResultDropped == worker = "join_publish" /\ result = 0 => ~join_stop

\* lorawan.h:1213, rzi_lorawan_get_data_rate(): "Read the current uplink data rate."
RateIsCurrent == joined => data_rate = stack.rate

\* fuota_services_started says that the fragmentation transport runs; no later start tries it
\* again.
FragRuns == fuota_services_started => stack.frag
=============================================================================
