------------------------------- MODULE LoraP2p -------------------------------
(***************************************************************************)
(* The raw LoRa service (src/src/lora/lora.c) on the USP backend           *)
(* (src/src/lora/backend/lora_backend_usp.c): P2P send and receive as      *)
(* transactions of the radio access controller (RAC), the LoRa Basics      *)
(* Modem test mode, and the completions that rzi_lora_poll() delivers.     *)
(*                                                                         *)
(* A section under the USP lock is one step: RAC callbacks also run under  *)
(* it.  smtc_rac_abort_radio_submit() runs the callback of the transaction *)
(* before it returns, which is what usp_stop() and usp_receive() build on. *)
(***************************************************************************)
EXTENDS Integers, Sequences

CONSTANTS
    Threads,        \* threads that call the API
    Ops,            \* the calls each of them makes
    Configs,        \* configurations passed to rzi_lora_set_config()
    Tables,         \* callback tables passed to rzi_lora_register_callbacks()
    QueueDepth,     \* entries of rx_queue, 2 in the code
    MaxCalls,       \* bound: API calls, polls not counted
    MaxPackets      \* bound: packets the radio receives

AllOps == {"init", "stop", "set_config", "register", "send", "receive", "test", "test_rx", "poll"}
Timeouts == {"stop", "timed", "continuous"}     \* 0, 65535 and what lies between
NoTask == "no task"
NoTable == "NULL"   \* a table with NULL function pointers
NoOne == "no thread"

ASSUME P2pAssumption ==
    /\ Ops \in [Threads -> SUBSET AllOps]
    /\ Configs # {} /\ NoTask \notin Configs
    /\ Tables # {}
    /\ QueueDepth \in Nat \ {0}
    /\ MaxCalls \in Nat /\ MaxPackets \in Nat
    /\ NoOne \notin Threads

VARIABLES
    \* lora.c
    lock,           \* holder of the service mutex
    started,        \* atomic_t started
    rx_flag,        \* atomic_t rx_active of lora.c
    config,         \* the service's configuration
    callbacks,      \* the registered table
    \* lora_backend_usp.c
    usp,            \* what the USP lock protects, with tx_done and tx_error
    rx_queue,       \* k_msgq rx_queue
    \* threads
    pc, arg,
    \* what clients have seen
    calls,          \* API calls made
    sends,          \* sends accepted so far; the n-th one is send n
    reports,        \* tx_done callbacks delivered
    excused,        \* sends whose completion stop() discarded, or nobody had registered for
    covered,        \* sends whose completion a later one overwrote before a poll had read it
    repeated,       \* sends that completed while a poll was about to read an earlier completion
    heard,          \* packets the radio has received
    delivered,      \* rx_done callbacks delivered
    purged,         \* packets stop() discarded
    later           \* what calls have put on the radio since the last stop() emptied it

vars == <<lock, started, rx_flag, config, callbacks, usp, rx_queue, pc, arg,
          calls, sends, reports, excused, covered, repeated, heard, delivered, purged, later>>

\* The clients' history, untouched by most steps.
tx_history == <<sends, reports, excused, covered, repeated>>
rx_history == <<heard, delivered, purged, later>>

-----------------------------------------------------------------------------
(* Sections under the USP lock, as functions of the protected state s.     *)

\* Mutant: a preempted transmission ends without a completion.
OnTxDoneSilentAbort(s, error) ==
    [s EXCEPT !.tx = 0, !.tx_busy = FALSE, !.tx_done = @ \/ error # "busy",
              !.tx_error = [send |-> s.tx, error |-> error]]

\* The radio has finished the transmission in flight.
on_tx_done(s, error) ==
    [s EXCEPT !.tx = 0, !.tx_busy = FALSE, !.tx_done = TRUE,
              !.tx_error = [send |-> s.tx, error |-> error]]

AbortTx(s) == IF s.tx = 0 THEN s ELSE on_tx_done(s, "busy")

\* on_rx_done() returns at once: both callers have cleared rx_active.
AbortRx(s) == [s EXCEPT !.rx = NoTask]

\* Both ids are open, with their buffers and callbacks; a second call changes nothing.
open_radio(s) == [s EXCEPT !.opened = TRUE]

abort_p2p(s) ==
    LET idle == [s EXCEPT !.rx_active = FALSE]
    IN  IF s.opened THEN AbortTx(AbortRx(idle)) ELSE idle

\* Mutant: test mode starts beside the P2P transactions.
EnterTestModeNoAbort(s, ok) == IF s.test_mode THEN s ELSE [s EXCEPT !.test_mode = ok]

\* ok: what smtc_modem_test_start() and smtc_modem_test_stop() answer.
enter_test_mode(s, ok) ==
    IF s.test_mode THEN s ELSE [abort_p2p(s) EXCEPT !.test_mode = ok]

leave_test_mode(s, ok) == [s EXCEPT !.test_mode = @ /\ ~ok]

\* The RAC takes a transaction unless the id is not open or already has one, or an error of its own.
submit(s, free, ok) == ok /\ s.opened /\ free

\* Mutant: the remaining time is not looked at.
SubmitRxNoDeadline(s, ok) ==
    LET accepted == submit(s, s.rx = NoTask, ok)
    IN  [s EXCEPT !.rx_active = accepted, !.rx = IF accepted THEN s.config ELSE @,
              !.window = IF accepted THEN 1 - @ ELSE @]

\* window tells a window from the one before it, so that resubmitting is a step.
submit_rx_window(s, ok) ==
    LET accepted == /\ s.rx_continuous \/ ~s.expired
                    /\ submit(s, s.rx = NoTask, ok)
    IN  [s EXCEPT !.rx_active = accepted, !.rx = IF accepted THEN s.config ELSE @,
              !.window = IF accepted THEN 1 - @ ELSE @]

\* A timed receive ends with its first packet or its timeout; a window cut short
\* by higher-priority radio use resumes.
on_rx_done(s, status, ok) ==
    LET done == [s EXCEPT !.rx = NoTask]
    IN  IF ~s.rx_active THEN done
        ELSE IF s.rx_continuous \/ status = "aborted" THEN submit_rx_window(done, ok)
        ELSE [done EXCEPT !.rx_active = FALSE]

usp_stop(s, left) == leave_test_mode([abort_p2p(s) EXCEPT !.tx_busy = FALSE], left)

usp_send(s, frame, left, ok) ==
    LET p2p == leave_test_mode(s, left)
        accepted == submit(s, s.tx = 0, ok)
    IN  IF p2p.test_mode \/ p2p.tx_busy THEN p2p
        ELSE [p2p EXCEPT !.tx_buffer = frame, !.tx_busy = accepted,
                         !.tx = IF accepted THEN frame ELSE @]

usp_receive(s, timeout, left, ok) ==
    LET idle == AbortRx([s EXCEPT !.rx_active = FALSE])
        p2p == leave_test_mode(idle, left)
    IN  IF timeout = "stop" THEN idle
        ELSE IF p2p.test_mode THEN p2p
        ELSE submit_rx_window([p2p EXCEPT !.rx_continuous = (timeout = "continuous"),
                                          !.expired = FALSE], ok)

-----------------------------------------------------------------------------
Init ==
    /\ lock = NoOne
    /\ started = FALSE
    /\ rx_flag = FALSE
    /\ config \in Configs
    /\ callbacks \in Tables
    /\ usp = [opened |-> FALSE, config |-> config, test_mode |-> FALSE,
              tx_busy |-> FALSE, tx_buffer |-> 0, tx |-> 0,
              tx_done |-> FALSE, tx_error |-> [send |-> 0, error |-> "none"],
              rx_active |-> FALSE, rx_continuous |-> FALSE, expired |-> FALSE, rx |-> NoTask,
              window |-> 0]
    /\ rx_queue = <<>>
    /\ pc = [t \in Threads |-> "idle"]
    /\ arg = [t \in Threads |-> NoTask]
    /\ calls = 0
    /\ sends = 0
    /\ reports = <<>>
    /\ excused = {} /\ covered = {} /\ repeated = {}
    /\ heard = 0
    /\ delivered = <<>>
    /\ purged = {}
    /\ later = {}

\* Thread t, between two calls, calls op.
Call(t, op) ==
    /\ pc[t] = "idle"
    /\ op \in Ops[t]
    /\ calls < MaxCalls
    /\ calls' = calls + 1

\* Thread t goes to step next with the local value v.
Goto(t, next, v) ==
    /\ pc' = [pc EXCEPT ![t] = next]
    /\ arg' = [arg EXCEPT ![t] = v]

Stay == UNCHANGED <<pc, arg>>
Return(t) == Goto(t, "idle", NoTask)

\* rzi_lora_init(): the radio opens, or the call fails with the mutex released.
InitStart(t) ==
    /\ Call(t, "init")
    /\ lock = NoOne
    /\ \/ /\ usp' = open_radio(usp)
          /\ started' = TRUE
          /\ lock' = t
          /\ Goto(t, "apply", NoTask)
       \/ /\ ~usp.opened
          /\ Stay
          /\ UNCHANGED <<usp, started, lock>>
    /\ UNCHANGED <<rx_flag, config, callbacks, rx_queue, tx_history, rx_history>>

\* rzi_lora_set_config() stores the configuration; a started backend gets it next.
SetConfig(t) ==
    /\ Call(t, "set_config")
    /\ lock = NoOne
    /\ config' \in Configs
    /\ IF started THEN lock' = t /\ Goto(t, "apply", NoTask) ELSE UNCHANGED lock /\ Stay
    /\ UNCHANGED <<started, rx_flag, callbacks, usp, rx_queue, tx_history, rx_history>>

\* usp_apply(), then init and set_config release the mutex.
Apply(t) ==
    /\ pc[t] = "apply"
    /\ usp' = [usp EXCEPT !.config = config]
    /\ lock' = NoOne
    /\ Return(t)
    /\ UNCHANGED <<started, rx_flag, config, callbacks, rx_queue, calls, tx_history, rx_history>>

Register(t) ==
    /\ Call(t, "register")
    /\ lock = NoOne
    /\ callbacks' \in Tables
    /\ Stay
    /\ UNCHANGED <<lock, started, rx_flag, config, usp, rx_queue, tx_history, rx_history>>

\* rzi_lora_send() looks at started without the mutex ...
SendCheck(t) ==
    /\ Call(t, "send")
    /\ started
    /\ Goto(t, "cipher", NoTask)
    /\ UNCHANGED <<lock, started, rx_flag, config, callbacks, usp, rx_queue, tx_history, rx_history>>

\* ... enciphers the frame under it ...
SendCipher(t) ==
    /\ pc[t] = "cipher"
    /\ lock = NoOne
    /\ Goto(t, "submit", NoTask)
    /\ UNCHANGED <<lock, started, rx_flag, config, callbacks, usp, rx_queue, calls, tx_history,
                   rx_history>>

\* ... and hands it to the backend without it.
SendSubmit(t) ==
    /\ pc[t] = "submit"
    /\ \E left, ok \in BOOLEAN : usp' = usp_send(usp, sends + 1, left, ok)
    /\ sends' = IF usp'.tx = sends + 1 THEN sends + 1 ELSE sends
    /\ later' = IF usp'.tx = sends + 1 THEN later \cup {"tx"} ELSE later
    /\ Return(t)
    /\ UNCHANGED <<lock, started, rx_flag, config, callbacks, rx_queue, calls, reports, excused,
                   covered, repeated, heard, delivered, purged>>

\* rzi_lora_receive(): the check, the backend's section, the service's own flag.
ReceiveCheck(t) ==
    /\ Call(t, "receive")
    /\ started
    /\ \E timeout \in Timeouts : Goto(t, "receive", timeout)
    /\ UNCHANGED <<lock, started, rx_flag, config, callbacks, usp, rx_queue, tx_history, rx_history>>

ReceiveRadio(t) ==
    /\ pc[t] = "receive"
    /\ \E left, ok \in BOOLEAN : usp' = usp_receive(usp, arg[t], left, ok)
    /\ later' = IF usp'.rx_active THEN later \cup {"rx"} ELSE later
    /\ IF arg[t] = "stop" \/ usp'.rx_active THEN Goto(t, "flag", arg[t]) ELSE Return(t)
    /\ UNCHANGED <<lock, started, rx_flag, config, callbacks, rx_queue, calls, tx_history, heard,
                   delivered, purged>>

ReceiveFlag(t) ==
    /\ pc[t] = "flag"
    /\ rx_flag' = (arg[t] # "stop")
    /\ Return(t)
    /\ UNCHANGED <<lock, started, config, callbacks, usp, rx_queue, calls, tx_history, rx_history>>

\* A transmission that ends now overwrites the completion the one before it left, whether it
\* waits in tx_done or a poll has taken it and is about to read its error.
Overwrite ==
    LET ends == usp.tx # 0 /\ usp'.tx # usp.tx
        reading == \E t \in Threads : pc[t] = "error"
    IN  /\ covered' = covered \cup {n \in {usp.tx_error.send} : ends /\ (usp.tx_done \/ reading)}
        /\ repeated' = repeated \cup {n \in {usp.tx} : ends /\ reading}
        /\ UNCHANGED <<sends, reports, excused>>

\* rzi_lora_stop() takes the mutex; usp_stop() cancels what is in flight under the USP lock ...
StopAbort(t) ==
    /\ Call(t, "stop")
    /\ lock = NoOne
    /\ lock' = t
    /\ \E left \in BOOLEAN : usp' = usp_stop(usp, left)
    /\ Overwrite
    /\ later' = {}
    /\ Goto(t, "clear", ~usp'.test_mode)
    /\ UNCHANGED <<started, rx_flag, config, callbacks, rx_queue, heard, delivered, purged>>

\* Mutant: the completion of the cancelled transmission is left for a later poll.
StopKeepsCompletion(t) ==
    /\ pc[t] = "clear"
    /\ Goto(t, "purge", arg[t])
    /\ UNCHANGED <<lock, started, rx_flag, config, callbacks, usp, rx_queue, calls, tx_history,
                   rx_history>>

\* ... and discards the completion and the packets after releasing it.
StopClear(t) ==
    /\ pc[t] = "clear"
    /\ usp' = [usp EXCEPT !.tx_done = FALSE]
    /\ excused' = excused \cup IF usp.tx_done THEN {usp.tx_error.send} ELSE {}
    /\ Goto(t, "purge", arg[t])
    /\ UNCHANGED <<lock, started, rx_flag, config, callbacks, rx_queue, calls, sends, reports,
                   covered, repeated, rx_history>>

StopPurge(t) ==
    /\ pc[t] = "purge"
    /\ rx_queue' = <<>>
    /\ purged' = purged \cup {rx_queue[i].packet : i \in DOMAIN rx_queue}
    /\ Goto(t, "stopped", arg[t])
    /\ UNCHANGED <<lock, started, rx_flag, config, callbacks, usp, calls, tx_history, heard,
                   delivered, later>>

\* A modem that does not leave test mode keeps the service started.
StopEnd(t) ==
    /\ pc[t] = "stopped"
    /\ started' = (started /\ ~arg[t])
    /\ rx_flag' = (rx_flag /\ ~arg[t])
    /\ lock' = NoOne
    /\ Return(t)
    /\ UNCHANGED <<config, callbacks, usp, rx_queue, calls, tx_history, rx_history>>

\* rzi_lora_test_rssi(), _tone(), _cw() and _tx() enter test mode; none looks at started.
TestRun(t) ==
    /\ Call(t, "test")
    /\ \E ok \in BOOLEAN : usp' = enter_test_mode(usp, ok)
    /\ Overwrite
    /\ Stay
    /\ UNCHANGED <<lock, started, rx_flag, config, callbacks, rx_queue, rx_history>>

\* rzi_lora_test_rx() is a continuous receive that the service's flag does not show.
TestReceive(t) ==
    /\ Call(t, "test_rx")
    /\ \E left, ok \in BOOLEAN : usp' = usp_receive(usp, "continuous", left, ok)
    /\ later' = IF usp'.rx_active THEN later \cup {"rx"} ELSE later
    /\ Stay
    /\ UNCHANGED <<lock, started, rx_flag, config, callbacks, rx_queue, tx_history, heard, delivered,
                   purged>>

\* Mutant: the completion is read and not taken.
PollPeek(t) ==
    /\ pc[t] = "idle" /\ "poll" \in Ops[t]
    /\ Goto(t, IF usp.tx_done THEN "error" ELSE "drain", NoTask)
    /\ UNCHANGED <<lock, started, rx_flag, config, callbacks, usp, rx_queue, calls, tx_history,
                   rx_history>>

\* usp_poll() takes the completion, then reads its error ...
PollTake(t) ==
    /\ pc[t] = "idle" /\ "poll" \in Ops[t]
    /\ usp' = [usp EXCEPT !.tx_done = FALSE]
    /\ Goto(t, IF usp.tx_done THEN "error" ELSE "drain", NoTask)
    /\ UNCHANGED <<lock, started, rx_flag, config, callbacks, rx_queue, calls, tx_history, rx_history>>

\* ... loads the callback ...
PollError(t) ==
    /\ pc[t] = "error"
    /\ IF callbacks = NoTable THEN Goto(t, "drain", NoTask)
       ELSE Goto(t, "tx_call", [table |-> callbacks, what |-> usp.tx_error])
    /\ excused' = excused \cup {n \in {usp.tx_error.send} : callbacks = NoTable}
    /\ UNCHANGED <<lock, started, rx_flag, config, callbacks, usp, rx_queue, calls, sends, reports,
                   covered, repeated, rx_history>>

\* ... and calls it with the user_data of the table as it is now.
PollTxCall(t) ==
    /\ pc[t] = "tx_call"
    /\ reports' = Append(reports, arg[t].what)
    /\ Goto(t, "drain", NoTask)
    /\ UNCHANGED <<lock, started, rx_flag, config, callbacks, usp, rx_queue, calls, sends, excused,
                   covered, repeated, rx_history>>

\* rzi_lora_publish_rx() deciphers with the configuration of this moment.
PollRx(t) ==
    /\ pc[t] = "drain"
    /\ IF rx_queue = <<>> THEN Return(t)
       ELSE IF callbacks = NoTable THEN Stay
       ELSE Goto(t, "rx_call", [table |-> callbacks,
                                what |-> [packet |-> Head(rx_queue).packet,
                                          clear |-> Head(rx_queue).config = config]])
    /\ rx_queue' = IF rx_queue = <<>> THEN <<>> ELSE Tail(rx_queue)
    /\ UNCHANGED <<lock, started, rx_flag, config, callbacks, usp, calls, tx_history, rx_history>>

PollRxCall(t) ==
    /\ pc[t] = "rx_call"
    /\ delivered' = Append(delivered, arg[t].what)
    /\ Goto(t, "drain", NoTask)
    /\ UNCHANGED <<lock, started, rx_flag, config, callbacks, usp, rx_queue, calls, tx_history,
                   heard, purged, later>>

-----------------------------------------------------------------------------
(* The radio, which runs the callbacks under the USP lock.                 *)

\* A transmission leaves the radio, is preempted by LoRaWAN, or fails.
TxEnds ==
    /\ usp.tx # 0
    /\ \E error \in {"ok", "busy", "io"} : usp' = on_tx_done(usp, error)
    /\ Overwrite
    /\ UNCHANGED <<lock, started, rx_flag, config, callbacks, rx_queue, pc, arg, calls, rx_history>>

\* A receive window ends without a packet: preempted, or timed out or in error.
RxEnds ==
    /\ usp.rx # NoTask
    /\ \E status \in {"aborted", "other"}, ok \in BOOLEAN : usp' = on_rx_done(usp, status, ok)
    /\ UNCHANGED <<lock, started, rx_flag, config, callbacks, rx_queue, pc, arg, calls, tx_history,
                   rx_history>>

\* A packet: queued if there is room, and dropped without a word if there is none.
RxPacket ==
    /\ usp.rx # NoTask
    /\ heard < MaxPackets
    /\ heard' = heard + 1
    /\ rx_queue' = IF Len(rx_queue) < QueueDepth
                     THEN Append(rx_queue, [packet |-> heard + 1, config |-> usp.rx])
                     ELSE rx_queue
    /\ \E ok \in BOOLEAN : usp' = on_rx_done(usp, "packet", ok)
    /\ UNCHANGED <<lock, started, rx_flag, config, callbacks, pc, arg, calls, tx_history,
                   delivered, purged, later>>

\* The uptime passes rx_deadline_ms.
Deadline ==
    /\ usp.rx_active /\ ~usp.rx_continuous /\ ~usp.expired
    /\ usp' = [usp EXCEPT !.expired = TRUE]
    /\ UNCHANGED <<lock, started, rx_flag, config, callbacks, rx_queue, pc, arg, calls, tx_history,
                   rx_history>>

\* The steps of a call or a poll that is under way.
Continue(t) ==
    \/ Apply(t) \/ SendCipher(t) \/ SendSubmit(t) \/ ReceiveRadio(t) \/ ReceiveFlag(t)
    \/ StopClear(t) \/ StopPurge(t) \/ StopEnd(t)
    \/ PollError(t) \/ PollTxCall(t) \/ PollRx(t) \/ PollRxCall(t)

Thread(t) ==
    \/ InitStart(t) \/ SetConfig(t) \/ Register(t) \/ SendCheck(t) \/ ReceiveCheck(t)
    \/ StopAbort(t) \/ TestRun(t) \/ TestReceive(t) \/ PollTake(t)
    \/ Continue(t)

Next == TxEnds \/ RxEnds \/ RxPacket \/ Deadline \/ \E t \in Threads : Thread(t)

Spec == Init /\ [][Next]_vars

\* Calls return, clients keep polling as the API asks, transmissions and receive windows end,
\* and time passes.
FairSpec ==
    /\ Spec
    /\ \A t \in Threads : WF_vars(Continue(t)) /\ WF_vars(PollTake(t))
    /\ WF_vars(TxEnds) /\ WF_vars(RxEnds \/ RxPacket) /\ WF_vars(Deadline)

-----------------------------------------------------------------------------
Steps == {"idle", "apply", "cipher", "submit", "receive", "flag", "clear", "purge", "stopped",
          "error", "tx_call", "drain", "rx_call"}
TxResults == [send : Nat, error : {"none", "ok", "busy", "io"}]
UspState ==
    [opened : BOOLEAN, config : Configs, test_mode : BOOLEAN,
     tx_busy : BOOLEAN, tx_buffer : Nat, tx : Nat, tx_done : BOOLEAN, tx_error : TxResults,
     rx_active : BOOLEAN, rx_continuous : BOOLEAN, expired : BOOLEAN, rx : Configs \cup {NoTask},
     window : {0, 1}]

(* Types: every variable stays in its range, and rx_queue within the depth *)
(* K_MSGQ_DEFINE gives it.                                                 *)
TypeOK ==
    /\ lock \in Threads \cup {NoOne}
    /\ started \in BOOLEAN /\ rx_flag \in BOOLEAN
    /\ config \in Configs
    /\ callbacks \in Tables
    /\ usp \in UspState
    /\ rx_queue \in Seq([packet : Nat, config : Configs]) /\ Len(rx_queue) <= QueueDepth
    /\ pc \in [Threads -> Steps]
    /\ calls \in 0..MaxCalls
    /\ sends \in Nat /\ heard \in 0..MaxPackets

(* The backend's two flags say what the radio does: tx_busy exactly while  *)
(* a transmission is submitted, rx_active exactly while a receive window   *)
(* is.  A flag left set would refuse every later send; one left clear      *)
(* would hide a transaction from stop() and from on_rx_done().             *)
FlagsTellRadio == usp.tx_busy = (usp.tx # 0) /\ usp.rx_active = (usp.rx # NoTask)

(* LoRa Basics Modem test mode never runs beside a P2P transaction, in     *)
(* whatever order threads start tests, sends and receives.                 *)
TestExcludesP2p == usp.test_mode => usp.tx = 0 /\ usp.rx = NoTask

(* The buffer the RAC transmits from holds the frame it was submitted      *)
(* with: no later rzi_lora_send(), refused ones included, touches it       *)
(* while the transmission is in flight.                                    *)
AirFrameIntact == usp.tx # 0 => usp.tx_buffer = usp.tx

(* The backend's picture of the radio is right at every step: its flags,   *)
(* the exclusion of test mode and the frame on the air.                    *)
RadioConsistent == TypeOK /\ FlagsTellRadio /\ TestExcludesP2p /\ AirFrameIntact

Reported(n) == \E i \in DOMAIN reports : reports[i].send = n

\* A poll has taken the completion of send n and not yet called the client.
InPoll(n) == \E t \in Threads : \/ pc[t] = "error" /\ usp.tx_error.send = n
                                \/ pc[t] = "tx_call" /\ arg[t].what.send = n

\* Where the completion of send n is, or that it is no longer due.
Accounted(n) ==
    \/ n = usp.tx
    \/ usp.tx_done /\ usp.tx_error.send = n
    \/ InPoll(n) \/ Reported(n) \/ n \in excused

(* No completion is lost: an accepted send is on the air, waits in tx_done *)
(* for a poll, is being delivered, was delivered, was discarded by stop()  *)
(* or had no callback, in every interleaving of clients and polls.  The    *)
(* one exception is a completion that the next one, of whichever client,   *)
(* overwrote before a poll had read it.                                    *)
NothingLost == \A n \in 1..sends : Accounted(n) \/ n \in covered

(* No send is reported twice: each tx_done callback tells of a             *)
(* transmission of its own, so a success was really sent.  The one         *)
(* exception is a send that completed while a poll was between taking a    *)
(* completion and reading its error.                                       *)
ReportedOnce ==
    \A i, j \in DOMAIN reports :
        reports[i].send = reports[j].send => i = j \/ reports[i].send \in repeated

(* Every accepted send has exactly one completion, whichever threads send  *)
(* and poll, except where two completions met in the one slot.             *)
SendsAccounted == NothingLost /\ ReportedOnce

(* Without the exceptions, as one client that waits for tx_done before it  *)
(* sends again may take for granted.                                       *)
NeverLost == \A n \in 1..sends : Accounted(n)
NeverTwice == \A i, j \in DOMAIN reports : reports[i].send = reports[j].send => i = j

\* No transaction on the radio, no completion and no packet for a later poll.
Quiet == usp.tx = 0 /\ usp.rx = NoTask /\ ~usp.tx_done /\ rx_queue = <<>>

\* The same of everything that was there when the last stop() emptied the radio.
Emptied ==
    /\ usp.tx # 0 \/ usp.tx_done => "tx" \in later
    /\ usp.rx # NoTask \/ rx_queue # <<>> => "rx" \in later

Stopping(t) == pc[t] \in {"clear", "purge", "stopped"}

(* rzi_lora_stop() leaves nothing behind: in a stopped service every       *)
(* transaction, completion and packet is of a call that got to the radio   *)
(* after stop() had emptied it, having passed the check of started before  *)
(* stop() returned (or of a receive test, which has no such check).        *)
QuietAfterStop == ~started /\ (\A t \in Threads : ~Stopping(t)) => Emptied

(* Without those calls.                                                    *)
StoppedIsQuiet == ~started => Quiet

(* Every packet the radio received is queued, in delivery, delivered or    *)
(* discarded by rzi_lora_stop().                                           *)
PacketsDelivered ==
    \A n \in 1..heard :
        \/ \E i \in DOMAIN rx_queue : rx_queue[i].packet = n
        \/ \E t \in Threads : pc[t] = "rx_call" /\ arg[t].what.packet = n
        \/ \E i \in DOMAIN delivered : delivered[i].packet = n
        \/ n \in purged

(* rx_done carries the decrypted payload: the key used is the one of the   *)
(* configuration the packet was received under.                            *)
PacketsClear == \A i \in DOMAIN delivered : delivered[i].clear

(* A callback is called with the user_data it was registered with: the     *)
(* table does not change between loading the function and calling it.      *)
OneTable == \A t \in Threads : pc[t] \in {"tx_call", "rx_call"} => arg[t].table = callbacks

TimedReceive == usp.rx_active /\ ~usp.rx_continuous

(* A timed receive ends, however often LoRaWAN preempts its window.        *)
TimedReceiveEnds == TimedReceive ~> ~TimedReceive

(* An accepted send is reported, unless its completion was discarded by    *)
(* stop() or overwritten by a later one.                                   *)
SendReported ==
    \A n \in 1..MaxCalls : (sends >= n) ~> (Reported(n) \/ n \in excused \/ n \in covered)
=============================================================================
