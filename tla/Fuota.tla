-------------------------------- MODULE Fuota --------------------------------
(***************************************************************************)
(* The FUOTA coordinator (src/src/lorawan/services/fuota/lorawan_fuota.c): *)
(* the session state driven by backend events, the FLASH power reference,  *)
(* installation by rzi_fuota_apply() from application threads and from the *)
(* system work queue, and the keepalive timer.                             *)
(*                                                                         *)
(* A section under the coordinator's mutex is one step.  The mutex is      *)
(* released in the middle of a handler for every callback, so a handler    *)
(* that changes the state is three steps: up to the change, the callback,  *)
(* and the rest.                                                           *)
(***************************************************************************)
EXTENDS Integers, Sequences

CONSTANTS
    Appliers,       \* application threads that call rzi_fuota_apply()
    Chunks,         \* largest image, in chunks of APPLY_CHUNK bytes
    Scenarios       \* the builds and environments considered, each a Scenario

Scenario == [img_manager : BOOLEAN,     \* CONFIG_IMG_MANAGER
             auto_apply : BOOLEAN,      \* CONFIG_RZI_LORAWAN_FUOTA_AUTO_APPLY
             keepalive : BOOLEAN,       \* CONFIG_RZI_LORAWAN_FUOTA_KEEPALIVE_INTERVAL_S > 0
             sets_size : BOOLEAN,       \* the application calls rzi_fuota_set_expected_size()
             sessions : Nat,            \* bound: multicast sessions per behaviour
             joins : Nat,               \* bound: joins per behaviour
             resets : Nat,              \* bound: unexpected modem resets per behaviour
             events : Nat \ {0}]        \* bound: events in the service queue

Disp == "dispatcher"
Workq == "workq"            \* the system work queue
Installers == Appliers \cup {Workq}
Actors == Installers \cup {Disp}

ASSUME FuotaAssumption ==
    /\ Chunks \in Nat \ {0}
    /\ Scenarios \subseteq Scenario
    /\ \A s \in Scenarios : s.auto_apply => s.img_manager
    /\ Disp \notin Appliers /\ Workq \notin Appliers

VARIABLES
    scenario,       \* the build and the environment, chosen once
    up,             \* FALSE once the device reboots into the new image
    \* the coordinator
    started, state, image_ready, image_size, expected_size,
    held,           \* power_flash_held
    apply_work,     \* apply_work is queued
    timer,          \* keepalive_work is delayed or queued
    canceling,      \* keepalive_work was cancelled while its handler was running
    pc, then,       \* per actor: next step, and the step after the callback
    copied, size,   \* per installer: locals of copy_image_to_slot()
    slot,           \* secondary slot: the image every chunk came from, 0 for none or a torn one
    upgrade,        \* what MCUboot finds after the reboot, and the harm of its installer
    \* the backend
    inbox,          \* events queued for the dispatcher
    joined, session, sessions, joins, resets,
    area,           \* CONTEXT_FUOTA: the session that wrote it last, the last that left an
                    \* image in it, and that image's size and header
    done,           \* the current session reported its result
    \* history
    missed,         \* the last schedule_keepalive() came before a cancelled handler's return
    harm,           \* per installer: what fell into its installation, see UpgradeIsWhole
    covered,        \* an installation put its own state over TRANSFERRING
    cut,            \* a reset of the modem ended the session
    dropped         \* an event was lost, and none that sets the state was queued since

coordinator == <<started, state, image_ready, image_size, expected_size, held>>
keepalive == <<timer, canceling, missed>>
works == <<apply_work, keepalive>>
control == <<pc, then, copied, size>>
flash == <<slot, upgrade>>
queue == <<inbox, dropped>>
backend == <<joined, session, sessions, joins, resets, area, done, cut>>
vars == <<scenario, up, coordinator, works, control, flash, harm, covered, queue, backend>>

ImgManager == scenario.img_manager
AutoApply == scenario.auto_apply
Keepalive == scenario.keepalive

States == {"IDLE", "READY", "TRANSFERRING", "COMPLETE", "FAILED", "APPLYING"}
Busy == {"TRANSFERRING", "APPLYING"}
EventTypes == {"JOINED", "JOIN_FAILED", "STATE_READY", "SESSION_STARTED", "SESSION_ENDED",
               "DONE", "DONE_FAILED", "REBOOT"}
Setters == EventTypes \ {"SESSION_ENDED", "REBOOT"}     \* whatever they find, they set the state
Events == [type : EventTypes, size : 0..Chunks]
Event(t, n) == [type |-> t, size |-> n]

Labels == {"idle", "report", "schedule", "submit", "copy", "boot", "reboot", "failed", "send", "return"}

-----------------------------------------------------------------------------
(* Helpers *)

\* The fragment area holds the image that was reconstructed last.
Whole == area.image # 0 /\ area.image = area.from

\* Installer a is inside apply(), past its checks; and has not yet read the size.
Installing(a) == pc[a] \in {"copy", "boot", "reboot"} \/ then[a] = "copy"
Unsized(a) == then[a] = "copy" \/ (pc[a] = "copy" /\ size[a] = 0)
Harmed(S, h) == [a \in Installers |-> IF a \in S THEN harm[a] \cup {h} ELSE harm[a]]

Goto(a, l) == pc' = [pc EXCEPT ![a] = l] /\ UNCHANGED <<then, copied, size>>

\* set_state_locked(): the FLASH reference follows the state, unless the power service refuses
\* it; the callback runs unlocked, and the handler goes on at l.
set_state_locked(a, next, l) ==
    /\ covered' = (a # Disp /\ (covered \/ state = "TRANSFERRING"))
    /\ IF state = next
       THEN Goto(a, l) /\ UNCHANGED <<state, held>>
       ELSE /\ state' = next
            /\ IF next \in Busy THEN held' \in {TRUE, held} ELSE held' = FALSE
            /\ pc' = [pc EXCEPT ![a] = "report"]
            /\ then' = [then EXCEPT ![a] = l]
            /\ UNCHANGED <<copied, size>>

\* The state_changed callback, outside the mutex.
Report(a) ==
    /\ pc[a] = "report"
    /\ pc' = [pc EXCEPT ![a] = then[a]]
    /\ then' = [then EXCEPT ![a] = "idle"]
    /\ UNCHANGED <<up, coordinator, works, copied, size, flash, harm, covered, queue, backend>>

\* k_work_schedule() does nothing while a handler that was cancelled has not returned.
schedule_keepalive ==
    /\ timer' = (timer \/ (Keepalive /\ ~canceling))
    /\ missed' = canceling
    /\ UNCHANGED canceling

\* k_work_cancel_delayable(): a handler that runs goes on, and is being cancelled until it
\* returns.
cancel_keepalive ==
    /\ timer' = FALSE
    /\ canceling' = (canceling \/ pc[Workq] \in {"send", "return"})
    /\ missed' = FALSE

\* detect_image_size(): the configured size, the reported one, or an MCUboot header; an
\* image without a header leaves image_size alone.
detect_image_size(reported) ==
    CASE expected_size # 0 -> expected_size
      [] expected_size = 0 /\ reported # 0 -> reported
      [] expected_size = 0 /\ reported = 0 /\ area.header -> area.size
      [] OTHER -> image_size

-----------------------------------------------------------------------------
(* fuota_on_event(), in the dispatcher thread *)

\* rzi_fuota_start(), which init() calls once the backend runs.
Start ==
    /\ ~started
    /\ started' = TRUE
    /\ UNCHANGED <<up, state, image_ready, image_size, expected_size, held, works, control, flash, harm, covered, queue, backend>>

\* Before that an event passes unnoticed.
NotStarted ==
    /\ ~started /\ pc[Disp] = "idle" /\ inbox # <<>>
    /\ inbox' = Tail(inbox)
    /\ UNCHANGED <<up, coordinator, works, control, flash, harm, covered, dropped, backend>>

\* The dispatcher takes an event of type t.
Take(t) ==
    /\ pc[Disp] = "idle"
    /\ started
    /\ inbox # <<>>
    /\ Head(inbox).type = t
    /\ inbox' = Tail(inbox) /\ UNCHANGED dropped

OnJoined ==
    /\ Take("JOINED")
    /\ image_ready' = FALSE
    /\ image_size' = expected_size
    /\ set_state_locked(Disp, "READY", "schedule")
    /\ harm' = Harmed({a \in Installers : Unsized(a)}, "rejoined")
    /\ UNCHANGED <<up, started, expected_size, works, flash, backend>>

\* JOIN_FAILED, and a service that is READY again after leaving.
OnLeft ==
    /\ Take("JOIN_FAILED") \/ Take("STATE_READY")
    /\ \/ /\ Head(inbox).type = "STATE_READY" /\ state = "IDLE"
          /\ UNCHANGED <<coordinator, keepalive, control, covered>>
       \/ /\ Head(inbox).type = "JOIN_FAILED" \/ state # "IDLE"
          /\ cancel_keepalive
          /\ image_ready' = FALSE
          /\ set_state_locked(Disp, "IDLE", "idle")
          /\ UNCHANGED <<started, image_size, expected_size>>
    /\ UNCHANGED <<up, apply_work, flash, harm, backend>>

OnSessionStarted ==
    /\ Take("SESSION_STARTED")
    /\ cancel_keepalive
    /\ set_state_locked(Disp, "TRANSFERRING", "idle")
    /\ UNCHANGED <<up, started, image_ready, image_size, expected_size, apply_work, flash, harm, backend>>

\* Mutant: an ended session leaves the keepalive alone.
OnSessionEndedSilent ==
    /\ Take("SESSION_ENDED")
    /\ IF state = "TRANSFERRING" /\ ~image_ready
       THEN set_state_locked(Disp, "READY", "idle")
       ELSE UNCHANGED <<state, held, control, covered>>
    /\ UNCHANGED <<up, started, keepalive, image_ready, image_size, expected_size, apply_work, flash, harm, backend>>

OnSessionEnded ==
    /\ Take("SESSION_ENDED")
    /\ IF state = "TRANSFERRING" /\ ~image_ready
       THEN schedule_keepalive /\ set_state_locked(Disp, "READY", "idle")
       ELSE UNCHANGED <<state, held, control, keepalive, covered>>
    /\ UNCHANGED <<up, started, image_ready, image_size, expected_size, apply_work, flash, harm, backend>>

OnTransferDone ==
    /\ Take("DONE")
    /\ image_size' = detect_image_size(Head(inbox).size)
    /\ image_ready' = TRUE
    /\ set_state_locked(Disp, "COMPLETE", "submit")
    /\ UNCHANGED <<up, started, expected_size, works, flash, harm, backend>>

OnTransferFailed ==
    /\ Take("DONE_FAILED")
    /\ image_ready' = FALSE
    /\ set_state_locked(Disp, "FAILED", "schedule")
    /\ UNCHANGED <<up, started, image_size, expected_size, works, flash, harm, backend>>

OnReboot ==
    /\ Take("REBOOT")
    /\ apply_work' = (apply_work \/ (AutoApply /\ image_ready))
    /\ UNCHANGED <<up, coordinator, keepalive, control, flash, harm, covered, backend>>

\* The rest of a handler once its callbacks have returned.
AfterReport ==
    \/ /\ pc[Disp] = "schedule"
       /\ schedule_keepalive
       /\ Goto(Disp, "idle")
       /\ UNCHANGED <<up, coordinator, apply_work, flash, harm, covered, queue, backend>>
    \/ /\ pc[Disp] = "submit"
       /\ apply_work' = (apply_work \/ AutoApply)
       /\ Goto(Disp, "idle")
       /\ UNCHANGED <<up, coordinator, keepalive, flash, harm, covered, queue, backend>>

-----------------------------------------------------------------------------
(* rzi_fuota_apply() *)

\* Mutant: an image that is not there is installed.
ApplyUnchecked(a) ==
    /\ image_size # 0
    /\ set_state_locked(a, "APPLYING", "copy")
    /\ harm' = [harm EXCEPT ![a] = IF Whole \/ area.image = 0 THEN {} ELSE {"overwritten"}]
    /\ UNCHANGED <<started, image_ready, image_size, expected_size>>

\* The checks and the change to APPLYING; a refused call changes nothing.
Apply(a) ==
    /\ image_ready /\ image_size # 0
    /\ set_state_locked(a, "APPLYING", "copy")
    /\ harm' = [harm EXCEPT ![a] = IF Whole \/ area.image = 0 THEN {} ELSE {"overwritten"}]
    /\ UNCHANGED <<started, image_ready, image_size, expected_size>>

ApplyCall(t) ==
    /\ pc[t] = "idle"
    /\ Apply(t)
    /\ UNCHANGED <<up, works, flash, queue, backend>>

\* apply_work_handler() on the system work queue.
ApplyWork ==
    /\ pc[Workq] = "idle"
    /\ apply_work
    /\ apply_work' = FALSE
    /\ \/ Apply(Workq)
       \/ /\ ~image_ready \/ image_size = 0
          /\ UNCHANGED <<coordinator, control, harm, covered>>
    /\ UNCHANGED <<up, keepalive, flash, queue, backend>>

\* Without an image manager apply() returns here, in the state it has set.
ApplyUnsupported(a) ==
    /\ pc[a] = "copy"
    /\ ~ImgManager
    /\ Goto(a, "idle")
    /\ UNCHANGED <<up, coordinator, works, flash, harm, covered, queue, backend>>

\* copy_image_to_slot() reads image_size once, outside the mutex, ...
CopyStart(a) ==
    /\ pc[a] = "copy" /\ ImgManager
    /\ size[a] = 0
    /\ size' = [size EXCEPT ![a] = image_size]
    /\ pc' = [pc EXCEPT ![a] = IF image_size = 0 THEN "boot" ELSE "copy"]
    /\ UNCHANGED <<up, coordinator, works, then, copied, flash, harm, covered, queue, backend>>

\* ... and copies chunk by chunk what the fragment area holds at that moment.
CopyChunk(a) ==
    /\ pc[a] = "copy"
    /\ copied[a] < size[a]
    /\ slot' = [slot EXCEPT ![copied[a] + 1] = IF Whole THEN area.from ELSE 0]
    /\ copied' = [copied EXCEPT ![a] = @ + 1]
    /\ pc' = [pc EXCEPT ![a] = IF copied'[a] = size[a] THEN "boot" ELSE "copy"]
    /\ UNCHANGED <<up, coordinator, works, then, size, upgrade, harm, covered, queue, backend>>

\* A flash write, or the request to MCUboot, failed.
CopyFails(a) ==
    /\ pc[a] \in {"copy", "boot"} /\ ImgManager
    /\ pc' = [pc EXCEPT ![a] = "failed"]
    /\ copied' = [copied EXCEPT ![a] = 0]
    /\ size' = [size EXCEPT ![a] = 0]
    /\ harm' = [harm EXCEPT ![a] = {}]
    /\ UNCHANGED <<up, coordinator, works, then, flash, covered, queue, backend>>

\* Mutant: a failed installation leaves the state alone.
ApplyFailedSilent(a) ==
    /\ pc[a] = "failed"
    /\ Goto(a, "idle")
    /\ UNCHANGED <<up, coordinator, works, flash, harm, covered, queue, backend>>

ApplyFailed(a) ==
    /\ pc[a] = "failed"
    /\ set_state_locked(a, "COMPLETE", "idle")
    /\ UNCHANGED <<up, started, image_ready, image_size, expected_size, works, flash, harm, queue, backend>>

\* boot_request_upgrade() succeeds ...
BootUpgrade(a) ==
    /\ pc[a] = "boot"
    /\ Goto(a, "reboot")
    /\ UNCHANGED <<up, coordinator, works, flash, harm, covered, queue, backend>>

\* ... and the device resets; MCUboot boots what the slot then holds.
Reboot(a) ==
    /\ pc[a] = "reboot"
    /\ upgrade' = [image |-> [i \in 1..size[a] |-> slot[i]], harm |-> harm[a]]
    /\ up' = FALSE
    /\ UNCHANGED <<coordinator, works, control, slot, harm, covered, queue, backend>>

-----------------------------------------------------------------------------
(* rzi_fuota_set_expected_size() and the keepalive *)

SetExpectedSize(n) ==
    /\ scenario.sets_size
    /\ expected_size' = n
    /\ image_size' = IF image_ready /\ image_size = 0 THEN n ELSE image_size
    /\ UNCHANGED <<up, started, state, image_ready, held, works, control, flash, harm, covered, queue, backend>>

\* keepalive_work_handler() looks at the state without the mutex and stops in the busy
\* states; otherwise it sends ...
KeepaliveFires ==
    /\ pc[Workq] = "idle"
    /\ timer
    /\ timer' = FALSE /\ UNCHANGED <<canceling, missed>>
    /\ Goto(Workq, IF state \in Busy THEN "return" ELSE "send")
    /\ UNCHANGED <<up, coordinator, apply_work, flash, harm, covered, queue, backend>>

\* ... and schedules itself again, to no effect if it has been cancelled.
KeepaliveSent ==
    /\ pc[Workq] = "send"
    /\ timer' = (timer \/ ~canceling) /\ UNCHANGED <<canceling, missed>>
    /\ Goto(Workq, "return")
    /\ UNCHANGED <<up, coordinator, apply_work, flash, harm, covered, queue, backend>>

\* The handler has returned: its item is no longer being cancelled.
KeepaliveReturns ==
    /\ pc[Workq] = "return"
    /\ canceling' = FALSE /\ UNCHANGED <<timer, missed>>
    /\ Goto(Workq, "idle")
    /\ UNCHANGED <<up, coordinator, apply_work, flash, harm, covered, queue, backend>>

-----------------------------------------------------------------------------
(* The backend and the network, as handle_event() reports them *)

\* The service's queue takes the event, or drops it when it is full.
Raise(t, n) ==
    /\ IF Len(inbox) < scenario.events
       THEN inbox' = Append(inbox, Event(t, n)) /\ dropped' = (dropped /\ t \notin Setters)
       ELSE inbox' = inbox /\ dropped' = TRUE
    /\ UNCHANGED <<up, coordinator, works, control, flash, covered>>

Join ==
    /\ ~joined /\ joins < scenario.joins
    /\ joined' = TRUE /\ joins' = joins + 1
    /\ Raise("JOINED", 0)
    /\ cut' = FALSE
    /\ UNCHANGED <<session, sessions, resets, area, done, harm>>

JoinFail ==
    /\ ~joined
    /\ Raise("JOIN_FAILED", 0)
    /\ UNCHANGED <<backend, harm>>

LeaveNetwork ==
    /\ joined
    /\ joined' = FALSE /\ session' = FALSE
    /\ Raise("STATE_READY", 0)
    /\ UNCHANGED <<sessions, joins, resets, area, done, cut, harm>>

\* A reset ends the session without a word to the coordinator: READY is not its event.
ModemReset ==
    /\ joined /\ resets < scenario.resets
    /\ resets' = resets + 1
    /\ joined' = FALSE /\ session' = FALSE /\ cut' = (cut \/ session)
    /\ UNCHANGED <<up, coordinator, works, control, flash, harm, covered, queue, sessions, joins, area, done>>

StartSession ==
    /\ joined /\ ~session /\ sessions < scenario.sessions
    /\ session' = TRUE /\ sessions' = sessions + 1 /\ done' = FALSE
    /\ Raise("SESSION_STARTED", 0)
    /\ UNCHANGED <<joined, joins, resets, area, cut, harm>>

\* The first fragment of a session overwrites the area.
Fragment ==
    /\ session /\ ~done /\ area.from # sessions
    /\ area' = [from |-> sessions, image |-> area.image, size |-> 0, header |-> FALSE]
    /\ harm' = Harmed({a \in Installers : Installing(a)}, "overwritten")
    /\ UNCHANGED <<up, coordinator, works, control, flash, covered, queue, joined, session, sessions, joins, resets,
                   done, cut>>

\* The image is reconstructed; the backend may or may not report its size.
Reconstruct(n, header, reported) ==
    /\ session /\ ~done /\ area.from = sessions
    /\ done' = TRUE
    /\ area' = [from |-> sessions, image |-> sessions, size |-> n, header |-> header]
    /\ Raise("DONE", IF reported THEN n ELSE 0)
    /\ UNCHANGED <<joined, session, sessions, joins, resets, cut, harm>>

Abandon ==
    /\ session /\ ~done
    /\ done' = TRUE
    /\ Raise("DONE_FAILED", 0)
    /\ UNCHANGED <<joined, session, sessions, joins, resets, area, cut, harm>>

EndSession ==
    /\ session
    /\ session' = FALSE
    /\ Raise("SESSION_ENDED", 0)
    /\ UNCHANGED <<joined, sessions, joins, resets, area, done, cut, harm>>

\* A Firmware Management reboot command.
RequestReboot ==
    /\ joined
    /\ Raise("REBOOT", 0)
    /\ UNCHANGED <<backend, harm>>

-----------------------------------------------------------------------------
Init ==
    /\ scenario \in Scenarios
    /\ up = TRUE /\ started = FALSE
    /\ state = "IDLE" /\ image_ready = FALSE /\ image_size = 0 /\ expected_size = 0 /\ held = FALSE
    /\ apply_work = FALSE /\ timer = FALSE /\ canceling = FALSE /\ missed = FALSE
    /\ pc = [a \in Actors |-> "idle"] /\ then = [a \in Actors |-> "idle"]
    /\ copied = [a \in Installers |-> 0] /\ size = [a \in Installers |-> 0]
    /\ slot = [i \in 1..Chunks |-> 0] /\ upgrade = [image |-> <<>>, harm |-> {}]
    /\ inbox = <<>> /\ joined = FALSE /\ session = FALSE
    /\ sessions = 0 /\ joins = 0 /\ resets = 0 /\ done = FALSE
    /\ area = [from |-> 0, image |-> 0, size |-> 0, header |-> FALSE]
    /\ harm = [a \in Installers |-> {}] /\ covered = FALSE /\ cut = FALSE /\ dropped = FALSE

DispNext ==
    \/ OnJoined \/ OnLeft \/ OnSessionStarted \/ OnSessionEnded \/ OnTransferDone \/ OnTransferFailed
    \/ OnReboot \/ NotStarted \/ Report(Disp) \/ AfterReport

InstallNext(a) ==
    \/ Report(a) \/ ApplyUnsupported(a) \/ CopyStart(a) \/ CopyChunk(a) \/ CopyFails(a)
    \/ ApplyFailed(a) \/ BootUpgrade(a) \/ Reboot(a)

WorkqNext == ApplyWork \/ KeepaliveFires \/ KeepaliveSent \/ KeepaliveReturns

BackendNext ==
    \/ Join \/ JoinFail \/ LeaveNetwork \/ ModemReset \/ StartSession \/ Fragment
    \/ \E n \in 1..Chunks, header, reported \in BOOLEAN : Reconstruct(n, header, reported)
    \/ Abandon \/ EndSession \/ RequestReboot

\* Nothing runs once the device has rebooted.
Running == up /\ UNCHANGED scenario

Next ==
    /\ Running
    /\ \/ DispNext
       \/ \E a \in Installers : InstallNext(a)
       \/ \E t \in Appliers : ApplyCall(t)
       \/ WorkqNext
       \/ Start
       \/ \E n \in 1..Chunks : SetExpectedSize(n)
       \/ BackendNext

Spec == Init /\ [][Next]_vars

\* The scheduler runs every installer that is inside apply() and the dispatcher while it
\* has events.  Nothing is assumed of the network.
Fairness ==
    /\ \A a \in Installers : WF_vars(Running /\ InstallNext(a))
    /\ WF_vars(Running /\ DispNext)

FairSpec == Spec /\ Fairness
-----------------------------------------------------------------------------
(* Properties *)

\* Every variable has its type; the copy stays inside the image.
TypeOK ==
    /\ scenario \in Scenarios
    /\ up \in BOOLEAN /\ started \in BOOLEAN /\ state \in States /\ image_ready \in BOOLEAN /\ held \in BOOLEAN
    /\ image_size \in 0..Chunks /\ expected_size \in 0..Chunks
    /\ apply_work \in BOOLEAN /\ timer \in BOOLEAN /\ canceling \in BOOLEAN /\ missed \in BOOLEAN
    /\ pc \in [Actors -> Labels] /\ then \in [Actors -> Labels]
    /\ copied \in [Installers -> 0..Chunks] /\ size \in [Installers -> 0..Chunks]
    /\ slot \in [1..Chunks -> 0..scenario.sessions] /\ upgrade.image \in Seq(0..scenario.sessions)
    /\ inbox \in Seq(Events) /\ Len(inbox) <= scenario.events
    /\ joined \in BOOLEAN /\ session \in BOOLEAN /\ done \in BOOLEAN
    /\ sessions \in 0..scenario.sessions /\ joins \in 0..scenario.joins /\ resets \in 0..scenario.resets
    /\ area \in [from : 0..scenario.sessions, image : 0..scenario.sessions, size : 0..Chunks, header : BOOLEAN]
    /\ harm \in [Installers -> SUBSET {"rejoined", "overwritten"}] /\ covered \in BOOLEAN
    /\ cut \in BOOLEAN /\ dropped \in BOOLEAN

\* No event is queued and no handler, installation or work item is running.
Quiescent == inbox = <<>> /\ (\A a \in Actors : pc[a] = "idle") /\ ~apply_work

\* What a reboot into the new image finds, for any number of sessions, joins and installers:
\* nothing at all only if a JOINED reset the size between the check of that apply() and its
\* copy, and chunks that are not of one reconstructed image only if the fragments of a new
\* session overwrote the image before the reboot.  A rejoin during the copy, a size override, a
\* failed copy before it or another installer beside it does no harm.
UpgradeIsWhole ==
    ~up => /\ upgrade.image = <<>> => "rejoined" \in upgrade.harm
           /\ \/ "overwritten" \in upgrade.harm
              \/ \E g \in 1..scenario.sessions : \A i \in 1..Len(upgrade.image) : upgrade.image[i] = g

\* Without the exceptions.
UpgradeAlwaysWhole ==
    ~up => \E g \in 1..scenario.sessions : upgrade.image # <<>> /\ \A i \in 1..Len(upgrade.image) : upgrade.image[i] = g

\* While the device waits for a session (READY, FAILED) the keepalive stays scheduled, so
\* the network server can go on, unless it was to be scheduled while the handler that the same
\* or an earlier event had cancelled was still inside rzi_lorawan_send().
KeepaliveRuns == Keepalive /\ Quiescent /\ state \in {"READY", "FAILED"} => timer \/ missed

\* Without the exception.
KeepaliveWaits == Keepalive /\ Quiescent /\ state \in {"READY", "FAILED"} => timer

\* At rest TRANSFERRING means that a multicast session is active.  The exceptions: a reset of
\* the modem ended it, of which the coordinator hears nothing; it ended without an image while
\* an earlier one was ready; or the queue dropped an event.
TransferIsActive == Quiescent /\ state = "TRANSFERRING" => session \/ cut \/ image_ready \/ dropped

\* As the header has it, without the exception.
TransferringIsActive == Quiescent /\ state = "TRANSFERRING" => session

\* At rest nobody is in APPLYING any more.
ApplyingIsReal == Quiescent => state # "APPLYING"

\* At rest COMPLETE means that there is an image.
CompleteHasImage == Quiescent /\ state = "COMPLETE" => image_ready

\* A ready image can be read: the fragment area holds it whole, or the state tells that a new
\* session is being received over it.  The exceptions: an installation put APPLYING or COMPLETE
\* over TRANSFERRING, or the queue dropped an event.
ReadyImageIsWhole == Quiescent /\ image_ready => Whole \/ state = "TRANSFERRING" \/ covered \/ dropped

\* Without the exceptions.
ReadyImageStays == Quiescent /\ image_ready => Whole

\* What the application can ask of the coordinator is true whenever nothing is going on, for
\* any number of sessions, joins and resets: TRANSFERRING has a session, a ready image is whole
\* and the keepalive runs, each but for the cases it names.
TruthAtRest == TypeOK /\ TransferIsActive /\ ReadyImageIsWhole /\ KeepaliveRuns

\* The size of a ready image is its own, or zero when unknown.
SizeIsCurrent == Quiescent /\ image_ready /\ expected_size = 0 => image_size \in {0, area.size}

\* A size the backend reports is used.
BackendSizeWins ==
    [][OnTransferDone /\ Head(inbox).size # 0 => image_size' = Head(inbox).size]_vars

\* Whoever copies the image holds the FLASH reference.
ApplyHoldsFlash == \A a \in Installers : copied[a] # 0 /\ up => held

\* With an image manager every installation ends: the device reboots or the state leaves
\* APPLYING.
ApplyEnds == state = "APPLYING" /\ ImgManager ~> (~up \/ state # "APPLYING")
=============================================================================
