# A TLA+ model of RZI

RZI is a C library for Zephyr devices: a LoRaWAN service with two radio
backends, raw LoRa (P2P), firmware update over the air (FUOTA), persistent
settings, power references and an AT command interface. This directory holds
TLA+ specifications of its stateful core, TLC configurations that check them on
small instances, and TLAPS proofs of the results that hold for every instance.
Paths below are relative to the repository root; `PROJECT.json` maps every
definition to the lines it stands for.

## 1. Inventory

| Component | State it keeps | Operations | Talks to | What is hard | What makes it correct | Module |
|---|---|---|---|---|---|---|
| LoRaWAN service, `src/lorawan/lorawan.c` | started, join sequence, event queue and overflow flag | init, join/stop/keep, leave, send; dispatcher thread | backend; modem thread; credentials; callbacks | threads, dispatcher and modem share atomics, no lock spans a call; bounded queue | one start; no uplink orphaned; loss of the network is announced; a sequence ends | `LorawanService` |
| Device class, subscribers, services (same file) | noted class, power reference, callback slots, service table | set/get class, stop Class B, register, dispatch | USP backend, power service | the modem and the note are two sections; the table is copied before the callbacks run | the note settles on the modem's class; events in order, each once | `DeviceClass` |
| Power, `src/power/power.c` | native lock, reference counts | lock get/put, PM switch | service, storage, FUOTA, AT, applications | counts at their maximum, shared locks | native references are those the clients hold | `DeviceClass`, `PmLedger` |
| USP backend, `src/lorawan/backend/usp/`, `src/usp/` | ready, tx_pending, class_b_state, multicast table, ADR profile | start, join, leave, send, class, network parameters, events | LoRa Basics Modem under the USP lock | modem resets, events that cross a leave | tx_pending is the modem's uplink | several |
| Credentials and settings, `src/lorawan/api/lorawan_credentials.c`, `lorawan_settings.c`, `lorawan_config.c` | flash keys in two namespaces, two caches, join ownership | get, set, update policy, reset, migrate | storage; join sequence | failing reads, saves and deletes; power loss between two deletes; old formats | a reboot gives back what the API last said | `LorawanSettings` |
| FUOTA, `src/lorawan/services/fuota/` | state, image_ready, sizes, FLASH reference, keepalive | event handlers, apply, size override | LoRaWAN events, flash, MCUboot, work queue | the mutex is dropped for every callback and for the copy | the image booted is the image received | `Fuota` |
| Raw LoRa, `src/lora/lora.c`, `src/lora/backend/` | started, configuration, callbacks, one TX and one RX transaction, test mode, receive queue | init, stop, set_config, send, receive, poll, tests | radio access controller, LoRaWAN (preemption), AT | API threads against radio callbacks, one completion slot | flags tell the radio's state; each send reported once | `LoraP2p` |
| Channels, `src/lorawan/api/lorawan_channel.c` | channel mask, region | mask, sub-band, fixed channel, join | credentials, modem, AT+MASK, CHE, CHS | three views of one mask, a mask read before and used in a join | read back and joined with as accepted | `ChannelPlan`, `Channels` |
| Link control, `src/lorawan/api/lorawan_network.c` | ADR profile, data rate, listen-before-talk, modem parameters | setters | modem session | what a join, a leave or a reset puts back | the link runs as last asked | `LinkControl` |
| MAC requests, `src/lorawan/api/lorawan_mac_commands.c` | two modes in statics without a lock | request, uplink hook | send, modem | two threads on one static | one-time requests end, repeated ones go with every uplink | `MacRequests` |
| Multicast | table of groups | add, remove, clear | modem sessions | a refused modem call between table and modem | no session runs that the table does not know | `Multicast` |
| Zephyr backend, `src/lorawan/backend/zephyr/` | flags, work items, nonce, data-rate cache | the backend contract | Zephyr LoRaWAN and kernel work queue | a blocking stack behind a work queue; cancelling what runs | one owner per uplink; a join is kept up; fresh nonces | `ZephyrBackend` |
| AT framework, `src/at/` | receive ring, overflow flag, line, registry, settings | receive, feed, execute, reset | UART interrupt, storage | overflow in the middle of a line, failing saves | input is executed as typed and answered once | `AtService` |
| AT network mode, `src/at/commands/at_network_mode.c`, `commands/lora/` | mode in RAM and flash, radio configuration | AT+NWM, P2P and test commands, start-up | raw LoRa | failure or power loss inside a switch | the stored mode starts; the radio follows the mode | `AtNetworkMode` |
| AT LoRaWAN, `src/at/commands/lorawan/` | one context shared by AT thread and dispatcher | JOIN, SEND, LPSEND, RECV, CFM, CLASS, on_event | LoRaWAN service | handlers interrupted by events | answers match what was asked | `AtLorawan` |
| Session identity, `src/lorawan/api/lorawan_credentials.c`, `backend/usp/lorawan_backend_usp_session.c` | activation, stored ABP identity, the modem's | AT+NJM, AT+DEVADDR, AT+NWKSKEY, AT+APPSKEY | credentials, modem session | a read is three sections; the modem keeps the identity of a session it left | a read answers what was current during it | `SessionInfo` |
| Certification, common helpers, samples, boards, tests | none of their own | | | | | none |

`PROJECT.json` lists each with its status, and under `hazards` the places where
this code can go wrong in ways a test hardly reaches.

## 2. Plan

Done: every module of section 3 with its runs, and the theorems of section 6, which
state every invariant and every action property that a run checks. Left: one
abstract backend (start, join, leave, send and their events) that both backends are
shown to implement.

## 3. Modules

| Module | Models | Run through |
|---|---|---|
| `LorawanService` | service, dispatcher, event queue, USP backend, modem | `MCLorawanService` |
| `DeviceClass` | class calls, subscriber and service tables, power service and its clients | `MCDeviceClass` |
| `PmLedger` | the promise of the power service, abstract | refined by `DeviceClass` |
| `Fuota` | FUOTA coordinator, work queue, the LoRaWAN events it sees | `MCFuota` |
| `LorawanSettings` | settings schema, credential store, configuration, storage | `MCLorawanSettings` |
| `LoraP2p` | raw LoRa service and USP backend, radio | `MCLoraP2p` |
| `ChannelPlan` | the plan of US915 and AU915 and the three views of a mask, pure operators | through `Channels` |
| `LorawanCall` | what network calls share: threads, service, modem session | through `Network` |
| `Channels`, `SessionInfo`, `LinkControl`, `MacRequests`, `Multicast` | the parts of the network API | through `Network` |
| `Network` | their composition with leave, reset and restart | `MCNetwork` |
| `ZephyrBackend` | the Zephyr backend, its work queue, the stack | `MCZephyrBackend` |
| `AtService` | ring, parser, registry, system commands | `MCAtService` |
| `AtNetworkMode` | AT+NWM, P2P and test commands, raw LoRa at the grain of one call | `MCAtNetworkMode` |
| `AtLorawan` | LoRaWAN commands and on_event() on two threads | itself |
| `LorawanServiceProofs`, `DeviceClassProofs`, `FuotaProofs`, `LorawanSettingsProofs`, `LoraP2pProofs`, `NetworkProofs`, `ZephyrBackendProofs`, `AtProofs` | theorems | |

A definition whose comment begins with "Mutant" is a broken variant used to show
that a property can fail; it is not part of any specification.

Where the code leaves a window open, the property of a run names it as an exception
and a history variable marks the states that came through it: the property says that
there is no other way to go wrong, whatever the clients do. Only two properties are
about clients of a kind: `JoinNotBlocked`, about those that neither stop nor leave, and
the uplink half of `HostAnswersMatch`, about a host that waits for the report of an
uplink. The same statement without the exception is in an `*_open.cfg` (section 4), where TLC gives the
behaviour that uses the window.

### LorawanService

A step is one atomic access of the C code: an `atomic_t` operation, a section
under one mutex, or a queue operation. `pc[t]` is the next step of a thread
inside a public call, `pc[Disp]` of the dispatcher. `active`, `retries`,
`owned` are `join_sequence_active`, `join_retries_remaining` and the
credentials' `join_active`. An actor in `dropping` has found the queue full and
not yet set `overflow`. The modem (external) is a record: its state, whether an
uplink is outstanding, the credentials it joins with and the failed attempts.
It refuses a join unless idle, as LoRa Basics Modem does. Locals that are dead
are reset so that they do not multiply states. The subscriber snapshot, the
device class and its power reference are in `DeviceClass`, the MAC commands
armed by a send in `MacRequests`. `raced` marks a begin_join() whose credentials
another thread has replaced since it read them, and the join it leads to.

### DeviceClass and PmLedger

A class call is a section under the USP lock, in which the modem changes and the
Class B event is published, and `note_class`, a section under `config_lock`.
`Leave` of the first section keeps the lock (`usp_lock`) while an event is still
to be published, because the order of two such events is what the lock is for.
`disp` steps through a dispatch: take an event, copy the slots
(`subscribers = callback_slots`), call one slot after the other (`DispCall`), the
services. `power.c` runs under one mutex: one step per call. Its clients are all
in the module: the class (`power_class_c_held`), a storage write, FUOTA, and an
application that takes and releases references in pairs. `PmLedger` is the
abstract specification of the power service: a table of references by client
and lock, the switch, and one native lock for each. `KeepsLedger` maps the
clients' own flags to that table (`pm_refs`), so it says that the counts and
the native lock implement what the clients believe.

`latest` is the thread that was last at the modem, `overtaken` says that the class
noted last came from a thread that was not, `unpowered` that the power service refused
the reference or leave() gave it up; `fresh`, `seen` and `late` are what each
subscriber was given.

### Fuota

A handler of `lorawan_fuota.c` that changes the state releases the mutex for
the callback, so it is three steps: up to the change (`say`), the callback
(`Report`), the rest (`then`). A continuation after an unchanged state is also a
step of its own, which only adds interleavings. `apply` runs in an application
thread and in the work queue, one chunk of the copy per step. `slot` says which
image the secondary slot holds, `area` what the fragment area holds. A
`scenario`, fixed at the start, is a build (image manager, automatic
installation, keepalive) and what the environment does. Header parsing is reduced to
whether a size is found. An event that finds the service's queue full is dropped, as
`publish()` does. The keepalive is a delayable work item with Zephyr's rules:
`timer` is delayed or queued, its handler runs in the work queue and blocks in
rzi_lorawan_send(), and a cancel meanwhile sets `canceling`, until whose end scheduling
does nothing. The request to MCUboot and the reboot are two steps, between which other
threads still run; the reboot ends the behaviour. The FLASH reference may be refused.
History: `harm` is what fell into an installation ("rejoined": a JOINED reset the size
after its check; "overwritten": fragments of a new session were written over the
image), `missed` a schedule that did nothing, `covered`, `cut` and `dropped` an
installation's state put over TRANSFERRING, a session ended by a modem reset, and a
lost event.

### LorawanSettings

A read or a write of a setting holds `schema_lock` and writes flash last, so it
is one step and a crash falls between steps; a credential call is one step with
the failing key chosen freely; a reset is one step per delete. `flash` has the
current and the old namespace, `settings` is the schema's cache, `credentials`
the store's, `told` what the API last answered or accepted for a key.
`OldFirmware` gives flash its contents from earlier versions. A storage call
that fails leaves flash unchanged (the settings backend is external). Values
are numbers, 0 the default; a join policy is a function of its three fields.

### LoraP2p

A section under the USP lock is one step, written as a function of the
protected state `usp` with the name of the C function: `usp_send`,
`usp_receive`, `abort_p2p`, `on_rx_done`... The service mutex is `lock`.
`usp.tx` and `usp.rx` are the radio's two transactions (external);
`smtc_rac_abort_radio_submit()` runs the transaction's callback before it
returns, which `usp_stop()` and `usp_receive()` rely on: both clear their flag
first and reuse the id at once. A configuration and a callback table are names;
their copy under the mutex is one step, and reading either without the mutex
gives the value of that moment. A field-wise mixture would be one more wrong
value for `PacketsClear` and `OneTable`, which do not hold anyway. The
modulation is abstract. `calls` bounds the API calls; polls are free. Clients do not
wait for tx_done. `covered` and `repeated` are the sends whose completion met another
one in the slot (`tx_done`, `tx_error`), `later` what calls that had passed the check
of `started` put on the radio after a stop() had emptied it.

### Network and its parts

`LorawanCall` holds the threads and the session; everything between entering
and leaving the USP lock is one step, and a call that reads before it enters
(`pc` "join", "uplink", "link_clear"...) is several. A `client`, fixed at the
start, says which operations the threads of a behaviour use, so that one run
covers six clients without their product, in the regions that matter to each; one has a
thread that writes masks while the other joins. Each part says what the end of a session, a
reset and a restart do to it (`LinkSessionEnds`, `McReboot`...), and `Network`
conjoins them. In `ChannelPlan` a mask is the set of its channels and a
frequency is in 100 kHz; the operators are the conversions between the six
words of the API, the blocks of AT+MASK and AT+CHE and the frequency of AT+CHS.
A join is three steps, the read of the mask, the claim and usp_join();
`seen` and `join_seen` are the masks stored while it was under way. `Multicast` has the
table and the modem's sessions side by side, and counts in `held` the sessions of an
address that were added and not removed. `SessionInfo`
numbers identities: the address and the keys of an OTAA session are the number
of the event that began it, zero is none. `reads[t].seen` collects what was
current while a read was under way, and `IdentityReads` says that the answer is
one of them. USP supports OTAA only (`Activations`), so ABP is an activation
that an earlier firmware left in flash: joins are refused and reads answer the
stored values until AT+NJM changes it.

### ZephyrBackend

A section under the backend's mutex is one step. The kernel's work queue is
modelled with the flags of `k_work` (delayed, queued, running, canceling), because
what scheduling and cancelling do depends on them. The worker thread runs one
handler at a time and blocks in the stack. `next_dev_nonce` wraps at
`NonceModulus`. The stack (external) is its session, class, rate and ADR. `orphaned`
marks a pending join that has lost its work item, in one of the two windows that
`JoinKeptUp` describes.

### AtService, AtNetworkMode, AtLorawan

In `AtService` a byte is a key: an editing key or a token for a run of characters.
Every byte carries the line its script spells, so that losing or merging input
changes a line as it changes characters. The interrupt writes the ring, the AT
thread takes up to `ChunkSize` bytes and feeds them one by one. A handler is an
operator that gives the device after it, the return code and its answers. A build has
AT storage or not (`RZI_AT_NVM`). AT?, ATE?, ATZ? and ATR? ignore the result of writing
their text, so they stay unanswered when it fails.

`AtNetworkMode` has the switch in steps (notify, save, rollback) with a fault or
a power loss between them, the deferred start of a P2P mode at boot, and every
P2P and radio-test command over the raw LoRa service at the grain of one call,
for the USP and the Zephyr radio backend. A build says whether LoRaWAN, raw LoRa and AT
storage are in it; storage needs LoRaWAN (`Kconfig.at`), so that the raw LoRa image
has the stubs and always comes up in P2P_LORA. `adrift` marks a mode whose key a
factory reset could not delete, or deleted without the reboot that follows. `config`
holds the fields as numbers cut to their C width.

`AtLorawan` interleaves the handlers of the AT thread with `on_event()` of the
dispatcher, which share one context without a lock; the service is a set of
possible results per call, with the events each result publishes. The service's queue
is bounded and drops what does not fit, and the modem may reset. `awaiting` is "cut"
when the event a join is owed was dropped, or a reset took its attempt away.

## 4. Runs

`tlc -config <run>.cfg <module>`; the longest take three to four minutes with two workers.

| Run | Shows | Bounds |
|---|---|---|
| `service_calls` | one start, uplink ownership, announcement of a loss, through every public call with failures and an unexpected modem reset at any moment | one thread beside dispatcher and modem, one reset, queue of 1, one retry |
| `service_sequence` | the backend starts once; after READY a join is not refused (no stop, leave or reset in this run); the modem joins with the stored credentials unless they changed between begin_join()'s read and its claim; every sequence ends | one thread starts and joins, one starts and stores credentials; one retry, two credential sets, queue of 2 |
| `fuota` | the image booted is whole; at rest the state, the image and the keepalive are what they say, each but for named windows; an installation ends | two chunks, one application thread beside the work queue; four scenarios: every way to learn the size, a rejoin beside the keepalive, a second session, and a reset and a rejoin on a build that cannot install |
| `settings_policy` | a reboot restores what the API said of the policy assembled from three old keys | two values, failing reads and saves |
| `settings_reset` | the two caches agree; a successful reset is complete; a join keeps its credentials | two credentials, a shared setting with an old key, failing reads, saves and deletes |
| `p2p` | flags, test mode and transmit buffer consistent; each send reported once unless two completions met in the slot; what was there is gone after a stop; timed receives end and sends are reported | one thread with every call, one that sends and stops, neither waiting; four calls, three packets |
| `class_power` | the noted class settles on the modem's unless the last note was overtaken; the power reference goes with it at every step; subscribers served in order and once; the counts implement the ledger | two threads, three calls, two modem events, queue of 1, maximum count 1 |
| `at_lines` | settings in RAM are those of the next boot; input executed as typed and answered; an overflow is answered | two lines of every kind, ring of 3, chunks of 2, lines of 2 tokens; with and without AT storage |
| `at_mode` | no stored mode faults at boot; the mode in effect is the one an image with LoRaWAN comes up in; the radio follows; a mode found at boot works or gives way to the default | five builds (LoRaWAN with and without raw LoRa and AT storage, raw LoRa on each backend), four commands, three boots |
| `at_lorawan` | joins begin only when asked and are answered unless their event was dropped or a reset took the attempt; an uplink's event is its own; a downlink is read once | three commands, two downlinks, one retry, queue of 2, one reset |
| `network` | mask, link, requests and sessions as accepted, a join with a mask stored during its call, identity reads current, through leaves, resets and restarts | six clients, four calls, three events, two threads |
| `zephyr_worker` | one owner per uplink, on a session; a join kept up but for two named windows; nonces fresh; everything retried ends | three clients, two threads, five calls, two failures |

Why the bounds are enough: each is the smallest at which the case exists and is
exceeded once. A queue of one (below the Kconfig minimum of 4) overflows
within a join or two Class B events, which a queue of four does only after longer
runs of the same events; `service_sequence` uses two, so that most sequences run
to their end without a loss (`SequenceEnds` excepts a sequence that an event was
lost of). One retry has both the last attempt and one before it. A maximum count of
one has a refused and a granted reference. Two threads suffice for a race on a
check, and the theorems of section 6 hold for any number. Two chunks give a
first and a last; two joins give a stale value something to be stale against.
Three packets overfill the receive queue. A ring of three holds less than the
longest line, a line of two tokens is exceeded by one script. Four commands reach a
switch, a use, a failing switch back and a use after it. The numbers in
`SomeP2pWrites` are at the limits and where cutting to width brings a value back
into range.
`Backoff = TRUE` lets the dispatcher deal with a failed attempt before the modem
ends the next one: attempts are seconds apart. `CHECK_DEADLOCK FALSE` is set
where the bounds let the environment run out of events.

`settings_reset` uses a VIEW without `told`, `superseded` and `wrote`. No action
reads them and its two action properties do not mention them, so states that
agree on the view have the same successors in it; only the types of those
variables, part of `CachesConsistent`, are then checked on one representative,
and the theorem `CachesAreConsistent` has them in full. `class_power` uses
symmetry in threads and subscribers, `network` in threads; both check safety only.
`ServiceConsistent` with more threads than one is the theorem `ServiceIsConsistent`;
the start by two threads is also in `service_sequence`.

### What the code does not keep

The configurations `*_open.cfg` list properties which the model refutes.
TLC stops at the first violation, so check one at a time: delete the other names
from the cfg. They are for whoever changes the code they are about.

| Configuration, module | Property | What happens |
|---|---|---|
| `service_open`, `MCLorawanService` | `JoinNotBlocked` | after a leave or a reset READY is announced, yet the next join is refused as busy |
| | `StopKeepsSession` | a stop overtaken by the Join-Accept leaves the session just joined |
| | `FailureMeansExhausted` | subscribers see JOIN_FAILED although attempts were left |
| | `OwnershipMatches` | clearing a finished sequence unlocks the credentials of the next |
| | `ReadyIsTrue` | READY is announced while the session continues |
| | `OverflowReported` | a lost event is never reported |
| `service_race_open`, `MCLorawanService` | `CredentialsStored` | credentials stored between begin_join()'s read and its claim are owned but not joined with |
| `class_open`, `MCDeviceClass` | `NotedClassIsAlwaysModems` | two overlapping class calls, or a modem reset, leave another class noted than the modem's |
| | `ClassCIsPowered` | the modem is in Class C and no power reference is held |
| `fuota_open`, `MCFuota` | `UpgradeAlwaysWhole` | after a rejoin MCUboot is asked to boot a slot nothing was copied to; after a second session one with chunks of two images |
| | `KeepaliveWaits` | READY without a keepalive, scheduled while the cancelled handler was still sending |
| | `TransferringIsActive` | TRANSFERRING without a session, the FLASH reference held |
| | `ApplyHoldsFlash` | the FLASH reference is released during the copy |
| | `ApplyingIsReal` | APPLYING for good without an image manager |
| | `CompleteHasImage` | COMPLETE without an image |
| | `ReadyImageStays` | a new session overwrites an image still called ready |
| | `SizeIsCurrent`, `BackendSizeWins` | an image installed with another image's or the configured size |
| `settings_open`, `MCLorawanSettings` | `WriteIsDurable` | after a reset whose delete failed a setter returns 0 and the value is not in flash |
| | `LegacyStaysSuperseded` | an old value returns after an interrupted reset |
| `p2p_open`, `MCLoraP2p` | `NeverLost`, `NeverTwice` | a completion lost, one reported twice, when two threads send without waiting |
| | `StoppedIsQuiet` | a frame is transmitted after stop returned |
| | `PacketsDelivered` | a received packet vanishes |
| | `PacketsClear` | a packet is deciphered with a later key |
| | `OneTable` | a callback is called with another table's user_data |
| `at_lines_open`, `MCAtService` | `TruncatedNotExecuted` | the rest of a line that lost bytes in the ring is executed as a command |
| | `EveryLineAnswered` | AT?, ATE?, ATZ? or ATR? stays unanswered when its text cannot be written |
| `at_mode_open`, `MCAtNetworkMode` | `BusyInLorawan` | P2P parameters are accepted in LoRaWAN mode |
| | `LimitsRefused` | a value out of range is accepted when cutting it to its width brings it into range |
| | `ModeAlwaysSurvives` | the raw LoRa image loses AT+NWM at the next reboot; a half-failed factory reset leaves a mode that flash does not have |
| `at_lorawan_open`, `AtLorawan` | `OutstandingUplinkMode` | the mode noted for an outstanding uplink is changed by a send that is then refused |
| | `ClassApplied` | a join runs with another class than AT+CLASS has set |
| | `DeferredUntilReady` | the deferred join begins before the backend is ready |
| | `StopStops` | AT+JOIN=0 returns while the dispatcher is about to begin the join |
| | `NoJoinCut` | a join answered OK never gets its event: it was dropped on a full queue, or the modem was reset |
| `network_open`, `MCNetwork` | `JoinMaskStored` | a mask changed while a join is being built is stored but not joined with |
| | `EveryStored` | a one-time request erases the EVERY_UPLINK another thread has just stored |
| | `RemovedIsGone` | a session with a removed address runs on when the address was added twice |
| | `ThresholdUsed` | turning listen-before-talk on drops the threshold |
| `zephyr_open`, `MCZephyrBackend` | `AcceptedJoinRuns` | a join accepted before the handler that leave() cancelled has returned gets no work item: it stays pending for good and every later join is busy |
| | `LeaveCancels`, `ResultDropped` | a join that was left stays pending; its late result is still published |
| | `RateIsCurrent` | the data rate read back is not the one in use |
| | `FragRuns` | the fragmentation transport counts as started although it did not start |

## 5. Fairness

- `LorawanService`: a thread inside a call and the dispatcher run on (Zephyr
  schedules every ready thread; no step blocks for ever); the modem ends every
  join attempt. The latter is strong: leaving and joining again interrupts an
  attempt, and LoRa Basics Modem ends each that lasts.
- `Fuota`: an installer that has begun and the dispatcher run on, until the
  reboot. Nothing is assumed of sessions, joins or the keepalive.
- `LoraP2p`: calls return, clients keep polling (`lora.h`: "call it
  periodically"), transmissions and receive windows end, time passes. Which way
  a window ends is not constrained: it may be preempted for ever, and a
  resubmitted window counts as a step, so the deadline alone ends the receive.
- `AtService`, `AtNetworkMode`: the AT thread runs (its semaphore is given by
  the interrupt, and its loop does not block on the host). Nothing is assumed
  of the host.
- `AtLorawan`: AT thread, dispatcher and modem run on; commands and downlinks
  need not come.
- `ZephyrBackend`: the worker runs and the stack's blocking calls return, delays
  end, a thread inside a call submits. After `MaxFails` failures the network
  answers: without that a join is retried for ever, which is what the code
  means to do.
- `LorawanSettings`, `DeviceClass` and `Network` state no liveness.

## 6. Proofs

All proofs are checked by TLAPS to the last leaf; constants are arbitrary under the
named assumptions of each module.

**LorawanServiceProofs** (`ServiceAssumption`: any threads, queue size, retry
limits). `TypeCorrect` needs `CounterOK`: the shared retry counter is decremented
after a check that another clear can overtake, so its bound depends on who stands
between check and decrement. `StartedOnce` and `UplinkOwned` are proved together:
that nothing is transmitted before the start is part of who owns an uplink;
`ServiceIsConsistent` joins them. `LossIsReported` rests on `Deciding`, which says
that whoever took the modem out of the network still has its READY to publish, or
that the announcement is queued behind the last JOINED.
`CredentialsAreUsed` is for any threads, with all their calls, resets and faults:
`ConfigCurrent` says that what begin_join() carries is what is stored, or marked as
raced, until the modem has it; with it the property is inductive. `JoinIsNotBlocked` is
for any threads and faults under `QuietClient` (no stop, no leave, no modem reset, attempts
spaced by the backoff). `BlockInv` says that a JOIN_FAILED in the queue or in the
dispatcher's hands is the only one and is about the join the modem is still trying, so
that the leave at the retry limit cannot hit a newer join, and that an active sequence
is in the hands of a thread or of the modem (`Carried`). Each hypothesis is needed:
a leave or a reset makes the modem idle under an active sequence (`service_open.cfg`),
and a stop, or a second failure in the queue, leaves the dispatcher with a failure of a
join that is over.

**DeviceClassProofs** (`ClassAssumption`: any threads, subscribers, services, slots,
queue size and maximum count). `LedgerIsKept` is the refinement: `Spec` implements
`PmLedger`. Every step is reduced to one of six kinds by the client whose references it
touches (`PowerSteps`), and each kind is a step of the ledger (`TakeStep`,
`ReleaseStep`) or none; this needs `Balance`, the counts lock by lock, because a release
is granted only if the count is not zero. `ClassIsConsistent` needs `LockInv` (who is to
publish holds the USP lock) and `NoteInv`: the latest caller, if it has still to note a
class, holds the modem's. `SubscribersAreServed` needs `TableInv` (a pair is in one
slot, in the table and in the copy; a late one that was called is no longer in the copy)
and `FreshInv`, which follows the last event from the end of the queue into the
dispatcher's hands and to every subscriber it concerns, and says that the overflow event
never comes between.

**LorawanSettingsProofs** (`SettingsAssumption`, `MarkersAssumption`: any manifest,
values, faults). `SettingsTypeCorrect`; `CachesAgree` and `CachesAreConsistent`,
inductive with the types; `RebootIsSafe` under the hypothesis that no delete fails,
with the strengthening `RestoreInv`: outside a reset the cache agrees with flash,
during one nothing is promised, and only keys that some call loads are promised.
`WriteIsDurable` in `settings_open.cfg` shows that the hypothesis is needed. The two
action properties hold for any faults: `ResetsAreComplete` and `JoinsKeepCredentials`
rest on `ResetInv`, that a reset excludes a join and that one without an error so far
has deleted every key before its position; that the positions cover every key of both
namespaces is the lemma `Victims`, and that writing one key changes what a reboot
loads of that key only is `WriteKeepsLoads`.

**LoraP2pProofs** (`P2pAssumption`: any threads, queue depth and bounds).
`FlagsAreTrue`, `TestModeExclusive`, `FrameOnAirIntact`, `P2pTypeCorrect` and
`RadioIsConsistent` follow from one inductive invariant, `TypeOK /\ Good(usp)`. `Good`
is the three invariants as a predicate of the backend state, with one conjunct more: a
radio that is not open has no transaction, because `abort_p2p()` leaves a closed radio
alone. Each section under the USP lock is shown to map good states to good states, one
lemma per C function. `StopsAreQuiet` rests on `StopInv`, which follows stop() from its
section under the USP lock to its return: whatever is on the radio then was put there
later. `SendsAreAccounted` is for any threads, tables (a NULL function included) and
number of calls; by `OrderInv`, `SlotInv` and `ToldInv` a send is in one place of the
air, the completion slot and a poll's hands, and leaves them only by being reported,
discarded by stop(), overwritten (`covered`), or read by a poll that had taken an
earlier one (`repeated`).

**NetworkProofs** (the assumptions of `LorawanCall` and the parts: any clients, threads,
channel inputs, addresses, rates and bounds) is about the composition, so every theorem
is of `Network`'s `Spec`, in which leaves, resets, restarts and the other parts' calls
come between. `CallInv` is shared: a session, and a join on its way to one, need a
started service. `LinkIsKept` (`LinkInv`: modem and last accepted call agree with or
without a session, and the network moves the rate only while nobody has asked for one)
and `RequestsAreKept` (`MacInv`: a one-time mode is in the hands of a call that will
clear it or be refused) are unconditional. `SessionsAreKept` (`McInv`) counts, for each
address, the groups that run with it against the additions not yet removed.
`IdentityIsCurrent` (`InfoInv`) holds for the activations USP supports, which do not
include ABP. `MaskIsKept` (`MaskInv`) is for any threads: the mask a join carries is one
of those stored since the call began.

**ZephyrBackendProofs** (any threads and bounds). `BackendIsConsistent` is
unconditional. Its invariant has four parts: types; `QueueInv`, which flags of `k_work`
a work item may combine, and that a join whose item is being cancelled has been stopped;
`JoinInv`, that a join is pending as long as its item waits or runs, and excludes
uplinks; `TxInv`, that a pending uplink is in exactly one place. The ghost `orphaned`
names the two windows in which the code loses the work item of a pending join
(`JoinKeptUp`); the theorem says that there is no third. `NoncesAreFresh` is the action
property that no DevNonce is used twice, under the hypothesis that there are fewer join
requests than the `uint16_t` counter has values: `NonceInv` keeps the counter past every
nonce used and charges each attempt to a call or a failure still to come.

**FuotaProofs** (`FuotaAssumption`: any number of chunks, appliers and scenarios). The
three theorems hold for any scenario, with any number of sessions, joins, resets and
dropped events. `KeepaliveIsKept` follows from `ControlInv` (where each handler and
installer can be) and `KeepInv` (in READY and FAILED somebody is about to schedule the
keepalive, it is scheduled, or the schedule was missed). `TruthHoldsAtRest` adds
(`TransferInv`, `ReadyInv`, `ReceiveInv`) the order in which a session, its image and
its end are reported through the queue. `UpgradesAreWhole` (`AreaInv`, `CopyInv`) ties
what each installer has copied and will copy to the image in the fragment area and to
the harm that came to it. The exceptions each property names are needed:
`fuota_open.cfg` has a behaviour for them.

**AtProofs** extends the three AT modules, whose specifications are `Spec` (of
`AtNetworkMode`), `LwSpec` and `AtSpec`. The theorems rest on the assumptions the
modules make of their constants (`ModeAssumption`, `AtLorawanAssumption`,
`AtAssumption`, `ScriptsAssumption`), which TLC evaluates in the runs.

*Mode* (any builds, host inputs and bounds). One lemma per call of the raw LoRa service
says what it may leave of the radio (`InitRadio`, `StopRadio`, `SendKeeps`...).
`RadioIsInMode` needs `RadioInv`, which says at each step of a switch which of the two
modes the radio fits, and that a switch away from LoRaWAN finds the modem out of test
mode: otherwise the rollback's stop could be refused and leave it in test mode.
`ModeIsKept` needs `ModeInv`: a radio that faults never gets as far as the save, and a
switch under way knows the mode that flash still has. `ConfigIsInRange`, which no run
checks, is for every `uint32_t` the host types: the lemma `Cut` bounds what is left
after the cast.

*Commands of LoRaWAN* (`LwSpec`: any join policies, inputs and bounds).
`JoinsAreBegunOnce` and `HostAnswersAreRight` follow from `LwInv`. Its part `LwJoins`
counts: the joins begun, the one a handler is about to begin and the one left to the
dispatcher (`join_pending`, or already in its hands) add up to no more than was asked
for. `LwUplinks` follows the one outstanding uplink from the modem through the queue
into on_event() and says that its mode was noted before; it needs a host that waits for
the report (`HostWaits`). `LwDownlinks` numbers the downlinks heard, queued, stored and
read.

*Lines and settings* (`AtSpec`: any ring, chunk and line size, extensions, faults).
`SettingsAreKept` rests on `StSettings`: a handler publishes to RAM what it saved, and
the answer of a factory reset is tied to the extensions it went through; one lemma per
command says what it leaves of the device. `LinesAreAnsweredAsTyped` rests on `StReads`.
The bytes on their way (the chunk the AT thread took, the ring, and what the host still
has to send) form one stream, and each key carries the line its author means.
`ReadsWell` says that the parser, fed the stream from a position, meets at each
terminator the line that terminator means. It holds from the parser's own state as long
as nothing before was lost, and, because a terminator resets the parser, from every
terminator sent after the last overflow; an overflow loses the first fact and not the
second, which is how the service recovers. Generations date the bytes, so that those
sent before a loss are told from those sent after it. The theorem needs `ScriptsSpell`:
a script, typed to an idle parser, ends no line but the one it means and leaves nothing
behind, and `edit`, the recursive function that folds the parser over its keys,
satisfies its equations (a fact of every finite script, stated because induction over a
script is out of reach). `ScriptsAssumption` states both, and TLC evaluates it.

Only model-checked: liveness (`SequenceEnds`, `ApplyEnds`, `TxCompletes`,
`TimedReceiveEnds`, `SendReported`, `OverflowAnswered`, `StartResolves`,
`JoinAnswered`, `RetriesEnd`), which TLAPS does not prove under fairness. Every other
property of the runs is a theorem.

## 7. Not modelled

- Certification calls, the getters of the network API, its setters that only check
  a range and pass the value on (nb_trans, the ADR acknowledgement limits), the query
  of the join backoff, the listing of multicast groups and the MIB pass-through of
  the Zephyr backend: one call into the modem, no state. NetID
  is a stored setting.
- Ping-slot periodicity, the fragment decoder's storage callbacks, the
  one-time initialization of the USP platform beyond its place in the start.
- Text: formatting and parsing of AT parameters other than the conversions of
  channel masks and the width of P2P parameters; error-name tables.
- Radio parameter tables and their mapping to the drivers; record checksums and
  name building of the storage service; the loopback radio backend of the tests.
- Samples, board files, build files, tests.
- Calls from an ISR: every API refuses them before it touches state.
