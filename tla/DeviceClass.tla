----------------------------- MODULE DeviceClass -----------------------------
(***************************************************************************)
(* The device class, from the call to the subscribers and to the power     *)
(* service: set_class(), get_class(), stop_class_b() and leave() of        *)
(* src/src/lorawan/lorawan.c on the USP backend, the Class B events they   *)
(* and the modem publish, the subscriber and service tables that receive   *)
(* them, and src/src/power/power.c with its clients.                       *)
(*                                                                         *)
(* A class call is two sections: the modem is changed under the USP lock,  *)
(* the class is noted afterwards under config_lock.  The Class B event is  *)
(* a step of its own inside the first one, because the order of two of     *)
(* them is what the USP lock is for.                                       *)
(***************************************************************************)
EXTENDS Integers, Sequences, Functions

CONSTANTS
    Threads,        \* threads that call the LoRaWAN API
    Subs,           \* subscribers, as pairs of on_event and user_data
    Services,       \* services that attach with register_service()
    SlotCount,      \* CONFIG_RZI_LORAWAN_MAX_CALLBACKS
    QueueSize,      \* CONFIG_RZI_LORAWAN_EVENT_QUEUE_SIZE
    MaxCount,       \* UINT8_MAX, the highest lock count
    MaxCalls,       \* bound: API calls
    MaxModem,       \* bound: events of the modem
    MaxOthers       \* bound: calls of the other clients of the power service

ServiceMax == 2     \* SERVICE_MAX
Classes == {"A", "B", "C"}
BStates == {"IDLE", "ACQUIRING", "ACTIVE"}
Locks == {"APP", "LORAWAN", "FLASH"}    \* the ones a client in the repository takes
PmClients == {"lorawan", "storage", "fuota", "app"}
NoOne == "nobody"
Member == -1

ASSUME ClassAssumption ==
    /\ SlotCount \in Nat \ {0} /\ QueueSize \in Nat \ {0} /\ MaxCount \in Nat \ {0}
    /\ MaxCalls \in Nat /\ MaxModem \in Nat /\ MaxOthers \in Nat
    /\ NoOne \notin Threads \cup Subs

VARIABLES
    \* power.c
    is_pm_locked, lock_counts, native,
    \* lorawan.c
    configured_class, power_class_c_held, events, overflow, callback_slots, services,
    \* lorawan_backend_usp.c and the modem
    usp_lock, ready, class_b_state, modem_class,
    \* threads in a class call: where they are and the class they will note
    pc, noting,
    \* the dispatcher: where it is, the event in hand, its copy of the subscribers
    disp, current, subscribers,
    \* the other clients of the power service
    storing, power_flash_held, app_refs,
    \* what the properties remember
    latest,         \* the thread that set or read the modem's class last; NoOne: it was reset
    overtaken,      \* a later section, or a reset, came before the class noted last was noted
    unpowered,      \* the reference for the class noted last was refused, or leave() released it
    published,      \* the last Class B event handed to the sink
    fresh,          \* subscribers registered since before it was queued
    seen,           \* the last Class B event each subscriber and service was given
    late,           \* calls of a subscriber since it unregistered, or Member
    calls, modem_events, others

power == <<is_pm_locked, lock_counts, native>>
queue == <<events, overflow, published, fresh>>
table == <<callback_slots, services, late>>
modem == <<ready, class_b_state, modem_class>>
class == <<configured_class, power_class_c_held>>
dispatcher == <<disp, current, subscribers, seen>>
clients == <<storing, power_flash_held, app_refs, others>>
history == <<latest, overtaken, unpowered>>
thread == <<pc, noting, calls, history>>
vars == <<power, queue, table, modem, class, dispatcher, clients, thread, usp_lock, modem_events>>

-----------------------------------------------------------------------------
(* power.c *)

set_pm_enabled(enabled) ==
    /\ is_pm_locked' = ~enabled
    /\ native' = IF ~enabled /\ ~is_pm_locked THEN native + 1
                 ELSE IF enabled /\ is_pm_locked THEN native - 1 ELSE native
    /\ UNCHANGED lock_counts

get_ok(lock) == lock_counts[lock] # MaxCount
put_ok(lock) == lock_counts[lock] # 0

lock_get(lock) ==
    /\ lock_counts' = IF get_ok(lock) THEN [lock_counts EXCEPT ![lock] = @ + 1] ELSE lock_counts
    /\ native' = IF get_ok(lock) THEN native + 1 ELSE native
    /\ UNCHANGED is_pm_locked

lock_put(lock) ==
    /\ lock_counts' = IF put_ok(lock) THEN [lock_counts EXCEPT ![lock] = @ - 1] ELSE lock_counts
    /\ native' = IF put_ok(lock) THEN native - 1 ELSE native
    /\ UNCHANGED is_pm_locked

-----------------------------------------------------------------------------
(* lorawan.c: subscribers and services *)

Active == {i \in 1..SlotCount : callback_slots[i] # NoOne}
Registered == {callback_slots[i] : i \in Active}

\* The first free slot, unless the pair is already there.
register_callbacks(s) ==
    /\ s \notin Registered
    /\ \E available \in (1..SlotCount) \ Active :
          /\ \A j \in (1..SlotCount) \ Active : available <= j
          /\ callback_slots' = [callback_slots EXCEPT ![available] = s]

unregister_callbacks(s) ==
    \E slot \in {i \in Active : callback_slots[i] = s} :
        /\ \A j \in Active : callback_slots[j] = s => slot <= j
        /\ callback_slots' = [callback_slots EXCEPT ![slot] = NoOne]

Register(s) ==
    /\ calls < MaxCalls /\ calls' = calls + 1
    /\ register_callbacks(s)
    /\ late' = [late EXCEPT ![s] = Member]
    /\ UNCHANGED <<power, queue, services, modem, class, dispatcher, clients, pc, noting, history,
                   usp_lock, modem_events>>

Unregister(s) ==
    /\ calls < MaxCalls /\ calls' = calls + 1
    /\ unregister_callbacks(s)
    /\ fresh' = fresh \ {s}
    /\ late' = [late EXCEPT ![s] = 0]
    /\ UNCHANGED <<power, events, overflow, published, services, modem, class, dispatcher,
                   clients, pc, noting, history, usp_lock, modem_events>>

\* A second registration of one service is not refused.
RegisterService(s) ==
    /\ calls < MaxCalls /\ calls' = calls + 1
    /\ Len(services) < ServiceMax
    /\ services' = Append(services, s)
    /\ UNCHANGED <<power, queue, callback_slots, late, modem, class, dispatcher, clients, pc, noting,
                   history, usp_lock, modem_events>>

-----------------------------------------------------------------------------
(* lorawan_backend_usp.c: the section under the USP lock *)

\* The event goes to the queue of the service; a full queue raises the flag instead.
publish_class_b(state) ==
    /\ published' = state
    /\ IF Len(events) < QueueSize
       THEN events' = Append(events, state) /\ fresh' = Registered /\ UNCHANGED overflow
       ELSE overflow' = TRUE /\ fresh' = {} /\ UNCHANGED events

\* The call holds the USP lock while an event is still to be published.
Enter(t) ==
    /\ pc[t] = "idle" /\ usp_lock = NoOne /\ ready
    /\ calls < MaxCalls /\ calls' = calls + 1

\* A class_b_state that changed is published before the lock is released.
Leave(t, changed, to) ==
    /\ usp_lock' = IF changed THEN t ELSE NoOne
    /\ pc' = [pc EXCEPT ![t] = IF changed THEN "publish" ELSE "note"]
    /\ noting' = [noting EXCEPT ![t] = to]
    /\ latest' = t
    /\ UNCHANGED <<overtaken, unpowered>>

Next_b(c) == IF c = "B" THEN "ACQUIRING" ELSE "IDLE"

\* Mutant: the lock is released before the event is published.
UspSetClassUnlocked(t, c) ==
    /\ Enter(t)
    /\ modem_class' = c
    /\ class_b_state' = Next_b(c)
    /\ pc' = [pc EXCEPT ![t] = IF class_b_state # Next_b(c) THEN "publish" ELSE "note"]
    /\ noting' = [noting EXCEPT ![t] = c]
    /\ latest' = t
    /\ UNCHANGED <<overtaken, unpowered>>
    /\ UNCHANGED <<power, queue, table, ready, class, dispatcher, clients, usp_lock, modem_events>>

SetClass(t, c) ==
    /\ Enter(t)
    /\ modem_class' = c
    /\ class_b_state' = Next_b(c)
    /\ Leave(t, class_b_state # Next_b(c), c)
    /\ UNCHANGED <<power, queue, table, ready, class, dispatcher, clients, modem_events>>

\* The modem refuses: class_b_state, set in advance, goes back before the lock is released.
SetClassFails(t, c) ==
    /\ Enter(t)
    /\ UNCHANGED <<power, queue, table, modem, class, dispatcher, clients, pc, noting, history,
                   usp_lock, modem_events>>

StopClassB(t) ==
    /\ Enter(t)
    /\ modem_class' = "A"
    /\ class_b_state' = "IDLE"
    /\ Leave(t, class_b_state # "IDLE", "A")
    /\ UNCHANGED <<power, queue, table, ready, class, dispatcher, clients, modem_events>>

GetClass(t) ==
    /\ Enter(t)
    /\ Leave(t, FALSE, modem_class)
    /\ UNCHANGED <<power, queue, table, modem, class, dispatcher, clients, modem_events>>

UspPublish(t) ==
    /\ pc[t] = "publish"
    /\ publish_class_b(class_b_state)
    /\ usp_lock' = NoOne
    /\ pc' = [pc EXCEPT ![t] = "note"]
    /\ UNCHANGED <<power, table, modem, class, dispatcher, clients, noting, calls, history,
                   modem_events>>

\* The modem keeps its class when it leaves the network; only the power reference goes.
LeaveNetwork(t) ==
    /\ Enter(t)
    /\ pc' = [pc EXCEPT ![t] = "leave"]
    /\ UNCHANGED <<power, queue, table, modem, class, dispatcher, clients, noting, history, usp_lock,
                   modem_events>>

-----------------------------------------------------------------------------
(* lorawan.c: the section under config_lock *)

\* Mutant: a reference that was refused is recorded as held.
UpdatePowerIgnoresRefusal(class_c) ==
    /\ IF class_c /\ ~power_class_c_held THEN lock_get("LORAWAN")
       ELSE IF ~class_c /\ power_class_c_held THEN lock_put("LORAWAN")
       ELSE UNCHANGED power
    /\ power_class_c_held' = class_c

update_class_c_power_locked(class_c) ==
    /\ IF class_c /\ ~power_class_c_held THEN lock_get("LORAWAN")
       ELSE IF ~class_c /\ power_class_c_held THEN lock_put("LORAWAN")
       ELSE UNCHANGED power
    /\ power_class_c_held' =
           IF class_c THEN power_class_c_held \/ get_ok("LORAWAN")
           ELSE power_class_c_held /\ ~put_ok("LORAWAN")

\* Mutant: the power reference is left for the next call.
NoteClassOnly(t) ==
    /\ pc[t] = "note"
    /\ configured_class' = noting[t]
    /\ overtaken' = (latest # t)
    /\ unpowered' = FALSE
    /\ pc' = [pc EXCEPT ![t] = "idle"]
    /\ UNCHANGED <<latest, power, queue, table, modem, power_class_c_held, dispatcher, clients, noting,
                   calls, usp_lock, modem_events>>

note_class(t) ==
    /\ pc[t] = "note"
    /\ configured_class' = noting[t]
    /\ update_class_c_power_locked(noting[t] = "C")
    /\ overtaken' = (latest # t)
    /\ unpowered' = (noting[t] = "C" /\ ~power_class_c_held /\ ~get_ok("LORAWAN"))
    /\ pc' = [pc EXCEPT ![t] = "idle"]
    /\ UNCHANGED <<latest, queue, table, modem, dispatcher, clients, noting, calls, usp_lock, modem_events>>

LeavePower(t) ==
    /\ pc[t] = "leave"
    /\ update_class_c_power_locked(FALSE)
    /\ pc' = [pc EXCEPT ![t] = "idle"]
    /\ unpowered' = TRUE
    /\ UNCHANGED <<latest, overtaken, queue, table, modem, configured_class, dispatcher, clients, noting, calls,
                   usp_lock, modem_events>>

-----------------------------------------------------------------------------
(* The modem's events, handled under the USP lock *)

\* No order between these events and the class calls is assumed of the modem.
ClassBStatus(next) ==
    /\ usp_lock = NoOne /\ modem_events < MaxModem
    /\ modem_events' = modem_events + 1
    /\ class_b_state' = next
    /\ IF class_b_state # next THEN publish_class_b(next) ELSE UNCHANGED queue
    /\ UNCHANGED <<power, table, ready, modem_class, class, dispatcher, clients, thread, usp_lock>>

\* A reset modem is back in Class A; class_b_state and configured_class are not touched.
ModemReset(ok) ==
    /\ usp_lock = NoOne /\ modem_events < MaxModem
    /\ modem_events' = modem_events + 1
    /\ ready' = ok
    /\ modem_class' = "A"
    /\ latest' = NoOne
    /\ overtaken' = TRUE
    /\ UNCHANGED <<power, queue, table, class_b_state, class, dispatcher, clients, pc, noting,
                   calls, unpowered, usp_lock>>

-----------------------------------------------------------------------------
(* lorawan.c: the dispatcher thread *)

DispGet ==
    /\ disp = "idle" /\ events # <<>>
    /\ current' = Head(events)
    /\ events' = Tail(events)
    /\ disp' = "copy"
    /\ UNCHANGED <<power, overflow, published, fresh, table, modem, class, subscribers, seen,
                   clients, thread, usp_lock, modem_events>>

\* The active slots, copied under callbacks_lock.
DispCopy ==
    /\ disp = "copy"
    /\ subscribers' = callback_slots
    /\ disp' = "call"
    /\ UNCHANGED <<power, queue, table, modem, class, current, seen, clients, thread, usp_lock,
                   modem_events>>

\* The copied slots that are still to be called.
ToCall == {i \in 1..SlotCount : subscribers[i] # NoOne}

\* Slot i is called, the ones before it have been.
DispCall(i) ==
    /\ disp = "call" /\ i \in ToCall /\ \A j \in ToCall : i <= j
    /\ seen' = [seen EXCEPT ![subscribers[i]] = current]
    /\ late' = [late EXCEPT ![subscribers[i]] = IF @ = Member THEN @ ELSE @ + 1]
    /\ subscribers' = [subscribers EXCEPT ![i] = NoOne]
    /\ UNCHANGED <<power, queue, callback_slots, services, modem, class, disp, current, clients, thread, usp_lock,
                   modem_events>>

\* The services come last; a full queue is reported as one more event.
DispServices ==
    /\ disp = "call" /\ ToCall = {}
    /\ seen' = [s \in DOMAIN seen |-> IF s \in Range(services) THEN current ELSE seen[s]]
    /\ overflow' = (overflow /\ current = "OVERFLOW")
    /\ IF overflow /\ current # "OVERFLOW"
       THEN disp' = "copy" /\ current' = "OVERFLOW"
       ELSE disp' = "idle" /\ UNCHANGED current
    /\ UNCHANGED <<power, events, published, fresh, table, modem, class, subscribers, clients,
                   thread, usp_lock, modem_events>>

-----------------------------------------------------------------------------
(* The other clients of the power service *)

Other == others < MaxOthers /\ others' = others + 1

still == <<queue, table, modem, class, dispatcher, thread, usp_lock, modem_events>>

\* A write or a delete of storage_settings.c, under storage_lock; it fails when the reference is refused.
StoreBegin ==
    /\ Other /\ ~storing
    /\ lock_get("FLASH")
    /\ storing' = get_ok("FLASH")
    /\ UNCHANGED <<still, power_flash_held, app_refs>>

StoreEnd ==
    /\ storing
    /\ lock_put("FLASH")
    /\ storing' = FALSE
    /\ UNCHANGED <<still, power_flash_held, app_refs, others>>

\* set_state_locked() of the FUOTA coordinator; want: TRANSFERRING or APPLYING.
FuotaState(want) ==
    /\ Other
    /\ IF want /\ ~power_flash_held THEN lock_get("FLASH")
       ELSE IF ~want /\ power_flash_held THEN lock_put("FLASH")
       ELSE UNCHANGED power
    /\ power_flash_held' = (want /\ (power_flash_held \/ get_ok("FLASH")))
    /\ UNCHANGED <<still, storing, app_refs>>

\* An application takes and releases references of its own on any lock, in pairs.
AppGet(lock) ==
    /\ Other
    /\ lock_get(lock)
    /\ app_refs' = IF get_ok(lock) THEN [app_refs EXCEPT ![lock] = @ + 1] ELSE app_refs
    /\ UNCHANGED <<still, storing, power_flash_held>>

AppPut(lock) ==
    /\ app_refs[lock] > 0
    /\ lock_put(lock)
    /\ app_refs' = [app_refs EXCEPT ![lock] = @ - 1]
    /\ UNCHANGED <<still, storing, power_flash_held, others>>

\* AT+LPM
SetPm(enabled) ==
    /\ Other
    /\ set_pm_enabled(enabled)
    /\ UNCHANGED <<still, storing, power_flash_held, app_refs>>

-----------------------------------------------------------------------------
Init ==
    /\ is_pm_locked = FALSE /\ lock_counts = [l \in Locks |-> 0] /\ native = 0
    /\ configured_class = "A" /\ power_class_c_held = FALSE
    /\ events = <<>> /\ overflow = FALSE /\ published = "IDLE" /\ fresh = {}
    /\ callback_slots = [i \in 1..SlotCount |-> NoOne] /\ services = <<>>
    /\ usp_lock = NoOne /\ ready = FALSE /\ class_b_state = "IDLE" /\ modem_class = "A"
    /\ pc = [t \in Threads |-> "idle"] /\ noting = [t \in Threads |-> "A"]
    /\ disp = "idle" /\ current = "IDLE" /\ subscribers = [i \in 1..SlotCount |-> NoOne]
    /\ storing = FALSE /\ power_flash_held = FALSE /\ app_refs = [l \in Locks |-> 0]
    /\ late = [s \in Subs |-> Member]
    /\ seen = [s \in Subs \cup Services |-> "IDLE"]
    /\ latest = NoOne /\ overtaken = FALSE /\ unpowered = FALSE
    /\ calls = 0 /\ modem_events = 0 /\ others = 0

ClassCall(t) ==
    \/ \E c \in Classes : SetClass(t, c) \/ SetClassFails(t, c)
    \/ StopClassB(t) \/ GetClass(t) \/ LeaveNetwork(t)
    \/ UspPublish(t) \/ note_class(t) \/ LeavePower(t)

TableCall == \/ \E s \in Subs : Register(s) \/ Unregister(s)
             \/ \E s \in Services : RegisterService(s)

Modem == \/ \E next \in {"ACTIVE", "IDLE"} : ClassBStatus(next)
         \/ \E ok \in BOOLEAN : ModemReset(ok)

Dispatch == DispGet \/ DispCopy \/ DispServices \/ \E i \in 1..SlotCount : DispCall(i)

OtherClient ==
    \/ StoreBegin \/ StoreEnd
    \/ \E b \in BOOLEAN : FuotaState(b) \/ SetPm(b)
    \/ \E l \in Locks : AppGet(l) \/ AppPut(l)

Next ==
    \/ \E t \in Threads : ClassCall(t)
    \/ TableCall \/ Modem \/ Dispatch \/ OtherClient

Spec == Init /\ [][Next]_vars

-----------------------------------------------------------------------------
(* Properties *)

PowerOK ==
    /\ is_pm_locked \in BOOLEAN
    /\ lock_counts \in [Locks -> 0..MaxCount]
    /\ native \in Nat
    /\ storing \in BOOLEAN /\ power_flash_held \in BOOLEAN /\ power_class_c_held \in BOOLEAN
    /\ app_refs \in [Locks -> Nat]

ClassOK ==
    /\ configured_class \in Classes /\ modem_class \in Classes
    /\ ready \in BOOLEAN /\ class_b_state \in BStates
    /\ usp_lock \in Threads \cup {NoOne}
    /\ pc \in [Threads -> {"idle", "publish", "note", "leave"}]
    /\ noting \in [Threads -> Classes]
    /\ latest \in Threads \cup {NoOne} /\ overtaken \in BOOLEAN /\ unpowered \in BOOLEAN

EventsOK ==
    /\ events \in Seq(BStates) /\ Len(events) <= QueueSize
    /\ overflow \in BOOLEAN /\ published \in BStates /\ fresh \subseteq Subs
    /\ callback_slots \in [1..SlotCount -> Subs \cup {NoOne}]
    /\ services \in Seq(Services) /\ Len(services) <= ServiceMax
    /\ disp \in {"idle", "copy", "call"} /\ current \in BStates \cup {"OVERFLOW"}
    /\ subscribers \in [1..SlotCount -> Subs \cup {NoOne}]
    /\ seen \in [Subs \cup Services -> BStates \cup {"OVERFLOW"}]
    /\ late \in [Subs -> Nat \cup {Member}]

BoundsOK == calls \in 0..MaxCalls /\ modem_events \in 0..MaxModem /\ others \in 0..MaxOthers

\* Every variable has its type; no lock count passes its maximum.
TypeOK == PowerOK /\ ClassOK /\ EventsOK /\ BoundsOK

\* No thread is between changing or reading the modem's class and noting it.
AtRest == \A t \in Threads : pc[t] \in {"idle", "leave"}

\* However class calls overlap, once they are done the class the service has noted is the
\* modem's, unless the last note was made by a call that another call had overtaken at the
\* modem, or the modem was reset: lorawan.c changes the modem and notes the class in two
\* sections.  The next call that is not overtaken, a getter too, puts it right.
NotedClassIsModems == AtRest /\ ~overtaken => configured_class = modem_class

\* The power reference goes with the class that is noted, in every interleaving: it is held
\* in no other class than C, and in Class C unless power.c refused it or leave() released it.
PowerFollowsClass ==
    /\ power_class_c_held => configured_class = "C"
    /\ configured_class = "C" => power_class_c_held \/ unpowered

\* Without the exceptions: the class a client reads is the modem's, and a modem that listens
\* all the time keeps the device awake.
NotedClassIsAlwaysModems == AtRest => configured_class = modem_class
ClassCIsPowered == AtRest /\ modem_class = "C" => power_class_c_held

\* Whenever the USP lock is free the last Class B event published is the state the
\* backend reports: events of concurrent class changes "retain mutex order".
ClassBEventsOrdered == usp_lock = NoOne => published = class_b_state

\* Once the dispatcher is idle, a subscriber that was registered when the last Class B
\* event was queued, and still is, has been given the state the backend reports.
SubscriberCurrent ==
    (usp_lock = NoOne /\ disp = "idle" /\ events = <<>>) =>
        \A s \in fresh : seen[s] = class_b_state

\* One event calls a subscriber at most once, however registrations and the copy interleave.
CalledOnce == \A i, j \in ToCall : subscribers[i] = subscribers[j] => i = j

\* A subscriber that unregistered is called at most once more, by the dispatch whose copy
\* of the table is older: "a callback already present in the dispatcher snapshot may
\* still be in flight".
LateCallIsInFlight == \A s \in Subs : late[s] <= 1

\* What a subscriber may rely on: events in the order of the modem's states, the current one
\* last, each once, and at most one after it unregistered.
SubscribersServed == ClassBEventsOrdered /\ SubscriberCurrent /\ CalledOnce /\ LateCallIsInFlight

\* The references each client believes it holds.
Count(b) == IF b THEN 1 ELSE 0
On(lock, n) == [l \in Locks |-> IF l = lock THEN n ELSE 0]
pm_refs ==
    [c \in PmClients |->
        CASE c = "lorawan" -> On("LORAWAN", Count(power_class_c_held))
          [] c = "storage" -> On("FLASH", Count(storing))
          [] c = "fuota" -> On("FLASH", Count(power_flash_held))
          [] c = "app" -> app_refs]

\* Every lock count is the number of references its clients believe they hold, and the
\* native locks are their sum and the one of the runtime switch: nothing leaks when a
\* count is at its maximum or two clients share a lock.
CountsAreReferences ==
    /\ \A l \in Locks : lock_counts[l] = pm_refs["lorawan"][l] + pm_refs["storage"][l]
                                         + pm_refs["fuota"][l] + pm_refs["app"][l]
    /\ native = lock_counts["APP"] + lock_counts["LORAWAN"] + lock_counts["FLASH"]
                 + Count(is_pm_locked)

\* The noted class follows the modem's, and the references follow the noted class.
ClassConsistent == TypeOK /\ NotedClassIsModems /\ PowerFollowsClass /\ CountsAreReferences

Ledger == INSTANCE PmLedger WITH Clients <- PmClients, refs <- pm_refs, off <- is_pm_locked

\* The service, the storage, FUOTA and an application keep the promise of the power
\* service together: each native lock belongs to one reference that a client believes
\* it holds, refused references included, and none is released twice.
KeepsLedger == Ledger!Spec
=============================================================================
