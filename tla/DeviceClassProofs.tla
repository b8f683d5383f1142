-------------------------- MODULE DeviceClassProofs --------------------------
(***************************************************************************)
(* Proofs about DeviceClass, for any number of threads, subscribers,       *)
(* services and slots, any queue size and any maximum of the lock counts:  *)
(* the lock counts implement the ledger of references, the noted class     *)
(* settles on the modem's, and subscribers are served in order.            *)
(***************************************************************************)
EXTENDS DeviceClass, TLAPS

-----------------------------------------------------------------------------
(* The reference counts of the power service *)

\* What each client adds to each count.
LEMMA RefsOf ==
    /\ pm_refs["lorawan"] = On("LORAWAN", Count(power_class_c_held))
    /\ pm_refs["storage"] = On("FLASH", Count(storing))
    /\ pm_refs["fuota"] = On("FLASH", Count(power_flash_held))
    /\ pm_refs["app"] = app_refs
BY DEF pm_refs, PmClients

\* CountsAreReferences, lock by lock.
Balance ==
    /\ lock_counts["APP"] = app_refs["APP"]
    /\ lock_counts["LORAWAN"] = app_refs["LORAWAN"] + Count(power_class_c_held)
    /\ lock_counts["FLASH"] = app_refs["FLASH"] + Count(storing) + Count(power_flash_held)
    /\ native = lock_counts["APP"] + lock_counts["LORAWAN"] + lock_counts["FLASH"]
                 + Count(is_pm_locked)

LEMMA BalanceIsCounts ==
    ASSUME PowerOK
    PROVE  Balance <=> CountsAreReferences
<1>1. Count(power_class_c_held) \in Nat /\ Count(storing) \in Nat /\ Count(power_flash_held) \in Nat
  BY DEF Count
<1>2. \A l \in Locks : app_refs[l] \in Nat
  BY DEF PowerOK
<1>3. \A l \in Locks :
        /\ pm_refs["lorawan"][l] = IF l = "LORAWAN" THEN Count(power_class_c_held) ELSE 0
        /\ pm_refs["storage"][l] = IF l = "FLASH" THEN Count(storing) ELSE 0
        /\ pm_refs["fuota"][l] = IF l = "FLASH" THEN Count(power_flash_held) ELSE 0
        /\ pm_refs["app"][l] = app_refs[l]
  BY RefsOf DEF On
<1> DEFINE refs(l) == pm_refs["lorawan"][l] + pm_refs["storage"][l]
                        + pm_refs["fuota"][l] + pm_refs["app"][l]
<1>4. refs("APP") = app_refs["APP"]
  BY <1>2, <1>3 DEF Locks
<1>5. refs("LORAWAN") = app_refs["LORAWAN"] + Count(power_class_c_held)
  BY <1>1, <1>2, <1>3 DEF Locks
<1>6. refs("FLASH") = app_refs["FLASH"] + Count(storing) + Count(power_flash_held)
  BY <1>1, <1>2, <1>3 DEF Locks
<1>7. CountsAreReferences <=>
        /\ \A l \in Locks : lock_counts[l] = refs(l)
        /\ native = lock_counts["APP"] + lock_counts["LORAWAN"] + lock_counts["FLASH"]
                     + Count(is_pm_locked)
  BY DEF CountsAreReferences
<1> HIDE DEF refs
<1> QED BY <1>4, <1>5, <1>6, <1>7 DEF Balance, Locks

PowerInv == PowerOK /\ Balance

\* The steps that touch the references of one client.
LorawanPower == \E class_c \in BOOLEAN :
    update_class_c_power_locked(class_c) /\ UNCHANGED <<storing, power_flash_held, app_refs>>
StorePower ==
    /\ UNCHANGED <<power_class_c_held, power_flash_held, app_refs>>
    /\ \/ ~storing /\ lock_get("FLASH") /\ storing' = get_ok("FLASH")
       \/ storing /\ lock_put("FLASH") /\ storing' = FALSE
FuotaPower == \E want \in BOOLEAN :
    /\ IF want /\ ~power_flash_held THEN lock_get("FLASH")
       ELSE IF ~want /\ power_flash_held THEN lock_put("FLASH")
       ELSE UNCHANGED power
    /\ power_flash_held' = (want /\ (power_flash_held \/ get_ok("FLASH")))
    /\ UNCHANGED <<power_class_c_held, storing, app_refs>>
AppPower == \E lock \in Locks :
    /\ UNCHANGED <<power_class_c_held, storing, power_flash_held>>
    /\ \/ /\ lock_get(lock)
          /\ app_refs' = IF get_ok(lock) THEN [app_refs EXCEPT ![lock] = @ + 1] ELSE app_refs
       \/ /\ app_refs[lock] > 0 /\ lock_put(lock)
          /\ app_refs' = [app_refs EXCEPT ![lock] = @ - 1]
SwitchPower == \E enabled \in BOOLEAN :
    set_pm_enabled(enabled) /\ UNCHANGED <<power_class_c_held, storing, power_flash_held, app_refs>>
NoPower == UNCHANGED <<power, power_class_c_held, storing, power_flash_held, app_refs>>

\* Every step is one of these for the power service.
LEMMA PowerSteps ==
    ASSUME ClassOK, [Next]_vars
    PROVE  NoPower \/ LorawanPower \/ StorePower \/ FuotaPower \/ AppPower \/ SwitchPower
<1>1. CASE \E t \in Threads : ClassCall(t)
  <2> PICK t \in Threads : ClassCall(t) BY <1>1
  <2>1. CASE note_class(t)
    <3>1. (noting[t] = "C") \in BOOLEAN OBVIOUS
    <3> QED BY <2>1, <3>1 DEF note_class, LorawanPower, clients
  <2>2. CASE LeavePower(t)
    BY <2>2 DEF LeavePower, LorawanPower, clients
  <2>3. CASE ~note_class(t) /\ ~LeavePower(t)
    BY <2>3 DEF ClassCall, SetClass, SetClassFails, StopClassB, GetClass, LeaveNetwork, UspPublish,
                Leave, class, clients, NoPower
  <2> QED BY <2>1, <2>2, <2>3
<1>2. CASE TableCall
  BY <1>2 DEF TableCall, Register, Unregister, RegisterService, class, clients, NoPower
<1>3. CASE Modem
  BY <1>3 DEF Modem, ClassBStatus, ModemReset, class, clients, NoPower
<1>4. CASE Dispatch
  BY <1>4 DEF Dispatch, DispGet, DispCopy, DispCall, DispServices, class, clients, NoPower
<1>5. CASE OtherClient
  <2>1. CASE StoreBegin \/ StoreEnd
    BY <2>1 DEF StoreBegin, StoreEnd, still, class, StorePower
  <2>2. CASE \E b \in BOOLEAN : FuotaState(b)
    BY <2>2 DEF FuotaState, still, class, FuotaPower
  <2>3. CASE \E b \in BOOLEAN : SetPm(b)
    BY <2>3 DEF SetPm, still, class, SwitchPower
  <2>4. CASE \E l \in Locks : AppGet(l) \/ AppPut(l)
    BY <2>4 DEF AppGet, AppPut, still, class, AppPower
  <2> QED BY <1>5, <2>1, <2>2, <2>3, <2>4 DEF OtherClient
<1>6. CASE UNCHANGED vars
  BY <1>6 DEF vars, class, clients, NoPower
<1> QED BY <1>1, <1>2, <1>3, <1>4, <1>5, <1>6 DEF Next

\* A reference that is granted, and one that is released.
LEMMA GetLock ==
    ASSUME PowerInv, NEW lock \in Locks, lock_get(lock), get_ok(lock)
    PROVE  /\ lock_counts' = [lock_counts EXCEPT ![lock] = @ + 1]
           /\ lock_counts' \in [Locks -> 0..MaxCount]
           /\ native' = native + 1 /\ native' \in Nat /\ is_pm_locked' = is_pm_locked
<1>1. lock_counts[lock] \in 0..MaxCount /\ lock_counts[lock] # MaxCount /\ MaxCount \in Nat
  BY ClassAssumption DEF PowerInv, PowerOK, get_ok
<1>2. lock_counts[lock] + 1 \in 0..MaxCount
  BY <1>1
<1> QED BY <1>2 DEF lock_get, PowerInv, PowerOK

LEMMA PutLock ==
    ASSUME PowerInv, NEW lock \in Locks, lock_put(lock), lock_counts[lock] > 0
    PROVE  /\ lock_counts' = [lock_counts EXCEPT ![lock] = @ - 1]
           /\ lock_counts' \in [Locks -> 0..MaxCount]
           /\ native' = native - 1 /\ native' \in Nat /\ is_pm_locked' = is_pm_locked
<1>1. /\ lock_counts[lock] \in 0..MaxCount /\ MaxCount \in Nat
      /\ \A l \in Locks : lock_counts[l] \in Nat
  BY ClassAssumption DEF PowerInv, PowerOK
<1>2. lock_counts[lock] - 1 \in 0..MaxCount /\ put_ok(lock)
  BY <1>1 DEF put_ok
<1>3. native > 0
  <2>1. Count(is_pm_locked) \in Nat BY DEF Count
  <2> QED BY <1>1, <2>1, SMTT(30) DEF PowerInv, Balance, Locks
<1> QED BY <1>2, <1>3 DEF lock_put, PowerInv, PowerOK

\* The references as a table change in one place.
LEMMA OneRef ==
    ASSUME NEW c \in PmClients, NEW l \in Locks, NEW n,
           pm_refs'[c] = [pm_refs[c] EXCEPT ![l] = n],
           \A d \in PmClients \ {c} : pm_refs'[d] = pm_refs[d]
    PROVE  pm_refs' = [pm_refs EXCEPT ![c][l] = n]
<1> DEFINE e(d) == CASE d = "lorawan" -> On("LORAWAN", Count(power_class_c_held))
                     [] d = "storage" -> On("FLASH", Count(storing))
                     [] d = "fuota" -> On("FLASH", Count(power_flash_held))
                     [] d = "app" -> app_refs
<1>1. pm_refs = [d \in PmClients |-> pm_refs[d]] /\ pm_refs' = [d \in PmClients |-> pm_refs'[d]]
  <2>1. pm_refs = [d \in PmClients |-> e(d)] /\ pm_refs' = [d \in PmClients |-> e(d)']
    BY DEF pm_refs
  <2> HIDE DEF e
  <2> QED BY <2>1
<1> DEFINE r == pm_refs
           s == pm_refs'
<1>2. r = [d \in PmClients |-> r[d]] /\ s = [d \in PmClients |-> s[d]]
  BY <1>1
<1>3. s[c] = [r[c] EXCEPT ![l] = n] /\ \A d \in PmClients \ {c} : s[d] = r[d]
  OBVIOUS
<1> HIDE DEF r, s
<1>4. s = [r EXCEPT ![c][l] = n]
  BY <1>2, <1>3
<1> QED BY <1>4 DEF r, s

\* A client takes or releases one reference: the ledger's step.
LEMMA TakeStep ==
    ASSUME PowerInv, NEW c \in PmClients, NEW l \in Locks, lock_get(l), get_ok(l),
           pm_refs'[c] = [pm_refs[c] EXCEPT ![l] = pm_refs[c][l] + 1],
           \A d \in PmClients \ {c} : pm_refs'[d] = pm_refs[d]
    PROVE  Ledger!Take(c, l)
BY GetLock, OneRef DEF Ledger!Take

LEMMA ReleaseStep ==
    ASSUME PowerInv, NEW c \in PmClients, NEW l \in Locks, lock_put(l), lock_counts[l] > 0,
           pm_refs[c][l] > 0,
           pm_refs'[c] = [pm_refs[c] EXCEPT ![l] = pm_refs[c][l] - 1],
           \A d \in PmClients \ {c} : pm_refs'[d] = pm_refs[d]
    PROVE  Ledger!Release(c, l)
BY PutLock, OneRef DEF Ledger!Release

\* The references of the clients with one lock, with a primed copy.
LEMMA RefsAfter ==
    /\ pm_refs'["lorawan"] = On("LORAWAN", Count(power_class_c_held'))
    /\ pm_refs'["storage"] = On("FLASH", Count(storing'))
    /\ pm_refs'["fuota"] = On("FLASH", Count(power_flash_held'))
    /\ pm_refs'["app"] = app_refs'
BY DEF pm_refs, PmClients, On, Count

LEMMA OnStep ==
    ASSUME NEW l \in Locks
    PROVE  /\ On(l, 1) = [On(l, 0) EXCEPT ![l] = On(l, 0)[l] + 1]
           /\ On(l, 0) = [On(l, 1) EXCEPT ![l] = On(l, 1)[l] - 1]
           /\ On(l, 1)[l] > 0
<1>1. On(l, 0)[l] + 1 = 1 /\ On(l, 1)[l] - 1 = 0 /\ On(l, 1)[l] > 0
  BY DEF On
<1>2. [On(l, 0) EXCEPT ![l] = 1] = On(l, 1) /\ [On(l, 1) EXCEPT ![l] = 0] = On(l, 0)
  BY DEF On
<1> QED BY <1>1, <1>2

\* Each change of the references is one of the ledger.
LEMMA LorawanStep ==
    ASSUME PowerInv, LorawanPower
    PROVE  PowerInv' /\ [Ledger!Next]_(Ledger!ledger)
<1> PICK class_c \in BOOLEAN :
        update_class_c_power_locked(class_c) /\ UNCHANGED <<storing, power_flash_held, app_refs>>
  BY DEF LorawanPower
<1>1. \A l \in Locks : lock_counts[l] \in Nat /\ app_refs[l] \in Nat
  BY ClassAssumption DEF PowerInv, PowerOK
<1>2. CASE class_c /\ ~power_class_c_held /\ get_ok("LORAWAN")
  <2>1. lock_get("LORAWAN") /\ power_class_c_held' = TRUE
    BY <1>2 DEF update_class_c_power_locked
  <2>2. /\ lock_counts' = [lock_counts EXCEPT !["LORAWAN"] = @ + 1]
        /\ lock_counts' \in [Locks -> 0..MaxCount]
        /\ native' = native + 1 /\ native' \in Nat /\ is_pm_locked' = is_pm_locked
    BY <1>2, <2>1, GetLock DEF Locks
  <2>3. PowerInv'
    BY <1>1, <1>2, <2>1, <2>2 DEF PowerInv, PowerOK, Balance, Locks, Count
  <2>4. Ledger!Take("lorawan", "LORAWAN")
    <3>1. pm_refs'["lorawan"] = On("LORAWAN", 1) /\ pm_refs["lorawan"] = On("LORAWAN", 0)
      BY <1>2, <2>1, RefsOf, RefsAfter DEF Count
    <3>2. \A d \in PmClients \ {"lorawan"} : pm_refs'[d] = pm_refs[d]
      BY RefsOf, RefsAfter DEF PmClients
    <3> QED BY <1>2, <2>1, <3>1, <3>2, OnStep, TakeStep DEF PmClients, Locks
  <2> QED BY <2>3, <2>4 DEF Ledger!Next, PmClients, Locks
<1>3. CASE ~class_c /\ power_class_c_held
  <2>1. lock_put("LORAWAN") /\ lock_counts["LORAWAN"] > 0
    BY <1>1, <1>3 DEF update_class_c_power_locked, PowerInv, Balance, Count, Locks
  <2>2. power_class_c_held' = FALSE
    BY <1>3, <2>1 DEF update_class_c_power_locked, put_ok
  <2>3. /\ lock_counts' = [lock_counts EXCEPT !["LORAWAN"] = @ - 1]
        /\ lock_counts' \in [Locks -> 0..MaxCount]
        /\ native' = native - 1 /\ native' \in Nat /\ is_pm_locked' = is_pm_locked
    BY <2>1, PutLock DEF Locks
  <2>4. PowerInv'
    <3>1. PowerOK'
      BY <2>2, <2>3 DEF PowerInv, PowerOK
    <3>2. /\ lock_counts'["LORAWAN"] = lock_counts["LORAWAN"] - 1
          /\ lock_counts'["APP"] = lock_counts["APP"] /\ lock_counts'["FLASH"] = lock_counts["FLASH"]
      BY <2>3 DEF PowerInv, PowerOK, Locks
    <3>3. Count(power_class_c_held) = 1 /\ Count(power_class_c_held') = 0 /\ Count(is_pm_locked) \in Nat
      BY <1>3, <2>2 DEF Count
    <3>4. Balance'
      BY <1>1, <2>3, <3>2, <3>3 DEF PowerInv, Balance, Locks
    <3> QED BY <3>1, <3>4 DEF PowerInv
  <2>5. Ledger!Release("lorawan", "LORAWAN")
    <3>1. pm_refs'["lorawan"] = On("LORAWAN", 0) /\ pm_refs["lorawan"] = On("LORAWAN", 1)
      BY <1>3, <2>2, RefsOf, RefsAfter DEF Count
    <3>2. \A d \in PmClients \ {"lorawan"} : pm_refs'[d] = pm_refs[d]
      BY RefsOf, RefsAfter DEF PmClients
    <3> QED BY <2>1, <3>1, <3>2, OnStep, ReleaseStep DEF PmClients, Locks
  <2> QED BY <2>4, <2>5 DEF Ledger!Next, PmClients, Locks
<1>4. CASE (class_c /\ power_class_c_held) \/ (~class_c /\ ~power_class_c_held)
            \/ (class_c /\ ~get_ok("LORAWAN"))
  <2>1. UNCHANGED <<power, power_class_c_held>>
    BY <1>4 DEF update_class_c_power_locked, lock_get, power, PowerInv, PowerOK
  <2>2. PowerInv'
    BY <2>1 DEF power, PowerInv, PowerOK, Balance
  <2>3. UNCHANGED Ledger!ledger
    BY <2>1 DEF power, Ledger!ledger, pm_refs
  <2> QED BY <2>2, <2>3
<1> QED BY <1>2, <1>3, <1>4

LEMMA QuietStep ==
    ASSUME PowerInv, NoPower
    PROVE  PowerInv' /\ [Ledger!Next]_(Ledger!ledger)
<1>1. PowerInv'
  BY DEF NoPower, power, PowerInv, PowerOK, Balance
<1>2. UNCHANGED Ledger!ledger
  BY DEF NoPower, power, Ledger!ledger, pm_refs
<1> QED BY <1>1, <1>2

LEMMA StoreStep ==
    ASSUME PowerInv, StorePower
    PROVE  PowerInv' /\ [Ledger!Next]_(Ledger!ledger)
<1>1. \A l \in Locks : lock_counts[l] \in Nat /\ app_refs[l] \in Nat
  BY ClassAssumption DEF PowerInv, PowerOK
<1>2. Count(storing) \in Nat /\ Count(power_flash_held) \in Nat /\ Count(is_pm_locked) \in Nat
  BY DEF Count
<1>3. UNCHANGED <<power_class_c_held, power_flash_held, app_refs>>
  BY DEF StorePower
<1>4. CASE ~storing /\ get_ok("FLASH")
  <2>1. lock_get("FLASH") /\ storing' = TRUE
    BY <1>4 DEF StorePower
  <2>2. /\ lock_counts' = [lock_counts EXCEPT !["FLASH"] = @ + 1]
        /\ lock_counts' \in [Locks -> 0..MaxCount]
        /\ native' = native + 1 /\ native' \in Nat /\ is_pm_locked' = is_pm_locked
    BY <1>4, <2>1, GetLock DEF Locks
  <2>3. PowerInv'
    <3>1. PowerOK'
      BY <1>3, <2>1, <2>2 DEF PowerInv, PowerOK
    <3>2. /\ lock_counts'["FLASH"] = lock_counts["FLASH"] + 1
          /\ lock_counts'["APP"] = lock_counts["APP"]
          /\ lock_counts'["LORAWAN"] = lock_counts["LORAWAN"]
      BY <2>2 DEF PowerInv, PowerOK, Locks
    <3>3. Count(storing) = 0 /\ Count(storing') = 1
      BY <1>4, <2>1 DEF Count
    <3>4. Balance'
      BY <1>1, <1>2, <1>3, <2>2, <3>2, <3>3 DEF PowerInv, Balance, Locks
    <3> QED BY <3>1, <3>4 DEF PowerInv
  <2>4. Ledger!Take("storage", "FLASH")
    <3>1. pm_refs'["storage"] = On("FLASH", 1) /\ pm_refs["storage"] = On("FLASH", 0)
      BY <1>4, <2>1, RefsOf, RefsAfter DEF Count
    <3>2. \A d \in PmClients \ {"storage"} : pm_refs'[d] = pm_refs[d]
      BY <1>3, RefsOf, RefsAfter DEF PmClients
    <3> QED BY <1>4, <2>1, <3>1, <3>2, OnStep, TakeStep DEF PmClients, Locks
  <2> QED BY <2>3, <2>4 DEF Ledger!Next, PmClients, Locks
<1>5. CASE storing
  <2>1. lock_put("FLASH") /\ storing' = FALSE /\ lock_counts["FLASH"] > 0
    BY <1>1, <1>2, <1>5 DEF StorePower, PowerInv, Balance, Count, Locks
  <2>2. /\ lock_counts' = [lock_counts EXCEPT !["FLASH"] = @ - 1]
        /\ lock_counts' \in [Locks -> 0..MaxCount]
        /\ native' = native - 1 /\ native' \in Nat /\ is_pm_locked' = is_pm_locked
    BY <2>1, PutLock DEF Locks
  <2>3. PowerInv'
    <3>1. PowerOK'
      BY <1>3, <2>1, <2>2 DEF PowerInv, PowerOK
    <3>2. /\ lock_counts'["FLASH"] = lock_counts["FLASH"] - 1
          /\ lock_counts'["APP"] = lock_counts["APP"]
          /\ lock_counts'["LORAWAN"] = lock_counts["LORAWAN"]
      BY <2>2 DEF PowerInv, PowerOK, Locks
    <3>3. Count(storing) = 1 /\ Count(storing') = 0
      BY <1>5, <2>1 DEF Count
    <3>4. Balance'
      BY <1>1, <1>2, <1>3, <2>2, <3>2, <3>3 DEF PowerInv, Balance, Locks
    <3> QED BY <3>1, <3>4 DEF PowerInv
  <2>4. Ledger!Release("storage", "FLASH")
    <3>1. pm_refs'["storage"] = On("FLASH", 0) /\ pm_refs["storage"] = On("FLASH", 1)
      BY <1>5, <2>1, RefsOf, RefsAfter DEF Count
    <3>2. \A d \in PmClients \ {"storage"} : pm_refs'[d] = pm_refs[d]
      BY <1>3, RefsOf, RefsAfter DEF PmClients
    <3> QED BY <2>1, <3>1, <3>2, OnStep, ReleaseStep DEF PmClients, Locks
  <2> QED BY <2>3, <2>4 DEF Ledger!Next, PmClients, Locks
<1>6. CASE ~storing /\ ~get_ok("FLASH")
  <2>1. storing = FALSE /\ get_ok("FLASH") = FALSE
    BY <1>6 DEF PowerInv, PowerOK, get_ok
  <2>2. storing' = FALSE
    BY <1>6, <2>1 DEF StorePower
  <2>3. UNCHANGED power
    BY <1>6 DEF StorePower, lock_get, power
  <2> QED BY <1>3, <2>1, <2>2, <2>3, QuietStep DEF NoPower
<1> QED BY <1>4, <1>5, <1>6 DEF PowerInv, PowerOK

LEMMA FuotaStep ==
    ASSUME PowerInv, FuotaPower
    PROVE  PowerInv' /\ [Ledger!Next]_(Ledger!ledger)
<1> PICK want \in BOOLEAN :
        /\ IF want /\ ~power_flash_held THEN lock_get("FLASH")
           ELSE IF ~want /\ power_flash_held THEN lock_put("FLASH")
           ELSE UNCHANGED power
        /\ power_flash_held' = (want /\ (power_flash_held \/ get_ok("FLASH")))
        /\ UNCHANGED <<power_class_c_held, storing, app_refs>>
  BY DEF FuotaPower
<1>1. \A l \in Locks : lock_counts[l] \in Nat /\ app_refs[l] \in Nat
  BY ClassAssumption DEF PowerInv, PowerOK
<1>2. Count(storing) \in Nat /\ Count(power_flash_held) \in Nat /\ Count(is_pm_locked) \in Nat
  BY DEF Count
<1>4. CASE want /\ ~power_flash_held /\ get_ok("FLASH")
  <2>1. lock_get("FLASH") /\ power_flash_held' = TRUE
    BY <1>4
  <2>2. /\ lock_counts' = [lock_counts EXCEPT !["FLASH"] = @ + 1]
        /\ lock_counts' \in [Locks -> 0..MaxCount]
        /\ native' = native + 1 /\ native' \in Nat /\ is_pm_locked' = is_pm_locked
    BY <1>4, <2>1, GetLock DEF Locks
  <2>3. PowerInv'
    <3>1. PowerOK'
      BY <2>1, <2>2 DEF PowerInv, PowerOK
    <3>2. /\ lock_counts'["FLASH"] = lock_counts["FLASH"] + 1
          /\ lock_counts'["APP"] = lock_counts["APP"]
          /\ lock_counts'["LORAWAN"] = lock_counts["LORAWAN"]
      BY <2>2 DEF PowerInv, PowerOK, Locks
    <3>3. Count(power_flash_held) = 0 /\ Count(power_flash_held') = 1
      BY <1>4, <2>1 DEF Count
    <3>4. Balance'
      BY <1>1, <1>2, <2>2, <3>2, <3>3 DEF PowerInv, Balance, Locks
    <3> QED BY <3>1, <3>4 DEF PowerInv
  <2>4. Ledger!Take("fuota", "FLASH")
    <3>1. pm_refs'["fuota"] = On("FLASH", 1) /\ pm_refs["fuota"] = On("FLASH", 0)
      BY <1>4, <2>1, RefsOf, RefsAfter DEF Count
    <3>2. \A d \in PmClients \ {"fuota"} : pm_refs'[d] = pm_refs[d]
      BY RefsOf, RefsAfter DEF PmClients
    <3> QED BY <1>4, <2>1, <3>1, <3>2, OnStep, TakeStep DEF PmClients, Locks
  <2> QED BY <2>3, <2>4 DEF Ledger!Next, PmClients, Locks
<1>5. CASE ~want /\ power_flash_held
  <2>1. lock_put("FLASH") /\ power_flash_held' = FALSE /\ lock_counts["FLASH"] > 0
    BY <1>1, <1>2, <1>5 DEF PowerInv, Balance, Count, Locks
  <2>2. /\ lock_counts' = [lock_counts EXCEPT !["FLASH"] = @ - 1]
        /\ lock_counts' \in [Locks -> 0..MaxCount]
        /\ native' = native - 1 /\ native' \in Nat /\ is_pm_locked' = is_pm_locked
    BY <2>1, PutLock DEF Locks
  <2>3. PowerInv'
    <3>1. PowerOK'
      BY <2>1, <2>2 DEF PowerInv, PowerOK
    <3>2. /\ lock_counts'["FLASH"] = lock_counts["FLASH"] - 1
          /\ lock_counts'["APP"] = lock_counts["APP"]
          /\ lock_counts'["LORAWAN"] = lock_counts["LORAWAN"]
      BY <2>2 DEF PowerInv, PowerOK, Locks
    <3>3. Count(power_flash_held) = 1 /\ Count(power_flash_held') = 0
      BY <1>5, <2>1 DEF Count
    <3>4. Balance'
      BY <1>1, <1>2, <2>2, <3>2, <3>3 DEF PowerInv, Balance, Locks
    <3> QED BY <3>1, <3>4 DEF PowerInv
  <2>4. Ledger!Release("fuota", "FLASH")
    <3>1. pm_refs'["fuota"] = On("FLASH", 0) /\ pm_refs["fuota"] = On("FLASH", 1)
      BY <1>5, <2>1, RefsOf, RefsAfter DEF Count
    <3>2. \A d \in PmClients \ {"fuota"} : pm_refs'[d] = pm_refs[d]
      BY RefsOf, RefsAfter DEF PmClients
    <3> QED BY <2>1, <3>1, <3>2, OnStep, ReleaseStep DEF PmClients, Locks
  <2> QED BY <2>3, <2>4 DEF Ledger!Next, PmClients, Locks
<1>6. CASE (want /\ power_flash_held) \/ (~want /\ ~power_flash_held) \/ (want /\ ~get_ok("FLASH"))
  <2>1. NoPower
    BY <1>6 DEF NoPower, lock_get, power, PowerInv, PowerOK
  <2> QED BY <2>1, QuietStep
<1> QED BY <1>4, <1>5, <1>6

LEMMA AppStep ==
    ASSUME PowerInv, AppPower
    PROVE  PowerInv' /\ [Ledger!Next]_(Ledger!ledger)
<1> PICK lock \in Locks :
        /\ UNCHANGED <<power_class_c_held, storing, power_flash_held>>
        /\ \/ /\ lock_get(lock)
              /\ app_refs' = IF get_ok(lock) THEN [app_refs EXCEPT ![lock] = @ + 1] ELSE app_refs
           \/ /\ app_refs[lock] > 0 /\ lock_put(lock)
              /\ app_refs' = [app_refs EXCEPT ![lock] = @ - 1]
  BY DEF AppPower
<1>1. \A l \in Locks : lock_counts[l] \in Nat /\ app_refs[l] \in Nat
  BY ClassAssumption DEF PowerInv, PowerOK
<1>2. /\ Count(storing) \in Nat /\ Count(power_flash_held) \in Nat
      /\ Count(is_pm_locked) \in Nat /\ Count(power_class_c_held) \in Nat
  BY DEF Count
<1>3. \A d \in PmClients \ {"app"} : pm_refs'[d] = pm_refs[d]
  BY RefsOf, RefsAfter DEF PmClients
<1>4. CASE lock_get(lock) /\ get_ok(lock) /\ app_refs' = [app_refs EXCEPT ![lock] = @ + 1]
  <2>1. /\ lock_counts' = [lock_counts EXCEPT ![lock] = @ + 1]
        /\ lock_counts' \in [Locks -> 0..MaxCount]
        /\ native' = native + 1 /\ native' \in Nat /\ is_pm_locked' = is_pm_locked
    BY <1>4, GetLock
  <2>2. PowerOK'
    BY <1>1, <1>4, <2>1 DEF PowerInv, PowerOK
  <2>3. Balance'
    BY <1>1, <1>2, <1>4, <2>1 DEF PowerInv, PowerOK, Balance, Locks
  <2>4. Ledger!Take("app", lock)
    BY <1>3, <1>4, RefsOf, RefsAfter, TakeStep DEF PmClients
  <2> QED BY <2>2, <2>3, <2>4 DEF PowerInv, Ledger!Next, PmClients
<1>5. CASE app_refs[lock] > 0 /\ lock_put(lock) /\ app_refs' = [app_refs EXCEPT ![lock] = @ - 1]
  <2>1. lock_counts[lock] > 0
    BY <1>1, <1>2, <1>5 DEF PowerInv, Balance, Locks
  <2>2. /\ lock_counts' = [lock_counts EXCEPT ![lock] = @ - 1]
        /\ lock_counts' \in [Locks -> 0..MaxCount]
        /\ native' = native - 1 /\ native' \in Nat /\ is_pm_locked' = is_pm_locked
    BY <1>5, <2>1, PutLock
  <2>3. PowerOK'
    BY <1>1, <1>5, <2>2 DEF PowerInv, PowerOK
  <2>4. Balance'
    BY <1>1, <1>2, <1>5, <2>2 DEF PowerInv, PowerOK, Balance, Locks
  <2>5. Ledger!Release("app", lock)
    BY <1>3, <1>5, <2>1, RefsOf, RefsAfter, ReleaseStep DEF PmClients
  <2> QED BY <2>3, <2>4, <2>5 DEF PowerInv, Ledger!Next, PmClients
<1>6. CASE lock_get(lock) /\ ~get_ok(lock) /\ UNCHANGED app_refs
  BY <1>6, QuietStep DEF NoPower, lock_get, power
<1> QED BY <1>4, <1>5, <1>6

LEMMA SwitchStep ==
    ASSUME PowerInv, SwitchPower
    PROVE  PowerInv' /\ [Ledger!Next]_(Ledger!ledger)
<1> PICK enabled \in BOOLEAN :
        /\ set_pm_enabled(enabled)
        /\ UNCHANGED <<power_class_c_held, storing, power_flash_held, app_refs>>
  BY DEF SwitchPower
<1>1. UNCHANGED lock_counts
  BY DEF set_pm_enabled
<1>2. \A l \in Locks : lock_counts[l] \in Nat
  BY ClassAssumption DEF PowerInv, PowerOK
<1>3. UNCHANGED pm_refs
  BY DEF pm_refs
<1>4. CASE enabled = is_pm_locked
  <2>1. is_pm_locked' = ~is_pm_locked
    BY <1>4 DEF set_pm_enabled
  <2>2. native' = IF is_pm_locked THEN native - 1 ELSE native + 1
    BY <1>4 DEF set_pm_enabled
  <2>3. native = lock_counts["APP"] + lock_counts["LORAWAN"] + lock_counts["FLASH"] + Count(is_pm_locked)
    BY DEF PowerInv, Balance
  <2>4. /\ native' \in Nat
        /\ native' = lock_counts["APP"] + lock_counts["LORAWAN"] + lock_counts["FLASH"]
                      + Count(is_pm_locked')
    <3>1. CASE is_pm_locked
      <4>1. native' = native - 1 /\ Count(is_pm_locked) = 1 /\ Count(is_pm_locked') = 0
        BY <2>1, <2>2, <3>1 DEF Count
      <4> QED BY <1>2, <2>3, <4>1 DEF Locks
    <3>2. CASE ~is_pm_locked
      <4>1. native' = native + 1 /\ Count(is_pm_locked) = 0 /\ Count(is_pm_locked') = 1
        BY <2>1, <2>2, <3>2 DEF Count
      <4> QED BY <1>2, <2>3, <4>1 DEF Locks
    <3> QED BY <3>1, <3>2
  <2>5. PowerInv'
    BY <1>1, <2>1, <2>4 DEF PowerInv, PowerOK, Balance
  <2>6. Ledger!Switch
    BY <1>3, <2>1, <2>2 DEF Ledger!Switch
  <2> QED BY <2>5, <2>6 DEF Ledger!Next
<1>5. CASE enabled = ~is_pm_locked
  <2>1. is_pm_locked' = is_pm_locked /\ native' = native
    BY <1>5 DEF set_pm_enabled, PowerInv, PowerOK
  <2> QED BY <1>1, <2>1, QuietStep DEF NoPower, power
<1> QED BY <1>4, <1>5 DEF PowerInv, PowerOK

LEMMA LedgerStep ==
    ASSUME PowerInv, ClassOK, [Next]_vars
    PROVE  PowerInv' /\ [Ledger!Next]_(Ledger!ledger)
BY PowerSteps, QuietStep, LorawanStep, StoreStep, FuotaStep, AppStep, SwitchStep

-----------------------------------------------------------------------------
(* The class calls *)

\* The thread that is to publish holds the USP lock.
LockInv == \A t \in Threads : pc[t] = "publish" <=> usp_lock = t

\* The call that was the last at the modem will note its class; once it has, and nobody it had
\* overtaken noted after it, the noted class is the modem's.
NoteInv ==
    /\ (latest \in Threads /\ pc[latest] \in {"publish", "note"}) => noting[latest] = modem_class
    /\ (~overtaken /\ (latest \in Threads => pc[latest] \in {"idle", "leave"}))
           => configured_class = modem_class

ClassInv == ClassOK /\ LockInv /\ NoteInv /\ PowerFollowsClass /\ ClassBEventsOrdered

\* A call that leaves the USP section, with the event still to be published or not.
LEMMA LeaveStep ==
    ASSUME ClassInv, NEW t \in Threads, NEW changed \in BOOLEAN, NEW to \in Classes,
           pc[t] = "idle", usp_lock = NoOne, Leave(t, changed, to), modem_class' = to,
           changed \/ class_b_state' = class_b_state, class_b_state' \in BStates,
           UNCHANGED <<published, ready, class>>
    PROVE  ClassInv'
<1>1. NoOne \notin Threads
  BY ClassAssumption DEF NoOne
<1>2. ClassOK' /\ PowerFollowsClass'
  BY DEF ClassInv, ClassOK, PowerFollowsClass, Leave, class
<1>3. LockInv'
  BY <1>1 DEF ClassInv, ClassOK, LockInv, Leave
<1>4. NoteInv'
  BY <1>1 DEF ClassInv, ClassOK, Leave, NoteInv
<1>5. ClassBEventsOrdered'
  BY <1>1 DEF ClassInv, ClassBEventsOrdered, Leave
<1> QED BY <1>2, <1>3, <1>4, <1>5 DEF ClassInv

\* A step outside the class calls.
LEMMA OutsideStep ==
    ASSUME ClassInv, UNCHANGED <<pc, noting, history, usp_lock, class, modem, published>>
    PROVE  ClassInv'
BY DEF ClassInv, ClassOK, LockInv, NoteInv, PowerFollowsClass, ClassBEventsOrdered, history, class,
       modem

\* A reference that is held can be released.
LEMMA PutAllowed ==
    ASSUME PowerInv
    PROVE  power_class_c_held => put_ok("LORAWAN")
<1>1. \A l \in Locks : lock_counts[l] \in Nat /\ app_refs[l] \in Nat
  BY ClassAssumption DEF PowerInv, PowerOK
<1> QED BY <1>1 DEF put_ok, PowerInv, Balance, Count, Locks

LEMMA ClassCallStep ==
    ASSUME ClassInv, PowerInv, NEW t \in Threads, ClassCall(t)
    PROVE  ClassInv'
<1>1. NoOne \notin Threads
  BY ClassAssumption DEF NoOne
<1>2. CASE \E c \in Classes : SetClass(t, c)
  <2> PICK c \in Classes : SetClass(t, c) BY <1>2
  <2>1. (class_b_state # Next_b(c)) \in BOOLEAN /\ Next_b(c) \in BStates
    BY DEF Next_b, BStates
  <2> QED BY <2>1, LeaveStep DEF SetClass, Enter, queue, class
<1>3. CASE \E c \in Classes : SetClassFails(t, c)
  BY <1>3, OutsideStep DEF SetClassFails, queue
<1>4. CASE StopClassB(t)
  <2>1. (class_b_state # "IDLE") \in BOOLEAN /\ "IDLE" \in BStates /\ "A" \in Classes
    BY DEF BStates, Classes
  <2> QED BY <1>4, <2>1, LeaveStep DEF StopClassB, Enter, queue, class
<1>5. CASE GetClass(t)
  <2>1. modem_class \in Classes /\ class_b_state \in BStates
    BY DEF ClassInv, ClassOK
  <2> QED BY <1>5, <2>1, LeaveStep DEF GetClass, Enter, queue, class, modem
<1>6. CASE LeaveNetwork(t)
  <2>1. /\ pc[t] = "idle" /\ usp_lock = NoOne /\ pc' = [pc EXCEPT ![t] = "leave"]
        /\ UNCHANGED <<noting, history, usp_lock, class, modem, published>>
    BY <1>6 DEF LeaveNetwork, Enter, queue
  <2> QED BY <1>1, <2>1
          DEF ClassInv, ClassOK, LockInv, NoteInv, PowerFollowsClass, ClassBEventsOrdered, history,
              class, modem
<1>7. CASE UspPublish(t)
  <2>1. /\ pc[t] = "publish" /\ published' = class_b_state /\ usp_lock' = NoOne
        /\ pc' = [pc EXCEPT ![t] = "note"]
        /\ UNCHANGED <<noting, history, class, modem>>
    BY <1>7 DEF UspPublish, publish_class_b
  <2>2. ClassOK' /\ LockInv' /\ ClassBEventsOrdered' /\ PowerFollowsClass'
    BY <1>1, <2>1
       DEF ClassInv, ClassOK, LockInv, ClassBEventsOrdered, PowerFollowsClass, history, class, modem
  <2>3. NoteInv'
    BY <1>1, <2>1 DEF ClassInv, ClassOK, NoteInv, history, class, modem
  <2> QED BY <2>2, <2>3 DEF ClassInv
<1>8. CASE note_class(t)
  <2>1. /\ pc[t] = "note" /\ pc' = [pc EXCEPT ![t] = "idle"] /\ configured_class' = noting[t]
        /\ update_class_c_power_locked(noting[t] = "C")
        /\ overtaken' = (latest # t)
        /\ unpowered' = (noting[t] = "C" /\ ~power_class_c_held /\ ~get_ok("LORAWAN"))
        /\ UNCHANGED <<latest, noting, usp_lock, modem, published>>
    BY <1>8 DEF note_class, queue
  <2>2. overtaken' \in BOOLEAN /\ unpowered' \in BOOLEAN
    BY <2>1, Zenon
  <2>3. ClassOK' /\ LockInv' /\ ClassBEventsOrdered'
    BY <1>1, <2>1, <2>2 DEF ClassInv, ClassOK, LockInv, ClassBEventsOrdered, modem
  <2>4. NoteInv'
    <3>1. overtaken' <=> latest # t
      BY <2>1, Zenon
    <3> QED BY <1>1, <2>1, <3>1 DEF ClassInv, ClassOK, NoteInv, modem
  <2>5. PowerFollowsClass'
    <3>1. power_class_c_held => put_ok("LORAWAN")
      BY PutAllowed
    <3>2. CASE noting[t] = "C"
      <4>1. power_class_c_held' = (power_class_c_held \/ get_ok("LORAWAN"))
        BY <2>1, <3>2 DEF update_class_c_power_locked
      <4>2. power_class_c_held' \/ unpowered'
        BY <2>1, <3>2, <4>1, Zenon
      <4> QED BY <2>1, <3>2, <4>2 DEF PowerFollowsClass
    <3>3. CASE noting[t] # "C"
      <4>1. power_class_c_held' = (power_class_c_held /\ ~put_ok("LORAWAN"))
        BY <2>1, <3>3 DEF update_class_c_power_locked
      <4>2. ~power_class_c_held'
        BY <3>1, <4>1, Zenon
      <4> QED BY <2>1, <3>3, <4>2 DEF PowerFollowsClass
    <3> QED BY <3>2, <3>3
  <2> QED BY <2>3, <2>4, <2>5 DEF ClassInv
<1>9. CASE LeavePower(t)
  <2>1. /\ pc[t] = "leave" /\ pc' = [pc EXCEPT ![t] = "idle"] /\ unpowered' = TRUE
        /\ update_class_c_power_locked(FALSE)
        /\ UNCHANGED <<noting, latest, overtaken, usp_lock, configured_class, modem, published>>
    BY <1>9 DEF LeavePower, queue
  <2>2. ~power_class_c_held'
    <3>1. power_class_c_held' = (power_class_c_held /\ ~put_ok("LORAWAN"))
      BY <2>1 DEF update_class_c_power_locked
    <3> QED BY <3>1, PutAllowed, Zenon
  <2> QED BY <1>1, <2>1, <2>2
          DEF ClassInv, ClassOK, LockInv, NoteInv, PowerFollowsClass, ClassBEventsOrdered, modem
<1> QED BY <1>2, <1>3, <1>4, <1>5, <1>6, <1>7, <1>8, <1>9 DEF ClassCall

LEMMA ClassStep ==
    ASSUME ClassInv, PowerInv, [Next]_vars
    PROVE  ClassInv'
<1>1. CASE \E t \in Threads : ClassCall(t)
  BY <1>1, ClassCallStep
<1>2. CASE TableCall
  BY <1>2, OutsideStep DEF TableCall, Register, Unregister, RegisterService, queue
<1>3. CASE Modem
  <2>1. NoOne \notin Threads
    BY ClassAssumption DEF NoOne
  <2>2. CASE \E next \in {"ACTIVE", "IDLE"} : ClassBStatus(next)
    <3> PICK next \in {"ACTIVE", "IDLE"} : ClassBStatus(next) BY <2>2
    <3>1. /\ usp_lock = NoOne /\ class_b_state' = next /\ published' \in {next, published}
          /\ class_b_state # next => published' = next
          /\ class_b_state = next => published' = published
          /\ UNCHANGED <<pc, noting, history, usp_lock, ready, modem_class, class>>
      BY DEF ClassBStatus, publish_class_b, queue, thread
    <3>2. ClassOK'
      BY <3>1 DEF ClassInv, ClassOK, BStates, history, class
    <3> QED BY <3>1, <3>2
            DEF ClassInv, LockInv, NoteInv, PowerFollowsClass, ClassBEventsOrdered, history, class
  <2>3. CASE \E ok \in BOOLEAN : ModemReset(ok)
    <3> PICK ok \in BOOLEAN : ModemReset(ok) BY <2>3
    <3>1. /\ ready' = ok /\ modem_class' = "A" /\ latest' = NoOne /\ overtaken' = TRUE
          /\ UNCHANGED <<pc, noting, unpowered, usp_lock, class_b_state, class, published>>
      BY DEF ModemReset, queue
    <3> QED BY <2>1, <3>1
            DEF ClassInv, ClassOK, Classes, LockInv, NoteInv, PowerFollowsClass, ClassBEventsOrdered,
                class
  <2> QED BY <1>3, <2>2, <2>3 DEF Modem
<1>4. CASE Dispatch
  BY <1>4, OutsideStep DEF Dispatch, DispGet, DispCopy, DispCall, DispServices, queue, thread
<1>5. CASE OtherClient
  <2>1. UNCHANGED still
    BY <1>5 DEF OtherClient, StoreBegin, StoreEnd, FuotaState, SetPm, AppGet, AppPut
  <2> QED BY <2>1, OutsideStep DEF still, queue, thread
<1>6. CASE UNCHANGED vars
  BY <1>6, OutsideStep DEF vars, queue, thread
<1> QED BY <1>1, <1>2, <1>3, <1>4, <1>5, <1>6 DEF Next

-----------------------------------------------------------------------------
(* The subscribers *)

\* A pair is in one slot at most, in the table and in the copy; a registered one is not late,
\* and one that was called late is not in the copy any more.
TableInv ==
    /\ \A i, j \in Active : callback_slots[i] = callback_slots[j] => i = j
    /\ CalledOnce
    /\ disp # "call" => ToCall = {}
    /\ \A s \in Registered : late[s] = Member
    /\ \A s \in Subs : /\ late[s] \in {Member, 0, 1}
                       /\ late[s] = 1 => \A i \in 1..SlotCount : subscribers[i] # s

\* While the last event was queued, it is the last of the queue; once it left the queue it
\* is in hand until every subscriber it concerns has seen it, and no overflow comes between.
FreshInv ==
    /\ fresh \subseteq Registered
    /\ overflow /\ (disp = "idle" \/ current = "OVERFLOW") => fresh = {} /\ Len(events) = QueueSize
    /\ fresh # {} /\ events # <<>> => events[Len(events)] = published
    /\ fresh # {} /\ events = <<>> =>
         /\ disp # "idle" => ~overflow /\ current = published
         /\ \A s \in fresh :
              /\ disp = "idle" => seen[s] = published
              /\ disp = "call" => seen[s] = published \/ \E i \in 1..SlotCount : subscribers[i] = s

EventsInv == EventsOK /\ TableInv /\ FreshInv

LEMMA EventsQuiet ==
    ASSUME EventsInv, UNCHANGED <<queue, table, dispatcher>>
    PROVE  EventsInv'
BY DEF EventsInv, EventsOK, TableInv, FreshInv, Active, Registered, ToCall, CalledOnce,
       queue, table, dispatcher

\* A step that leaves the table and the dispatcher alone leaves what is said of them.
LEMMA TableQuiet ==
    ASSUME TableInv, UNCHANGED <<table, dispatcher>>
    PROVE  TableInv' /\ Registered' = Registered
BY DEF TableInv, Active, Registered, ToCall, CalledOnce, table, dispatcher

LEMMA RegisteredAreSubs ==
    ASSUME EventsOK
    PROVE  Registered \subseteq Subs
BY DEF EventsOK, Registered, Active

LEMMA PublishStep ==
    ASSUME EventsInv, NEW state \in BStates, publish_class_b(state), UNCHANGED <<table, dispatcher>>
    PROVE  EventsInv'
<1>1. TableInv' /\ Registered' = Registered /\ Registered \subseteq Subs
  BY TableQuiet, RegisteredAreSubs DEF EventsInv
<1>2. QueueSize \in Nat /\ QueueSize > 0 /\ events \in Seq(BStates) /\ Len(events) <= QueueSize
  BY ClassAssumption DEF EventsInv, EventsOK
<1>3. Len(events) \in Nat
  BY <1>2
<1>4. CASE Len(events) < QueueSize
  <2>1. /\ published' = state /\ events' = Append(events, state) /\ fresh' = Registered
        /\ UNCHANGED overflow
    BY <1>4 DEF publish_class_b
  <2>2. /\ events' \in Seq(BStates) /\ Len(events') = Len(events) + 1 /\ events' # <<>>
        /\ events'[Len(events')] = state
    BY <1>2, <2>1
  <2>3. EventsOK'
    BY <1>1, <1>2, <1>3, <1>4, <2>1, <2>2 DEF EventsInv, EventsOK, table, dispatcher
  <2>4. ~(overflow /\ (disp = "idle" \/ current = "OVERFLOW"))
    BY <1>2, <1>3, <1>4 DEF EventsInv, FreshInv
  <2>5. FreshInv'
    BY <1>1, <2>1, <2>2, <2>4 DEF FreshInv, dispatcher
  <2> QED BY <1>1, <2>3, <2>5 DEF EventsInv
<1>5. CASE ~(Len(events) < QueueSize)
  <2>1. published' = state /\ overflow' = TRUE /\ fresh' = {} /\ UNCHANGED events
    BY <1>5 DEF publish_class_b
  <2>2. Len(events) = QueueSize
    BY <1>2, <1>3, <1>5
  <2>3. EventsOK'
    BY <2>1 DEF EventsInv, EventsOK, table, dispatcher
  <2>4. FreshInv'
    BY <2>1, <2>2 DEF FreshInv
  <2> QED BY <1>1, <2>3, <2>4 DEF EventsInv
<1> QED BY <1>4, <1>5

\* register_callbacks()
LEMMA RegisterStep ==
    ASSUME EventsInv, NEW s \in Subs, Register(s)
    PROVE  EventsInv'
<1>1. s # NoOne /\ NoOne \notin Subs
  BY ClassAssumption
<1>2. PICK a \in (1..SlotCount) \ Active : callback_slots' = [callback_slots EXCEPT ![a] = s]
  BY DEF Register, register_callbacks
<1>3. /\ s \notin Registered /\ late' = [late EXCEPT ![s] = Member]
      /\ UNCHANGED <<events, overflow, published, fresh, services, disp, current, subscribers, seen>>
  BY DEF Register, register_callbacks, queue, dispatcher
<1>4. callback_slots \in [1..SlotCount -> Subs \cup {NoOne}]
  BY DEF EventsInv, EventsOK
<1>5. Active' = Active \cup {a} /\ a \notin Active
  BY <1>1, <1>2, <1>4 DEF Active
<1>6. \A i \in Active : callback_slots'[i] = callback_slots[i] /\ callback_slots[i] # s
  BY <1>2, <1>3, <1>4, <1>5 DEF Active, Registered
<1>7. callback_slots'[a] = s
  BY <1>2, <1>4
<1>8. Registered' = Registered \cup {s}
  BY <1>5, <1>6, <1>7 DEF Registered
<1>9. EventsOK'
  BY <1>2, <1>3 DEF EventsInv, EventsOK
<1>10. TableInv'
  <2>1. \A i, j \in Active' : callback_slots'[i] = callback_slots'[j] => i = j
    BY <1>5, <1>6, <1>7 DEF EventsInv, TableInv
  <2>2. CalledOnce' /\ (disp # "call" => ToCall = {})'
    BY <1>3 DEF EventsInv, TableInv, CalledOnce, ToCall
  <2>3. late \in [Subs -> Nat \cup {Member}]
    BY DEF EventsInv, EventsOK
  <2>4. \A r \in Registered' : late'[r] = Member
    BY <1>3, <1>8, <2>3, RegisteredAreSubs DEF EventsInv, TableInv
  <2>5. \A r \in Subs : /\ late'[r] \in {Member, 0, 1}
                        /\ late'[r] = 1 => \A i \in 1..SlotCount : subscribers'[i] # r
    BY <1>3, <2>3 DEF EventsInv, TableInv, Member
  <2> QED BY <2>1, <2>2, <2>4, <2>5 DEF TableInv
<1>11. FreshInv'
  BY <1>3, <1>8 DEF EventsInv, FreshInv
<1> QED BY <1>9, <1>10, <1>11 DEF EventsInv

\* unregister_callbacks()
LEMMA UnregisterStep ==
    ASSUME EventsInv, NEW s \in Subs, Unregister(s)
    PROVE  EventsInv'
<1>1. PICK a \in Active : /\ callback_slots[a] = s
                          /\ callback_slots' = [callback_slots EXCEPT ![a] = NoOne]
  BY DEF Unregister, unregister_callbacks
<1>2. /\ fresh' = fresh \ {s} /\ late' = [late EXCEPT ![s] = 0]
      /\ UNCHANGED <<events, overflow, published, services, disp, current, subscribers, seen>>
  BY DEF Unregister, dispatcher
<1>3. callback_slots \in [1..SlotCount -> Subs \cup {NoOne}] /\ late \in [Subs -> Nat \cup {Member}]
  BY DEF EventsInv, EventsOK
<1>4. Active' = Active \ {a} /\ \A i \in Active \ {a} : callback_slots'[i] = callback_slots[i]
  BY <1>1, <1>3 DEF Active
<1>5. \A i \in Active \ {a} : callback_slots[i] # s
  BY <1>1 DEF EventsInv, TableInv
<1>6. Registered' = Registered \ {s} /\ s \in Registered
  BY <1>1, <1>4, <1>5 DEF Registered
<1>7. EventsOK'
  BY <1>1, <1>2 DEF EventsInv, EventsOK
<1>8. TableInv'
  <2>1. \A i, j \in Active' : callback_slots'[i] = callback_slots'[j] => i = j
    BY <1>4 DEF EventsInv, TableInv
  <2>2. CalledOnce' /\ (disp # "call" => ToCall = {})'
    BY <1>2 DEF EventsInv, TableInv, CalledOnce, ToCall
  <2>3. \A r \in Registered' : late'[r] = Member
    BY <1>2, <1>3, <1>6, RegisteredAreSubs DEF EventsInv, TableInv
  <2>4. \A r \in Subs : /\ late'[r] \in {Member, 0, 1}
                        /\ late'[r] = 1 => \A i \in 1..SlotCount : subscribers'[i] # r
    BY <1>2, <1>3 DEF EventsInv, TableInv, Member
  <2> QED BY <2>1, <2>2, <2>3, <2>4 DEF TableInv
<1>9. FreshInv'
  BY <1>2, <1>6 DEF EventsInv, FreshInv
<1> QED BY <1>7, <1>8, <1>9 DEF EventsInv

\* register_service()
LEMMA ServiceStep ==
    ASSUME EventsInv, NEW s \in Services, RegisterService(s)
    PROVE  EventsInv'
<1>1. /\ Len(services) < ServiceMax /\ services' = Append(services, s)
      /\ UNCHANGED <<queue, callback_slots, late, dispatcher>>
  BY DEF RegisterService
<1>2. services' \in Seq(Services) /\ Len(services') <= ServiceMax
  BY <1>1 DEF EventsInv, EventsOK, ServiceMax
<1>3. EventsOK'
  BY <1>1, <1>2 DEF EventsInv, EventsOK, queue, dispatcher
<1>4. TableInv' /\ FreshInv'
  BY <1>1 DEF EventsInv, TableInv, FreshInv, Active, Registered, ToCall, CalledOnce, queue, dispatcher
<1> QED BY <1>3, <1>4 DEF EventsInv

LEMMA EmptyTail ==
    ASSUME NEW q, q = <<>>
    PROVE  Len(q) = 0
OBVIOUS

\* dispatch_work: one event is taken from the queue.
LEMMA GetStep ==
    ASSUME EventsInv, DispGet
    PROVE  EventsInv'
<1>1. /\ disp = "idle" /\ events # <<>> /\ current' = Head(events) /\ events' = Tail(events)
      /\ disp' = "copy"
      /\ UNCHANGED <<overflow, published, fresh, table, subscribers, seen>>
  BY DEF DispGet
<1>2. events \in Seq(BStates) /\ Len(events) <= QueueSize /\ QueueSize \in Nat
  BY ClassAssumption DEF EventsInv, EventsOK
<1>3. /\ Head(events) \in BStates /\ Head(events) = events[1] /\ Tail(events) \in Seq(BStates)
      /\ Len(Tail(events)) = Len(events) - 1 /\ Len(events) \in Nat /\ Len(events) > 0
  BY <1>1, <1>2
<1>4. EventsOK'
  BY <1>1, <1>2, <1>3 DEF EventsInv, EventsOK, table
<1>5. TableInv'
  <2>1. ToCall = {} /\ ToCall' = ToCall
    BY <1>1 DEF EventsInv, TableInv, ToCall
  <2> QED BY <1>1, <2>1 DEF EventsInv, TableInv, Active, Registered, CalledOnce, table
<1>6. FreshInv'
  <2>1. fresh' \subseteq Registered'
    BY <1>1 DEF EventsInv, FreshInv, Registered, Active, table
  <2>2. current' # "OVERFLOW"
    BY <1>1, <1>3 DEF BStates
  <2>3. (fresh # {} /\ events # <<>> => events[Len(events)] = published)'
    <3>1. SUFFICES ASSUME fresh # {}, Tail(events) # <<>>
                   PROVE  Tail(events)[Len(Tail(events))] = published
      BY <1>1
    <3>2. Len(Tail(events)) \in 1..Len(Tail(events))
      BY <1>3, <3>1
    <3>3. Tail(events)[Len(Tail(events))] = events[Len(Tail(events)) + 1]
      BY <1>1, <1>2, <1>3, <3>2
    <3> QED BY <1>1, <1>3, <3>1, <3>3 DEF EventsInv, FreshInv
  <2>4. fresh # {} /\ Tail(events) = <<>> => ~overflow /\ Head(events) = published
    <3>1. SUFFICES ASSUME fresh # {}, Tail(events) = <<>>
                   PROVE  ~overflow /\ Head(events) = published
      OBVIOUS
    <3>2. Len(events) = 1
      <4> DEFINE tail == Tail(events)
      <4>1. tail = <<>> /\ Len(tail) = Len(events) - 1
        BY <1>3, <3>1
      <4> HIDE DEF tail
      <4>2. Len(tail) = 0
        BY <4>1, EmptyTail
      <4>3. Len(events) \in Nat
        BY <1>3
      <4> DEFINE n == Len(events)
                 m == Len(tail)
      <4>4. n \in Nat /\ m = n - 1 /\ m = 0
        BY <4>1, <4>2, <4>3
      <4> HIDE DEF n, m
      <4>5. n = 1
        BY <4>4
      <4> QED BY <4>5 DEF n
    <3> QED BY <1>1, <1>3, <3>1, <3>2 DEF EventsInv, FreshInv
  <2> QED BY <1>1, <2>1, <2>2, <2>3, <2>4 DEF FreshInv
<1> QED BY <1>4, <1>5, <1>6 DEF EventsInv

\* The table is copied.
LEMMA CopyStep ==
    ASSUME EventsInv, DispCopy
    PROVE  EventsInv'
<1>1. /\ disp = "copy" /\ subscribers' = callback_slots /\ disp' = "call"
      /\ UNCHANGED <<queue, table, current, seen>>
  BY DEF DispCopy
<1>2. EventsOK'
  BY <1>1 DEF EventsInv, EventsOK, queue, table
<1>3. ToCall' = Active /\ Active' = Active /\ Registered' = Registered
  BY <1>1 DEF ToCall, Active, Registered, table
<1>4. TableInv'
  <2>1. CalledOnce'
    BY <1>1, <1>3 DEF EventsInv, TableInv, CalledOnce
  <2>2. \A s \in Subs : late[s] = 1 => \A i \in 1..SlotCount : callback_slots[i] # s
    <3> SUFFICES ASSUME NEW s \in Subs, late[s] = 1, NEW i \in 1..SlotCount, callback_slots[i] = s
                 PROVE  FALSE
      OBVIOUS
    <3>1. s \in Registered
      BY ClassAssumption DEF Registered, Active
    <3> QED BY <3>1 DEF EventsInv, TableInv, Member
  <2> QED BY <1>1, <1>3, <2>1, <2>2 DEF EventsInv, TableInv, table
<1>5. FreshInv'
  <2>1. \A s \in fresh : \E i \in 1..SlotCount : callback_slots[i] = s
    BY DEF EventsInv, FreshInv, Registered, Active
  <2> QED BY <1>1, <1>3, <2>1 DEF EventsInv, FreshInv, queue
<1> QED BY <1>2, <1>4, <1>5 DEF EventsInv

\* The next subscriber of the copy is called.
LEMMA CallStep ==
    ASSUME EventsInv, NEW i \in 1..SlotCount, DispCall(i)
    PROVE  EventsInv'
<1> DEFINE s == subscribers[i]
<1>1. /\ disp = "call" /\ i \in ToCall
      /\ seen' = [seen EXCEPT ![s] = current]
      /\ late' = [late EXCEPT ![s] = IF @ = Member THEN @ ELSE @ + 1]
      /\ subscribers' = [subscribers EXCEPT ![i] = NoOne]
      /\ UNCHANGED <<queue, callback_slots, services, disp, current>>
  BY DEF DispCall
<1>2. /\ subscribers \in [1..SlotCount -> Subs \cup {NoOne}]
      /\ late \in [Subs -> Nat \cup {Member}]
      /\ seen \in [Subs \cup Services -> BStates \cup {"OVERFLOW"}]
      /\ current \in BStates \cup {"OVERFLOW"}
  BY DEF EventsInv, EventsOK
<1>3. s \in Subs /\ s # NoOne /\ NoOne \notin Subs
  BY <1>1, <1>2, ClassAssumption DEF ToCall
<1>4. late[s] \in {Member, 0} /\ late'[s] \in {Member, 0, 1}
  <2>1. late[s] \in {Member, 0, 1} /\ late[s] # 1
    BY <1>3 DEF EventsInv, TableInv
  <2> QED BY <1>1, <1>2, <1>3, <2>1 DEF Member
<1>5. \A j \in 1..SlotCount : subscribers'[j] # s
  <2>1. \A j \in ToCall : subscribers[j] = s => j = i
    BY <1>1 DEF EventsInv, TableInv, CalledOnce
  <2> QED BY <1>1, <1>2, <1>3, <2>1 DEF ToCall
<1>6. \A j \in 1..SlotCount : j # i => subscribers'[j] = subscribers[j]
  BY <1>1, <1>2
<1>7. subscribers'[i] = NoOne
  BY <1>1, <1>2
<1> HIDE DEF s
<1>8. EventsOK'
  <2>1. subscribers' \in [1..SlotCount -> Subs \cup {NoOne}]
    BY <1>1, <1>2
  <2>2. seen' \in [Subs \cup Services -> BStates \cup {"OVERFLOW"}]
    BY <1>1, <1>2, <1>3
  <2>3. late' \in [Subs -> Nat \cup {Member}]
    BY <1>1, <1>2, <1>3, <1>4
  <2> QED BY <1>1, <2>1, <2>2, <2>3 DEF EventsInv, EventsOK, queue
<1>9. Active' = Active /\ Registered' = Registered
  BY <1>1 DEF Active, Registered
<1>10. TableInv'
  <2>1. CalledOnce'
    <3>1. ToCall' = ToCall \ {i}
      BY <1>1, <1>2, <1>6, <1>7 DEF ToCall
    <3> QED BY <1>6, <3>1 DEF EventsInv, TableInv, CalledOnce, ToCall
  <2>2. \A r \in Subs : r # s => late'[r] = late[r]
    BY <1>1, <1>2
  <2>3. late[s] = Member => late'[s] = Member
    BY <1>1, <1>2, <1>3
  <2>4. \A r \in Registered' : late'[r] = Member
    BY <1>9, <2>2, <2>3, RegisteredAreSubs DEF EventsInv, TableInv
  <2>5. \A r \in Subs : /\ late'[r] \in {Member, 0, 1}
                        /\ late'[r] = 1 => \A j \in 1..SlotCount : subscribers'[j] # r
    <3> TAKE r \in Subs
    <3>1. CASE r = s
      BY <1>4, <1>5, <3>1
    <3>2. CASE r # s
      BY <1>3, <1>6, <1>7, <2>2, <3>2 DEF EventsInv, TableInv
    <3> QED BY <3>1, <3>2
  <2>6. \A j, k \in Active' : callback_slots'[j] = callback_slots'[k] => j = k
    BY <1>1, <1>9 DEF EventsInv, TableInv
  <2> QED BY <1>1, <2>1, <2>4, <2>5, <2>6 DEF TableInv
<1>11. FreshInv'
  <2>1. seen'[s] = current /\ \A r \in Subs : r # s => seen'[r] = seen[r]
    BY <1>1, <1>2, <1>3
  <2>2. ASSUME fresh # {}, events = <<>>, NEW r \in fresh
        PROVE  seen'[r] = published \/ \E j \in 1..SlotCount : subscribers'[j] = r
    <3>1. current = published /\ r \in Subs
      BY <1>1, <2>2, RegisteredAreSubs DEF EventsInv, FreshInv
    <3>2. CASE r = s
      BY <2>1, <3>1, <3>2
    <3>3. CASE r # s
      <4>1. seen[r] = published \/ \E j \in 1..SlotCount : subscribers[j] = r
        BY <1>1, <2>2 DEF EventsInv, FreshInv
      <4>2. ASSUME NEW j \in 1..SlotCount, subscribers[j] = r PROVE subscribers'[j] = r
        BY <1>6, <3>3, <4>2 DEF s
      <4> QED BY <2>1, <3>1, <3>3, <4>1, <4>2
    <3> QED BY <3>2, <3>3
  <2> QED BY <1>1, <1>9, <2>2 DEF EventsInv, FreshInv, queue
<1> QED BY <1>8, <1>10, <1>11 DEF EventsInv

\* The services are called; the flag of a full queue becomes one more event.
LEMMA FinishStep ==
    ASSUME EventsInv, DispServices
    PROVE  EventsInv'
<1>1. /\ disp = "call" /\ ToCall = {}
      /\ seen' = [s \in DOMAIN seen |-> IF s \in Range(services) THEN current ELSE seen[s]]
      /\ overflow' = (overflow /\ current = "OVERFLOW")
      /\ UNCHANGED <<events, published, fresh, table, subscribers>>
      /\ \/ overflow /\ current # "OVERFLOW" /\ disp' = "copy" /\ current' = "OVERFLOW"
         \/ ~(overflow /\ current # "OVERFLOW") /\ disp' = "idle" /\ current' = current
  BY DEF DispServices
<1>2. EventsOK'
  <2>1. seen' \in [Subs \cup Services -> BStates \cup {"OVERFLOW"}]
    BY <1>1 DEF EventsInv, EventsOK
  <2>2. overflow' \in BOOLEAN /\ disp' \in {"idle", "copy", "call"}
        /\ current' \in BStates \cup {"OVERFLOW"}
    BY <1>1 DEF EventsInv, EventsOK
  <2> QED BY <1>1, <2>1, <2>2 DEF EventsInv, EventsOK, table
<1>3. TableInv' /\ Registered' = Registered
  BY <1>1 DEF EventsInv, TableInv, Active, Registered, ToCall, CalledOnce, table
<1>4. FreshInv'
  <2>1. \A s \in fresh : s \in DOMAIN seen /\ ~\E i \in 1..SlotCount : subscribers[i] = s
    <3>1. fresh \subseteq Subs /\ seen \in [Subs \cup Services -> BStates \cup {"OVERFLOW"}]
      BY DEF EventsInv, EventsOK
    <3> QED BY <1>1, <3>1, ClassAssumption DEF ToCall
  <2>2. ASSUME fresh # {}, events = <<>>
        PROVE  ~overflow /\ \A s \in fresh : seen'[s] = published
    <3>1. ~overflow /\ current = published /\ \A s \in fresh : seen[s] = published
      BY <1>1, <2>1, <2>2 DEF EventsInv, FreshInv
    <3> QED BY <1>1, <2>1, <3>1
  <2>3. overflow' => fresh = {} /\ Len(events) = QueueSize
    BY <1>1 DEF EventsInv, FreshInv
  <2>4. fresh' \subseteq Registered' /\ (fresh # {} /\ events # <<>> => events[Len(events)] = published)'
    BY <1>1, <1>3 DEF EventsInv, FreshInv
  <2>5. (fresh # {} /\ events = <<>>)' => disp' = "idle" /\ \A s \in fresh' : seen'[s] = published'
    BY <1>1, <2>2
  <2>6. (overflow /\ (disp = "idle" \/ current = "OVERFLOW") => fresh = {} /\ Len(events) = QueueSize)'
    BY <1>1, <2>3
  <2> QED BY <2>4, <2>5, <2>6 DEF FreshInv
<1> QED BY <1>2, <1>3, <1>4 DEF EventsInv

LEMMA EventsStep ==
    ASSUME EventsInv, ClassOK, [Next]_vars
    PROVE  EventsInv'
<1>1. CASE \E t \in Threads : ClassCall(t)
  <2> PICK t \in Threads : ClassCall(t) BY <1>1
  <2>1. CASE UspPublish(t)
    <3>1. class_b_state \in BStates
      BY DEF ClassOK
    <3> QED BY <2>1, <3>1, PublishStep DEF UspPublish
  <2>2. CASE ~UspPublish(t)
    <3>1. UNCHANGED <<queue, table, dispatcher>>
      BY <2>2 DEF ClassCall, SetClass, SetClassFails, StopClassB, GetClass, LeaveNetwork, note_class,
                  LeavePower
    <3> QED BY <3>1, EventsQuiet
  <2> QED BY <2>1, <2>2
<1>2. CASE TableCall
  BY <1>2, RegisterStep, UnregisterStep, ServiceStep DEF TableCall
<1>3. CASE Modem
  <2>1. CASE \E next \in {"ACTIVE", "IDLE"} : ClassBStatus(next)
    <3> PICK next \in {"ACTIVE", "IDLE"} : ClassBStatus(next) BY <2>1
    <3>1. next \in BStates
      BY DEF BStates
    <3> QED BY <3>1, PublishStep, EventsQuiet DEF ClassBStatus
  <2>2. CASE \E ok \in BOOLEAN : ModemReset(ok)
    BY <2>2, EventsQuiet DEF ModemReset
  <2> QED BY <1>3, <2>1, <2>2 DEF Modem
<1>4. CASE Dispatch
  BY <1>4, GetStep, CopyStep, CallStep, FinishStep DEF Dispatch
<1>5. CASE OtherClient
  <2>1. UNCHANGED still
    BY <1>5 DEF OtherClient, StoreBegin, StoreEnd, FuotaState, SetPm, AppGet, AppPut
  <2> QED BY <2>1, EventsQuiet DEF still
<1>6. CASE UNCHANGED vars
  BY <1>6, EventsQuiet DEF vars
<1> QED BY <1>1, <1>2, <1>3, <1>4, <1>5, <1>6 DEF Next

LEMMA BoundsStep ==
    ASSUME BoundsOK, [Next]_vars
    PROVE  BoundsOK'
<1>1. MaxCalls \in Nat /\ MaxModem \in Nat /\ MaxOthers \in Nat
  BY ClassAssumption
<1> DEFINE Step == /\ calls' = calls \/ (calls < MaxCalls /\ calls' = calls + 1)
                   /\ modem_events' = modem_events
                        \/ (modem_events < MaxModem /\ modem_events' = modem_events + 1)
                   /\ others' = others \/ (others < MaxOthers /\ others' = others + 1)
<1>2. ASSUME Step PROVE BoundsOK'
  BY <1>1, <1>2 DEF BoundsOK
<1>3. CASE \E t \in Threads : ClassCall(t)
  <2>1. Step
    BY <1>3 DEF ClassCall, SetClass, SetClassFails, StopClassB, GetClass, LeaveNetwork, UspPublish,
                note_class, LeavePower, Enter, clients
  <2> QED BY <1>2, <2>1
<1>4. CASE TableCall
  <2>1. Step
    BY <1>4 DEF TableCall, Register, Unregister, RegisterService, clients
  <2> QED BY <1>2, <2>1
<1>5. CASE Modem
  <2>1. Step
    BY <1>5 DEF Modem, ClassBStatus, ModemReset, clients, thread
  <2> QED BY <1>2, <2>1
<1>6. CASE Dispatch
  <2>1. Step
    BY <1>6 DEF Dispatch, DispGet, DispCopy, DispCall, DispServices, clients, thread
  <2> QED BY <1>2, <2>1
<1>7. CASE OtherClient
  <2>1. Step
    BY <1>7 DEF OtherClient, StoreBegin, StoreEnd, FuotaState, SetPm, AppGet, AppPut, Other, still,
                thread
  <2> QED BY <1>2, <2>1
<1>8. CASE UNCHANGED vars
  <2>1. Step
    BY <1>8 DEF vars, clients, thread
  <2> QED BY <1>2, <2>1
<1> QED BY <1>3, <1>4, <1>5, <1>6, <1>7, <1>8 DEF Next

-----------------------------------------------------------------------------
(* The theorems *)

IInv == PowerInv /\ ClassInv /\ EventsInv /\ BoundsOK

LEMMA InitIInv ==
    ASSUME Init
    PROVE  IInv
<1>1. PowerInv
  <2>1. \A l \in Locks : lock_counts[l] = 0 /\ app_refs[l] = 0
    BY DEF Init
  <2>2. PowerOK
    <3>1. 0 \in 0..MaxCount
      BY ClassAssumption
    <3> QED BY <3>1 DEF Init, PowerOK
  <2>4. Balance
    <3>1. native = 0 /\ ~is_pm_locked /\ ~power_class_c_held /\ ~storing /\ ~power_flash_held
      BY DEF Init
    <3>2. /\ Count(is_pm_locked) = 0 /\ Count(power_class_c_held) = 0 /\ Count(storing) = 0
          /\ Count(power_flash_held) = 0
      BY <3>1 DEF Count
    <3> QED BY <2>1, <3>1, <3>2 DEF Balance, Locks
  <2> QED BY <2>2, <2>4 DEF PowerInv
<1>2. ClassInv
  <2>1. NoOne \notin Threads
    BY ClassAssumption DEF NoOne
  <2> QED BY <2>1 DEF Init, ClassInv, ClassOK, LockInv, NoteInv, PowerFollowsClass,
                      ClassBEventsOrdered, Classes, BStates
<1>3. EventsInv
  <2>1. Active = {} /\ Registered = {} /\ ToCall = {}
    BY DEF Init, Active, Registered, ToCall
  <2>2. EventsOK
    <3>1. events \in Seq(BStates) /\ Len(events) = 0 /\ services \in Seq(Services) /\ Len(services) = 0
      BY DEF Init
    <3>2. QueueSize \in Nat
      BY ClassAssumption
    <3>3. /\ overflow \in BOOLEAN /\ published \in BStates /\ fresh \subseteq Subs
          /\ disp \in {"idle", "copy", "call"} /\ current \in BStates \cup {"OVERFLOW"}
      BY DEF Init, BStates
    <3>4. /\ callback_slots \in [1..SlotCount -> Subs \cup {NoOne}]
          /\ subscribers \in [1..SlotCount -> Subs \cup {NoOne}]
          /\ late \in [Subs -> Nat \cup {Member}]
      BY DEF Init
    <3>5. seen \in [Subs \cup Services -> BStates \cup {"OVERFLOW"}]
      BY DEF Init, BStates
    <3> QED BY <3>1, <3>2, <3>3, <3>4, <3>5 DEF EventsOK, ServiceMax
  <2>3. TableInv
    BY <2>1 DEF Init, TableInv, CalledOnce, Member
  <2>4. FreshInv
    BY <2>1 DEF Init, FreshInv
  <2> QED BY <2>2, <2>3, <2>4 DEF EventsInv
<1>4. BoundsOK
  BY ClassAssumption DEF Init, BoundsOK
<1> QED BY <1>1, <1>2, <1>3, <1>4 DEF IInv

LEMMA NextIInv ==
    ASSUME IInv, [Next]_vars
    PROVE  IInv'
BY LedgerStep, ClassStep, EventsStep, BoundsStep DEF IInv, ClassInv

\* For any threads, subscribers and bounds: every variable keeps its type; however class calls
\* overlap, the noted class is the modem's once they are done, unless the last to note was
\* overtaken at the modem or the modem was reset; the power reference goes with the noted class;
\* and the lock counts of power.c are the references its clients believe they hold.
THEOREM ClassIsConsistent == Spec => []ClassConsistent
<1>1. ASSUME IInv PROVE ClassConsistent
  <2>1. TypeOK
    BY <1>1 DEF IInv, PowerInv, ClassInv, EventsInv, TypeOK
  <2>2. NotedClassIsModems /\ PowerFollowsClass
    BY <1>1 DEF IInv, ClassInv, NoteInv, NotedClassIsModems, AtRest
  <2>3. CountsAreReferences
    BY <1>1, BalanceIsCounts DEF IInv, PowerInv
  <2> QED BY <2>1, <2>2, <2>3 DEF ClassConsistent
<1> QED BY <1>1, InitIInv, NextIInv, PTL DEF Spec

\* For any table and queue size: Class B events reach the subscribers in mutex order, the last
\* one included unless the queue was full, each subscriber once per event and at most once after
\* it unregistered, however lorawan.c's registrations, dispatcher and class calls interleave.
THEOREM SubscribersAreServed == Spec => []SubscribersServed
<1>1. ASSUME IInv PROVE SubscribersServed
  <2>1. SubscriberCurrent
    BY <1>1 DEF IInv, ClassInv, ClassBEventsOrdered, EventsInv, FreshInv, SubscriberCurrent
  <2>2. LateCallIsInFlight
    BY <1>1 DEF IInv, EventsInv, TableInv, LateCallIsInFlight, Member
  <2> QED BY <1>1, <2>1, <2>2 DEF IInv, ClassInv, EventsInv, TableInv, SubscribersServed
<1> QED BY <1>1, InitIInv, NextIInv, PTL DEF Spec

\* The service, the storage, FUOTA and the application together implement the ledger of the
\* power service, for any maximum count: every step of theirs is a step of the ledger or none.
THEOREM LedgerIsKept == Spec => KeepsLedger
<1>1. ASSUME Init PROVE Ledger!Init
  <2>1. native = 0 /\ is_pm_locked = FALSE
    BY <1>1 DEF Init
  <2>2. \A c \in PmClients : pm_refs[c] = [l \in Locks |-> 0]
    BY <1>1, RefsOf DEF Init, On, Count, PmClients
  <2>3. pm_refs = [c \in PmClients |-> pm_refs[c]]
    <3> DEFINE e(d) == CASE d = "lorawan" -> On("LORAWAN", Count(power_class_c_held))
                         [] d = "storage" -> On("FLASH", Count(storing))
                         [] d = "fuota" -> On("FLASH", Count(power_flash_held))
                         [] d = "app" -> app_refs
    <3>1. pm_refs = [d \in PmClients |-> e(d)]
      BY DEF pm_refs
    <3> HIDE DEF e
    <3> QED BY <3>1
  <2> QED BY <2>1, <2>2, <2>3 DEF Ledger!Init
<1>2. ASSUME IInv, [Next]_vars PROVE [Ledger!Next]_(Ledger!ledger)
  BY <1>2, LedgerStep DEF IInv, ClassInv
<1> QED BY <1>1, <1>2, InitIInv, NextIInv, PTL DEF Spec, KeepsLedger, Ledger!Spec
=============================================================================
