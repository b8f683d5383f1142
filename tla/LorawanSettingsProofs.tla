----------------------- MODULE LorawanSettingsProofs -----------------------
(***************************************************************************)
(* Proofs about LorawanSettings, for every manifest, value range and set   *)
(* of storage faults: the types, the agreement of the two caches, and,     *)
(* when no delete fails, that a reboot restores what the API last said.    *)
(***************************************************************************)
EXTENDS LorawanSettings, TLAPS

\* The keys that some call loads; the old keys of the policy and of the
\* region are not among them.
Loadable == Credentials \cup Shared

\* A shared setting is no credential, and neither is an old key, so a call
\* that loads or stores settings leaves what it migrates from alone.
LEMMA Keys ==
    /\ Loadable \subseteq Settings
    /\ Credentials \cap Shared = {}
    /\ Parts \cap Loadable = {}
    /\ "band" \notin Loadable
    /\ {Manifest[i] : i \in 1..Len(Manifest)} = Settings
<1>1. DOMAIN LoadOrder = {"deveui", "joineui", "appkey", "genappkey", "devaddr",
                          "nwkskey", "appskey", "njm", "join_policy", "chmask"}
    BY DEF LoadOrder
<1>2. Loadable \subseteq Settings
    BY DEF Loadable, Credentials, Shared
<1>3. Credentials \cap Shared = {}
    BY <1>1 DEF Credentials, Shared
<1>4. Parts \cap Loadable = {}
    BY <1>1 DEF Loadable, Credentials, Shared, Parts
<1>5. "band" \notin Loadable
    BY <1>1 DEF Loadable, Credentials, Shared
<1>6. {Manifest[i] : i \in 1..Len(Manifest)} = Settings
    BY SettingsAssumption DEF Settings
<1> QED
    BY <1>2, <1>3, <1>4, <1>5, <1>6

\* The policy fields and the band exist whenever what needs them does.
LEMMA OldKeys ==
    /\ "join_policy" \in Settings => Parts \subseteq Settings
    /\ "region" \in Settings => "band" \in Settings
    /\ \A p \in Parts : p # "region" /\ p # "join_policy" /\ p # "band"
BY SettingsAssumption DEF Parts

\* load_value returns a valid value, nothing, or an error.
LEMMA LoadType ==
    ASSUME TypeOK, NEW k \in Loadable
    PROVE  LoadValue(k) \in Value(k) \cup {Absent, Corrupt}
<1>1. k \in Settings /\ k # "band"
    BY Keys
<1>2. CASE k = "join_policy"
    <2>1. \A p \in Parts : ReadLegacy(p) \in (0..MaxValue) \cup {Absent, Corrupt}
        BY <1>1, <1>2, OldKeys DEF TypeOK, ReadLegacy, Held, Value
    <2>2. MigratePolicy \in Policies \cup {Absent, Corrupt}
        <3>1. \A p \in Parts : Default(p) = 0
            BY OldKeys DEF Default
        <3>2. 0 \in 0..MaxValue
            BY SettingsAssumption
        <3>3. ASSUME ~(\E p \in Parts : ReadLegacy(p) = Corrupt)
              PROVE  [p \in Parts |-> IF ReadLegacy(p) = Absent THEN Default(p)
                                      ELSE ReadLegacy(p)] \in Policies
            BY <2>1, <3>1, <3>2, <3>3 DEF Policies
        <3> QED
            BY <3>3 DEF MigratePolicy
    <2>3. flash["lorawan"][k] \in Policies \cup {Absent, Corrupt}
        BY <1>1, <1>2 DEF TypeOK, Held, Value
    <2> QED
        BY <1>2, <2>2, <2>3 DEF LoadValue, Value
<1>3. CASE k = "region"
    <2>1. ReadLegacy(k) \in AllRegions \cup {Absent, Corrupt}
        BY <1>1, <1>3 DEF TypeOK, ReadLegacy, Held, Value
    <2>2. MigrateRegion \in AllRegions \cup {Absent, Corrupt}
        BY DEF MigrateRegion, AllRegions
    <2> QED
        BY <1>3, <2>1, <2>2 DEF LoadValue, Value
<1>4. CASE k # "join_policy" /\ k # "region"
    BY <1>1, <1>4 DEF TypeOK, LoadValue, ReadLegacy, Held, Value
<1> QED
    BY <1>2, <1>3, <1>4

\* What the API shows for a value of a key is a value of that key, or none.
LEMMA ShownType ==
    ASSUME NEW k \in Loadable, NEW v \in Value(k) \cup {Absent}
    PROVE  Shown(k, v) \in Showable(k)
<1>1. Default(k) \in Value(k)
    <2>1. 0 \in 0..MaxValue /\ "EU_868" \in AllRegions
        BY SettingsAssumption DEF AllRegions
    <2> QED
        BY <2>1 DEF Default, Value, Policies
<1> QED
    BY <1>1 DEF Shown, Showable, Defaulted

\* A read that does not fail returns a valid value, or none.
LEMMA ReadType ==
    ASSUME TypeOK, NEW k \in Loadable, CanLoad(k)
    PROVE  Reads(k) \in Value(k) \cup {Absent}
BY LoadType, Keys DEF TypeOK, Reads, CanLoad

-----------------------------------------------------------------------------
(***************************************************************************)
(* What a read or a write of settings does to flash and to the cache.      *)
(***************************************************************************)

\* The conjuncts of TypeOK that a read or a write may disturb.
FlashOK(f) ==
    /\ DOMAIN f = {"lorawan", "rzi"}
    /\ \A ns \in {"lorawan", "rzi"} :
        /\ DOMAIN f[ns] = Settings
        /\ \A k \in Settings : f[ns][k] \in Held(ns, k) \cup {Absent, Corrupt}
CacheOK(c) ==
    /\ DOMAIN c = Settings
    /\ \A k \in Settings : c[k] \in Value(k) \cup {Absent, Unloaded}

\* Reading settings keeps the types.
LEMMA ReadKeepsTypes ==
    ASSUME TypeOK, NEW S \in SUBSET Loadable, \A k \in S : CanLoad(k)
    PROVE  FlashOK(FlashAfter(S)) /\ CacheOK(CacheAfter(S))
<1>1. \A k \in S : /\ k \in Settings /\ k # "band"
                   /\ Reads(k) \in Value(k) \cup {Absent}
                   /\ Migrates(k) => LoadValue(k) \in Value(k)
    BY ReadType, LoadType, Keys DEF Migrates, Reads, CanLoad
<1>2. CacheOK(CacheAfter(S))
    BY <1>1 DEF TypeOK, CacheOK, CacheAfter
<1>3. FlashOK(FlashAfter(S))
    BY <1>1 DEF TypeOK, FlashOK, FlashAfter, Held
<1> QED
    BY <1>2, <1>3

\* So does writing one of them.
LEMMA WriteKeepsTypes ==
    ASSUME TypeOK, NEW S \in SUBSET Loadable, NEW k \in Loadable, NEW v \in Value(k),
           SettingWrite(S, k, v)
    PROVE  /\ FlashOK(flash') /\ CacheOK(settings')
           /\ settings' = [CacheAfter(S) EXCEPT ![k] = v]
<1>1. FlashOK(FlashAfter(S)) /\ CacheOK(CacheAfter(S))
    BY ReadKeepsTypes DEF SettingWrite
<1>2. k \in Settings /\ k # "band"
    BY Keys
<1>3. CacheOK(settings')
    BY <1>1, <1>2 DEF SettingWrite, CacheOK
<1>4. FlashOK(flash')
    BY <1>1, <1>2 DEF SettingWrite, FlashOK, Held
<1> QED
    BY <1>3, <1>4 DEF SettingWrite

\* What ensure_loaded_locked leaves in the credential store.
LEMMA EnsuredType ==
    ASSUME TypeOK, \A k \in Missing : CanLoad(k)
    PROVE  /\ Missing \in SUBSET Loadable
           /\ DOMAIN Ensured = Credentials
           /\ \A k \in Credentials : Ensured[k] \in Showable(k)
<1>1. Missing \in SUBSET Loadable
    BY DEF Missing, Loadable
<1>2. CASE credentials # Unloaded
    BY <1>1, <1>2 DEF TypeOK, Ensured
<1>3. CASE credentials = Unloaded
    <2>1. \A k \in Credentials : Shown(k, Reads(k)) \in Showable(k)
        BY <1>3, ReadType, ShownType DEF Missing, Loadable
    <2> QED
        BY <1>1, <1>3, <2>1 DEF Ensured
<1> QED
    BY <1>1, <1>2, <1>3

\* A value that is stored is shown as a value of its key.
LEMMA PersistKeepsTypes ==
    ASSUME TypeOK, NEW k \in Credentials, NEW v \in Value(k),
           Persist(k, v) \/ PersistFails(k, v)
    PROVE  /\ FlashOK(flash') /\ CacheOK(settings')
           /\ DOMAIN credentials' = Credentials
           /\ \A l \in Credentials : credentials'[l] \in Showable(l)
           /\ superseded' \subseteq Settings
           /\ Shown(k, v) \in Showable(k)
<1>1. k \in Loadable /\ k \in Settings /\ Missing \subseteq Settings
    BY Keys DEF Loadable, Missing
<1>2. \A l \in Missing : CanLoad(l)
    BY DEF Persist, PersistFails, SettingWrite, WriteFails, SettingsRead
<1>3. Shown(k, v) \in Showable(k)
    BY <1>1, ShownType
<1>4. Missing \in SUBSET Loadable
    BY <1>2, EnsuredType
<1>5. CASE Persist(k, v)
    <2>1. FlashOK(flash') /\ CacheOK(settings')
        BY <1>1, <1>4, <1>5, WriteKeepsTypes DEF Persist
    <2>2. DOMAIN credentials' = Credentials /\ \A l \in Credentials : credentials'[l] \in Showable(l)
        BY <1>2, <1>3, <1>5, EnsuredType DEF Persist
    <2> QED
        BY <1>1, <1>3, <1>5, <2>1, <2>2 DEF Persist, SettingWrite, TypeOK
<1>6. CASE PersistFails(k, v)
    <2>1. FlashOK(flash') /\ CacheOK(settings')
        BY <1>2, <1>4, <1>6, ReadKeepsTypes DEF PersistFails, WriteFails, SettingsRead
    <2> QED
        BY <1>1, <1>2, <1>3, <1>6, <2>1, EnsuredType
        DEF PersistFails, WriteFails, SettingsRead, TypeOK
<1> QED
    BY <1>5, <1>6

\* The policy an update stores is a policy, as is what callers were told.
LEMMA PolicyType ==
    ASSUME TypeOK, "join_policy" \in Settings, \A l \in Missing : CanLoad(l),
           NEW F \in SUBSET Parts, NEW p \in [F -> 0..MaxValue]
    PROVE  [f \in Parts |-> IF f \in F THEN p[f] ELSE Ensured["join_policy"][f]]
                \in Value("join_policy")
<1>1. "join_policy" \in Credentials
    BY DEF Credentials, LoadOrder
<1>2. Ensured["join_policy"] \in Policies
    BY <1>1, EnsuredType DEF Showable, Defaulted, Value
<1> QED
    BY <1>2 DEF Policies, Value

-----------------------------------------------------------------------------
(***************************************************************************)
(* Type correctness.                                                       *)
(***************************************************************************)

\* The steps that read or write settings keep the types.
LEMMA CallsKeepTypes ==
    ASSUME TypeOK,
           \/ \E k \in Shared : ConfigGet(k)
           \/ \E k \in Shared : \E v \in Value(k) : ConfigSet(k, v)
           \/ \E k \in Credentials : EnsureLoadedFails(k)
           \/ \E k \in Credentials : CredentialGet(k)
           \/ CredentialBusy
    PROVE  TypeOK'
<1>1. ASSUME NEW k \in Shared, ConfigGet(k) PROVE TypeOK'
    <2>1. k \in Loadable /\ k \in Settings /\ {k} \in SUBSET Loadable /\ CanLoad(k)
        BY <1>1, Keys DEF Loadable, ConfigGet, SettingsRead
    <2>2. FlashOK(flash') /\ CacheOK(settings')
        BY <1>1, <2>1, ReadKeepsTypes DEF ConfigGet, SettingsRead
    <2>3. Shown(k, Reads(k)) \in Showable(k)
        BY <2>1, ReadType, ShownType
    <2> QED
        BY <1>1, <2>1, <2>2, <2>3 DEF ConfigGet, SettingsRead, TypeOK, FlashOK, CacheOK
<1>2. ASSUME NEW k \in Shared, NEW v \in Value(k), ConfigSet(k, v) PROVE TypeOK'
    <2>1. k \in Loadable /\ k \in Settings /\ {} \in SUBSET Loadable
        BY Keys DEF Loadable
    <2>2. Shown(k, v) \in Showable(k)
        BY <2>1, ShownType
    <2>3. CASE SettingWrite({}, k, v) /\ told' = [told EXCEPT ![k] = Shown(k, v)]
        BY <1>2, <2>1, <2>2, <2>3, WriteKeepsTypes
        DEF ConfigSet, SettingWrite, TypeOK, FlashOK, CacheOK
    <2>4. CASE WriteFails({}, k, v) /\ UNCHANGED told
        BY <1>2, <2>1, <2>4, ReadKeepsTypes
        DEF ConfigSet, WriteFails, SettingsRead, TypeOK, FlashOK, CacheOK
    <2> QED
        BY <1>2, <2>3, <2>4 DEF ConfigSet
<1>3. ASSUME NEW k \in Credentials, EnsureLoadedFails(k) PROVE TypeOK'
    <2> DEFINE S == {l \in Missing : LoadOrder[l] < LoadOrder[k]}
    <2>1. S \in SUBSET Loadable /\ S \subseteq Settings
        BY Keys DEF Missing, Loadable
    <2>2. FlashOK(flash') /\ CacheOK(settings')
        BY <1>3, <2>1, ReadKeepsTypes DEF EnsureLoadedFails, SettingsRead
    <2> QED
        BY <1>3, <2>1, <2>2 DEF EnsureLoadedFails, SettingsRead, TypeOK, FlashOK, CacheOK
<1>4. ASSUME NEW k \in Credentials, CredentialGet(k) PROVE TypeOK'
    <2>1. \A l \in Missing : CanLoad(l)
        BY <1>4 DEF CredentialGet, SettingsRead
    <2>2. Missing \in SUBSET Loadable /\ Missing \subseteq Settings /\ k \in Settings
        BY <2>1, EnsuredType, Keys DEF Loadable
    <2>3. FlashOK(flash') /\ CacheOK(settings')
        BY <1>4, <2>1, <2>2, ReadKeepsTypes DEF CredentialGet, SettingsRead
    <2> QED
        BY <1>4, <2>1, <2>2, <2>3, EnsuredType
        DEF CredentialGet, SettingsRead, TypeOK, FlashOK, CacheOK
<1>5. ASSUME CredentialBusy PROVE TypeOK'
    <2>1. \A l \in Missing : CanLoad(l)
        BY <1>5 DEF CredentialBusy, SettingsRead
    <2>2. Missing \in SUBSET Loadable /\ Missing \subseteq Settings
        BY <2>1, EnsuredType, Keys
    <2>3. FlashOK(flash') /\ CacheOK(settings')
        BY <1>5, <2>1, <2>2, ReadKeepsTypes DEF CredentialBusy, SettingsRead
    <2> QED
        BY <1>5, <2>1, <2>2, <2>3, EnsuredType
        DEF CredentialBusy, SettingsRead, TypeOK, FlashOK, CacheOK
<1> QED
    BY <1>1, <1>2, <1>3, <1>4, <1>5

\* The manifest has a length, and no reset in progress is a state of one.
LEMMA IdleType == Last \in Nat /\ Idle \in [at : 0..(Last + 1), ok : BOOLEAN]
<1>1. Last \in Nat
    BY SettingsAssumption DEF Last
<1> QED
    BY <1>1 DEF Idle

\* Every step keeps the types.
LEMMA StepType ==
    ASSUME TypeOK, [Next]_vars
    PROVE  TypeOK'
<1>1. ASSUME NEW ns \in {"lorawan", "rzi"}, NEW k \in Settings,
             NEW v \in Held(ns, k) \cup {Corrupt}, OldFirmware(ns, k, v)
      PROVE  TypeOK'
    BY <1>1 DEF OldFirmware, TypeOK
<1>2. ASSUME NEW k \in Credentials, NEW v \in Value(k), CredentialSet(k, v)
      PROVE  TypeOK'
    <2>1. k \in Settings
        BY DEF Credentials
    <2>2. CASE Persist(k, v) /\ told' = [told EXCEPT ![k] = Shown(k, v)]
        BY <1>2, <2>1, <2>2, PersistKeepsTypes DEF CredentialSet, TypeOK, FlashOK, CacheOK
    <2>3. CASE PersistFails(k, v) /\ UNCHANGED told
        BY <1>2, <2>3, PersistKeepsTypes DEF CredentialSet, TypeOK, FlashOK, CacheOK
    <2> QED
        BY <1>2, <2>2, <2>3 DEF CredentialSet
<1>3. ASSUME "join_policy" \in Settings, NEW F \in SUBSET Parts,
             NEW p \in [F -> 0..MaxValue], UpdatePolicy(F, p)
      PROVE  TypeOK'
    <2> DEFINE policy == [f \in Parts |-> IF f \in F THEN p[f] ELSE Ensured["join_policy"][f]]
    <2>1. "join_policy" \in Credentials
        BY <1>3 DEF Credentials, LoadOrder
    <2>2. \A l \in Missing : CanLoad(l)
        BY <1>3 DEF UpdatePolicy, Persist, PersistFails, SettingWrite, WriteFails, SettingsRead
    <2>3. policy \in Value("join_policy")
        BY <1>3, <2>2, PolicyType
    <2>4. CASE Persist("join_policy", policy) /\ told' = ToldPolicy(F, p, policy)
        <3>1. told["join_policy"] \in Policies \cup {Unknown}
            BY <1>3 DEF TypeOK, Showable, Defaulted, Value
        <3>2. told'["join_policy"] \in Policies
            BY <1>3, <2>3, <2>4, <3>1 DEF ToldPolicy, Policies, Value, TypeOK
        <3>3. DOMAIN told' = Settings
              /\ \A l \in Settings \ {"join_policy"} : told'[l] = told[l]
            BY <2>4 DEF ToldPolicy, TypeOK
        <3>4. \A l \in Settings : told'[l] \in Showable(l) \cup {Unknown}
            BY <3>2, <3>3 DEF TypeOK, Showable, Value
        <3> QED
            BY <1>3, <2>1, <2>3, <2>4, <3>3, <3>4, PersistKeepsTypes
            DEF UpdatePolicy, TypeOK, FlashOK, CacheOK
    <2>5. CASE PersistFails("join_policy", policy) /\ UNCHANGED told
        BY <1>3, <2>1, <2>3, <2>5, PersistKeepsTypes DEF UpdatePolicy, TypeOK, FlashOK, CacheOK
    <2> QED
        BY <1>3, <2>4, <2>5 DEF UpdatePolicy
<1>4. ASSUME NEW active \in BOOLEAN, SetJoinActive(active) PROVE TypeOK'
    BY <1>4 DEF SetJoinActive, TypeOK
<1>5. Last \in Nat /\ Idle \in [at : 0..(Last + 1), ok : BOOLEAN]
    BY IdleType
<1>6. CASE ClearStarts
    BY <1>5, <1>6 DEF ClearStarts, TypeOK
<1>7. CASE ClearDeletes
    <2>1. Victim(clearing.at).ns \in {"lorawan", "rzi"} /\ Victim(clearing.at).key \in Settings
        BY <1>7, SettingsAssumption DEF ClearDeletes, Victim, Last, Settings
    <2>2. clearing' \in [at : 0..(Last + 1), ok : BOOLEAN]
        <3>1. clearing \in [at : 0..(Last + 1), ok : BOOLEAN] /\ clearing.at + 1 \in 0..(Last + 1)
            BY <1>5, <1>7 DEF ClearDeletes, TypeOK
        <3>2. \/ clearing' = [clearing EXCEPT !.at = @ + 1]
              \/ clearing' = [at |-> clearing.at + 1, ok |-> FALSE]
            BY <1>7 DEF ClearDeletes
        <3>3. CASE clearing' = [clearing EXCEPT !.at = @ + 1]
            BY <3>1, <3>3
        <3>4. CASE clearing' = [at |-> clearing.at + 1, ok |-> FALSE]
            BY <3>1, <3>4
        <3> QED
            BY <3>2, <3>3, <3>4
    <2>3. FlashOK(flash')
        BY <1>7, <2>1 DEF ClearDeletes, TypeOK, FlashOK
    <2> QED
        BY <1>7, <2>2, <2>3 DEF ClearDeletes, TypeOK, FlashOK
<1>8. CASE ClearEnds
    <2>1. CASE clearing.ok
        <3>1. /\ settings' = [k \in Settings |-> Unloaded] /\ credentials' = Unloaded
              /\ join_active' = FALSE /\ superseded' = {} /\ clearing' = Idle /\ UNCHANGED <<flash, told>>
            BY <1>8, <2>1 DEF ClearEnds
        <3>2. CacheOK(settings')
            BY <3>1 DEF CacheOK
        <3> QED
            BY <1>5, <3>1, <3>2 DEF TypeOK, CacheOK
    <2>2. CASE ~clearing.ok
        BY <1>5, <1>8, <2>2 DEF ClearEnds, TypeOK
    <2> QED
        BY <2>1, <2>2
<1>9. CASE Reboot
    BY <1>5, <1>9 DEF Reboot, TypeOK
<1>10. CASE UNCHANGED vars
    BY <1>10 DEF vars, TypeOK
<1> QED
    BY <1>1, <1>2, <1>3, <1>4, <1>6, <1>7, <1>8, <1>9, <1>10, CallsKeepTypes DEF Next

\* The variables of the settings keep their types, for every manifest and
\* whichever storage calls fail: in particular no value that valid_value
\* refuses ever reaches a cache or a caller.
THEOREM SettingsTypeCorrect == Spec => []TypeOK
<1>1. Init => TypeOK
    <2> SUFFICES ASSUME Init PROVE TypeOK
        OBVIOUS
    <2>1. DOMAIN flash = {"lorawan", "rzi"} /\ \A ns \in {"lorawan", "rzi"} :
            DOMAIN flash[ns] = Settings /\ \A k \in Settings : flash[ns][k] = Absent
        BY DEF Init
    <2>2. join_active \in BOOLEAN /\ clearing \in [at : 0..(Last + 1), ok : BOOLEAN]
        BY IdleType DEF Init
    <2> QED
        BY <2>1, <2>2 DEF Init, TypeOK
<1>2. TypeOK /\ [Next]_vars => TypeOK'
    BY StepType
<1> QED
    BY <1>1, <1>2, PTL DEF Spec

-----------------------------------------------------------------------------
(***************************************************************************)
(* The two caches agree.                                                   *)
(***************************************************************************)

\* A call that ends with the store as ensure_loaded_locked leaves it.
LEMMA LoadAgrees ==
    ASSUME TypeOK, StoreMatchesSchema, SettingsRead(Missing), credentials' = Ensured
    PROVE  StoreMatchesSchema'
<1>1. Credentials \subseteq Settings
    BY DEF Credentials
<1>2. CASE credentials # Unloaded
    BY <1>1, <1>2 DEF SettingsRead, Missing, Ensured, CacheAfter, StoreMatchesSchema
<1>3. CASE credentials = Unloaded
    <2>1. \A k \in Credentials : Reads(k) # Unloaded
        BY <1>3, ReadType, MarkersAssumption, <1>1 DEF SettingsRead, Missing, Loadable
    <2> QED
        BY <1>1, <1>3, <2>1 DEF SettingsRead, Missing, Ensured, CacheAfter, StoreMatchesSchema
<1> QED
    BY <1>2, <1>3

\* A call that stores a credential.
LEMMA PersistAgrees ==
    ASSUME TypeOK, StoreMatchesSchema, NEW k \in Credentials, NEW v \in Value(k), Persist(k, v)
    PROVE  StoreMatchesSchema'
<1>1. Credentials \subseteq Settings
    BY DEF Credentials
<1>2. v # Unloaded
    BY <1>1, MarkersAssumption
<1>3. \A l \in Missing : CanLoad(l)
    BY DEF Persist, SettingWrite
<1>4. \A l \in Credentials : CacheAfter(Missing)[l] # Unloaded
                              /\ Ensured[l] = Shown(l, CacheAfter(Missing)[l])
    <2>1. CASE credentials # Unloaded
        BY <1>1, <2>1 DEF Missing, Ensured, CacheAfter, StoreMatchesSchema
    <2>2. CASE credentials = Unloaded
        <3>1. \A l \in Credentials : Reads(l) # Unloaded
            BY <1>1, <1>3, <2>2, ReadType, MarkersAssumption DEF Missing, Loadable
        <3> QED
            BY <1>1, <2>2, <3>1 DEF Missing, Ensured, CacheAfter
    <2> QED
        BY <2>1, <2>2
<1>5. DOMAIN CacheAfter(Missing) = Settings /\ DOMAIN Ensured = Credentials
    BY <1>3, EnsuredType DEF CacheAfter
<1> QED
    BY <1>1, <1>2, <1>4, <1>5 DEF Persist, SettingWrite, StoreMatchesSchema

\* Every step keeps the two caches in agreement.
LEMMA StepAgrees ==
    ASSUME TypeOK, StoreMatchesSchema, [Next]_vars
    PROVE  StoreMatchesSchema'
<1>1. Credentials \subseteq Settings
    BY DEF Credentials
<1>2. ASSUME NEW ns \in {"lorawan", "rzi"}, NEW k \in Settings, NEW v, OldFirmware(ns, k, v)
      PROVE  StoreMatchesSchema'
    BY <1>2 DEF OldFirmware, StoreMatchesSchema
<1>3. ASSUME NEW k \in Shared, ConfigGet(k) PROVE StoreMatchesSchema'
    BY <1>1, <1>3, Keys DEF ConfigGet, SettingsRead, CacheAfter, StoreMatchesSchema
<1>4. ASSUME NEW k \in Shared, NEW v \in Value(k), ConfigSet(k, v) PROVE StoreMatchesSchema'
    <2>1. \A l \in Credentials : settings'[l] = settings[l]
        BY <1>1, <1>4, Keys
        DEF ConfigSet, SettingWrite, WriteFails, SettingsRead, CacheAfter
    <2> QED
        BY <1>4, <2>1 DEF ConfigSet, StoreMatchesSchema
<1>5. ASSUME NEW k \in Credentials, EnsureLoadedFails(k) PROVE StoreMatchesSchema'
    BY <1>5 DEF EnsureLoadedFails, Missing, StoreMatchesSchema
<1>6. ASSUME NEW k \in Credentials, CredentialGet(k) PROVE StoreMatchesSchema'
    BY <1>6, LoadAgrees DEF CredentialGet
<1>7. ASSUME NEW k \in Credentials, NEW v \in Value(k), CredentialSet(k, v)
      PROVE  StoreMatchesSchema'
    BY <1>7, PersistAgrees, LoadAgrees DEF CredentialSet, PersistFails, WriteFails
<1>8. CASE CredentialBusy
    BY <1>8, LoadAgrees DEF CredentialBusy
<1>9. ASSUME "join_policy" \in Settings, NEW F \in SUBSET Parts,
             NEW p \in [F -> 0..MaxValue], UpdatePolicy(F, p)
      PROVE  StoreMatchesSchema'
    <2> DEFINE policy == [f \in Parts |-> IF f \in F THEN p[f] ELSE Ensured["join_policy"][f]]
    <2>1. "join_policy" \in Credentials
        BY <1>9 DEF Credentials, LoadOrder
    <2>2. CASE Persist("join_policy", policy)
        <3>1. policy \in Value("join_policy")
            BY <1>9, <2>2, PolicyType DEF Persist, SettingWrite
        <3> QED
            BY <2>1, <2>2, <3>1, PersistAgrees
    <2>3. CASE PersistFails("join_policy", policy)
        BY <2>3, LoadAgrees DEF PersistFails, WriteFails
    <2> QED
        BY <1>9, <2>2, <2>3 DEF UpdatePolicy
<1>10. ASSUME NEW active \in BOOLEAN, SetJoinActive(active) PROVE StoreMatchesSchema'
    BY <1>10 DEF SetJoinActive, StoreMatchesSchema
<1>11. CASE ClearStarts
    BY <1>11 DEF ClearStarts, StoreMatchesSchema
<1>12. CASE ClearDeletes
    BY <1>12 DEF ClearDeletes, StoreMatchesSchema
<1>13. CASE ClearEnds
    BY <1>13 DEF ClearEnds, StoreMatchesSchema
<1>14. CASE Reboot
    BY <1>14 DEF Reboot, StoreMatchesSchema
<1>15. CASE UNCHANGED vars
    BY <1>15 DEF vars, StoreMatchesSchema
<1> QED
    BY <1>2, <1>3, <1>4, <1>5, <1>6, <1>7, <1>8, <1>9, <1>10, <1>11, <1>12, <1>13, <1>14, <1>15
    DEF Next

\* The credential store and the schema's cache never disagree, whichever
\* loads, saves and deletes fail, and across failed resets and reboots.
THEOREM CachesAgree == Spec => []StoreMatchesSchema
<1>1. Init => StoreMatchesSchema
    BY DEF Init, StoreMatchesSchema
<1>2. TypeOK /\ StoreMatchesSchema /\ [Next]_vars => StoreMatchesSchema'
    BY StepAgrees
<1> QED
    BY <1>1, <1>2, SettingsTypeCorrect, PTL DEF Spec

\* Both caches hold accepted values and agree, for every manifest.
THEOREM CachesAreConsistent == Spec => []CachesConsistent
<1>1. TypeOK /\ StoreMatchesSchema => CachesConsistent
    BY DEF CachesConsistent
<1> QED
    BY <1>1, SettingsTypeCorrect, CachesAgree, PTL

-----------------------------------------------------------------------------
(***************************************************************************)
(* A reboot restores what the API last said.                               *)
(***************************************************************************)

\* Reading settings, with the migrations it saves, changes no setting.
LEMMA ReadKeepsLoads ==
    ASSUME TypeOK, NEW S \in SUBSET Loadable, SettingsRead(S)
    PROVE  \A k \in Loadable : LoadValue(k)' = LoadValue(k)
<1>1. \A k \in Settings : flash'["lorawan"][k]
            = IF k \in S /\ Migrates(k) THEN LoadValue(k) ELSE flash["lorawan"][k]
    BY DEF SettingsRead, FlashAfter, TypeOK
<1>2. \A k \in Settings : flash'["rzi"][k] = flash["rzi"][k]
    BY DEF SettingsRead, FlashAfter, TypeOK
<1>3. ASSUME NEW k \in Loadable PROVE LoadValue(k)' = LoadValue(k)
    <2>1. k \in Settings
        BY Keys
    <2>2. CASE k = "join_policy"
        <3>1. \A p \in Parts : ReadLegacy(p)' = ReadLegacy(p)
            BY <1>1, <1>2, <2>1, <2>2, Keys, OldKeys DEF ReadLegacy
        <3>2. MigratePolicy' = MigratePolicy
            BY <3>1 DEF MigratePolicy, Default
        <3> QED
            BY <1>1, <2>1, <2>2, <3>2 DEF LoadValue, Migrates
    <2>3. CASE k = "region"
        <3>1. MigrateRegion' = MigrateRegion
            BY <1>2, <2>1, <2>3, OldKeys DEF MigrateRegion
        <3> QED
            BY <1>1, <1>2, <2>1, <2>3, <3>1 DEF LoadValue, ReadLegacy, Migrates
    <2>4. CASE k # "join_policy" /\ k # "region"
        BY <1>1, <1>2, <2>1, <2>4 DEF LoadValue, ReadLegacy, Migrates
    <2> QED
        BY <2>2, <2>3, <2>4
<1> QED
    BY <1>3

\* Writing a setting changes no other one.
LEMMA WriteKeepsLoads ==
    ASSUME TypeOK, NEW S \in SUBSET Loadable, NEW k \in Loadable, NEW v, SettingWrite(S, k, v)
    PROVE  /\ \A l \in Loadable \ {k} : LoadValue(l)' = LoadValue(l)
           /\ \A l \in Settings : flash'["rzi"][l] = flash["rzi"][l]
           /\ "join_policy" \in Settings => MigratePolicy' = MigratePolicy
           /\ "region" \in Settings => MigrateRegion' = MigrateRegion
<1>1. k \in Settings
    BY Keys
<1>2. DOMAIN FlashAfter(S) = {"lorawan", "rzi"}
      /\ \A ns \in {"lorawan", "rzi"} : DOMAIN FlashAfter(S)[ns] = Settings
    BY DEF FlashAfter, TypeOK
<1>3. \A l \in Settings \ {k} : flash'["lorawan"][l]
            = IF l \in S /\ Migrates(l) THEN LoadValue(l) ELSE flash["lorawan"][l]
    BY <1>1, <1>2 DEF SettingWrite, FlashAfter, TypeOK
<1>4. \A l \in Settings : flash'["rzi"][l] = flash["rzi"][l]
    BY <1>1, <1>2 DEF SettingWrite, FlashAfter, TypeOK
<1>5. Parts \cap {k} = {} /\ \A p \in Parts : p \notin S
    BY Keys
<1>6. ASSUME "join_policy" \in Settings PROVE MigratePolicy' = MigratePolicy
    <2>1. \A p \in Parts : ReadLegacy(p)' = ReadLegacy(p)
        BY <1>3, <1>4, <1>5, <1>6, OldKeys DEF ReadLegacy
    <2> QED
        BY <2>1 DEF MigratePolicy, Default
<1>7. ASSUME "region" \in Settings PROVE MigrateRegion' = MigrateRegion
    BY <1>4, <1>7, OldKeys DEF MigrateRegion
<1>8. ASSUME NEW l \in Loadable \ {k} PROVE LoadValue(l)' = LoadValue(l)
    <2>1. l \in Settings \ {k}
        BY Keys
    <2>2. CASE l = "join_policy"
        BY <1>3, <1>6, <2>1, <2>2 DEF LoadValue, Migrates
    <2>3. CASE l = "region"
        BY <1>3, <1>4, <1>7, <2>1, <2>3 DEF LoadValue, ReadLegacy, Migrates
    <2>4. CASE l # "join_policy" /\ l # "region"
        BY <1>3, <1>4, <2>1, <2>4 DEF LoadValue, ReadLegacy, Migrates
    <2> QED
        BY <2>2, <2>3, <2>4
<1> QED
    BY <1>4, <1>6, <1>7, <1>8

\* Writing a setting makes flash hold it, and changes no other setting.
LEMMA WriteLoads ==
    ASSUME TypeOK, RestoreInv, LocksFree, NEW S \in SUBSET Loadable,
           NEW k \in Loadable, NEW v \in Value(k), SettingWrite(S, k, v)
    PROVE  /\ LoadValue(k)' = v
           /\ \A l \in Loadable \ {k} : LoadValue(l)' = LoadValue(l)
<1>1. k \in Settings /\ v # Absent /\ v # Unloaded
    BY Keys, MarkersAssumption
<1>2. DOMAIN FlashAfter(S) = {"lorawan", "rzi"}
      /\ \A ns \in {"lorawan", "rzi"} : DOMAIN FlashAfter(S)[ns] = Settings
    BY DEF FlashAfter, TypeOK
<1>3. CASE CacheAfter(S)[k] # v
    <2>1. flash'["lorawan"][k] = v
        BY <1>1, <1>2, <1>3 DEF SettingWrite
    <2> QED
        BY <1>1, <2>1, WriteKeepsLoads DEF LoadValue, ReadLegacy
<1>4. CASE CacheAfter(S)[k] = v
    <2>1. LoadValue(k) = v
        BY <1>1, <1>4 DEF CacheAfter, Reads, RestoreInv, Loadable
    <2>2. flash'["lorawan"][k]
            = IF k \in S /\ Migrates(k) THEN LoadValue(k) ELSE flash["lorawan"][k]
        BY <1>1, <1>2, <1>4 DEF SettingWrite, FlashAfter, TypeOK
    <2>3. LoadValue(k)' = v
        <3>1. CASE k = "join_policy"
            BY <1>1, <2>1, <2>2, <3>1, WriteKeepsLoads DEF LoadValue, Migrates
        <3>2. CASE k = "region"
            BY <1>1, <2>1, <2>2, <3>2, WriteKeepsLoads DEF LoadValue, ReadLegacy, Migrates
        <3>3. CASE k # "join_policy" /\ k # "region"
            BY <1>1, <2>1, <2>2, <3>3, WriteKeepsLoads DEF LoadValue, ReadLegacy, Migrates
        <3> QED
            BY <3>1, <3>2, <3>3
    <2> QED
        BY <2>3, WriteKeepsLoads
<1> QED
    BY <1>3, <1>4

\* The invariant after a call that only reads, and tells the truth.
LEMMA ReadRestores ==
    ASSUME TypeOK, RestoreInv, LocksFree, UNCHANGED clearing,
           NEW S \in SUBSET Loadable, SettingsRead(S),
           \A l \in Settings :
               told'[l] = told[l] \/ (l \in Loadable /\ told'[l] = Shown(l, LoadValue(l)))
    PROVE  RestoreInv'
<1>1. \A l \in Loadable : LoadValue(l)' = LoadValue(l)
    BY ReadKeepsLoads
<1>2. \A l \in Loadable : settings'[l] # Unloaded => LoadValue(l)' = settings'[l]
    BY <1>1, Keys DEF SettingsRead, CacheAfter, Reads, RestoreInv, Loadable
<1>3. \A l \in Settings : told'[l] # Unknown => Shown(l, LoadValue(l)') = told'[l]
    BY <1>1 DEF RestoreInv, RebootRestores, Loadable
<1>4. RebootRestores'
    BY <1>3 DEF RebootRestores, Shown
<1> QED
    BY <1>2, <1>4 DEF RestoreInv, LocksFree, Loadable

\* The invariant after a call that stores v under k.
LEMMA WriteRestores ==
    ASSUME TypeOK, RestoreInv, LocksFree, UNCHANGED clearing,
           NEW S \in SUBSET Loadable, NEW k \in Loadable, NEW v \in Value(k),
           SettingWrite(S, k, v),
           \A l \in Settings \ {k} : told'[l] = told[l],
           told'[k] = Shown(k, v)
    PROVE  RestoreInv'
<1>1. k \in Settings /\ LoadValue(k)' = v
      /\ \A l \in Loadable \ {k} : LoadValue(l)' = LoadValue(l)
    BY WriteLoads, Keys
<1>2. settings' = [CacheAfter(S) EXCEPT ![k] = v] /\ DOMAIN CacheAfter(S) = Settings
    BY DEF SettingWrite, CacheAfter
<1>3. \A l \in Loadable : settings'[l] # Unloaded => LoadValue(l)' = settings'[l]
    BY <1>1, <1>2, Keys DEF CacheAfter, Reads, RestoreInv, Loadable
<1>4. \A l \in Settings : told'[l] # Unknown => Shown(l, LoadValue(l)') = told'[l]
    BY <1>1 DEF RestoreInv, RebootRestores, Loadable
<1>5. RebootRestores'
    BY <1>4 DEF RebootRestores, Shown
<1> QED
    BY <1>3, <1>5 DEF RestoreInv, LocksFree, Loadable

\* A loaded store shows what flash holds.
LEMMA EnsuredShows ==
    ASSUME TypeOK, StoreMatchesSchema, RestoreInv, LocksFree, \A l \in Missing : CanLoad(l),
           NEW k \in Credentials
    PROVE  Ensured[k] = Shown(k, LoadValue(k))
BY DEF Ensured, StoreMatchesSchema, RestoreInv, Reads

\* Every step keeps the invariant, when no delete fails.
LEMMA StepRestores ==
    ASSUME "delete" \notin Faults, TypeOK, StoreMatchesSchema, RestoreInv, [Next]_vars
    PROVE  RestoreInv'
<1>1. ASSUME NEW ns \in {"lorawan", "rzi"}, NEW k \in Settings, NEW v, OldFirmware(ns, k, v)
      PROVE  RestoreInv'
    BY <1>1, Keys DEF OldFirmware, RestoreInv, RebootRestores, LocksFree, Loadable
<1>2. ASSUME NEW k \in Shared, ConfigGet(k) PROVE RestoreInv'
    <2>1. k \in Loadable /\ k \in Settings /\ {k} \in SUBSET Loadable
        BY Keys DEF Loadable
    <2>2. Reads(k) = LoadValue(k)
        BY <1>2 DEF Reads, ConfigGet, RestoreInv
    <2>3. \A l \in Settings :
            told'[l] = told[l] \/ (l \in Loadable /\ told'[l] = Shown(l, LoadValue(l)))
        BY <1>2, <2>1, <2>2 DEF ConfigGet, TypeOK
    <2> QED
        BY <1>2, <2>1, <2>3, ReadRestores DEF ConfigGet
<1>3. ASSUME NEW k \in Shared, NEW v \in Value(k), ConfigSet(k, v) PROVE RestoreInv'
    <2>1. k \in Loadable /\ k \in Settings /\ {} \in SUBSET Loadable
        BY Keys DEF Loadable
    <2>2. LocksFree /\ UNCHANGED clearing
        BY <1>3 DEF ConfigSet
    <2>3. CASE SettingWrite({}, k, v) /\ told' = [told EXCEPT ![k] = Shown(k, v)]
        <3>1. told'[k] = Shown(k, v) /\ \A l \in Settings \ {k} : told'[l] = told[l]
            BY <2>1, <2>3 DEF TypeOK
        <3> QED
            BY <2>1, <2>2, <2>3, <3>1, WriteRestores
    <2>4. CASE WriteFails({}, k, v) /\ UNCHANGED told
        BY <2>1, <2>2, <2>4, ReadRestores DEF WriteFails
    <2> QED
        BY <1>3, <2>3, <2>4 DEF ConfigSet
<1>4. ASSUME NEW k \in Credentials, EnsureLoadedFails(k) PROVE RestoreInv'
    <2>1. {l \in Missing : LoadOrder[l] < LoadOrder[k]} \in SUBSET Loadable
        BY DEF Missing, Loadable
    <2> QED
        BY <1>4, <2>1, ReadRestores DEF EnsureLoadedFails
<1>5. Missing \in SUBSET Loadable /\ Credentials \subseteq Loadable /\ Credentials \subseteq Settings
    BY DEF Missing, Loadable, Credentials
<1>6. ASSUME NEW k \in Credentials, CredentialGet(k) PROVE RestoreInv'
    <2>1. LocksFree /\ UNCHANGED clearing /\ SettingsRead(Missing)
        BY <1>6 DEF CredentialGet
    <2>2. Ensured[k] = Shown(k, LoadValue(k))
        BY <2>1, EnsuredShows DEF SettingsRead
    <2>3. \A l \in Settings :
            told'[l] = told[l] \/ (l \in Loadable /\ told'[l] = Shown(l, LoadValue(l)))
        BY <1>5, <1>6, <2>2 DEF CredentialGet, TypeOK
    <2> QED
        BY <1>5, <2>1, <2>3, ReadRestores
<1>7. ASSUME NEW k \in Credentials, NEW v \in Value(k), CredentialSet(k, v) PROVE RestoreInv'
    <2>1. LocksFree /\ UNCHANGED clearing
        BY <1>7 DEF CredentialSet
    <2>2. CASE Persist(k, v) /\ told' = [told EXCEPT ![k] = Shown(k, v)]
        <3>1. told'[k] = Shown(k, v) /\ \A l \in Settings \ {k} : told'[l] = told[l]
            BY <1>5, <2>2 DEF TypeOK
        <3> QED
            BY <1>5, <2>1, <2>2, <3>1, WriteRestores DEF Persist
    <2>3. CASE PersistFails(k, v) /\ UNCHANGED told
        BY <1>5, <2>1, <2>3, ReadRestores DEF PersistFails, WriteFails
    <2> QED
        BY <1>7, <2>2, <2>3 DEF CredentialSet
<1>8. CASE CredentialBusy
    BY <1>5, <1>8, ReadRestores DEF CredentialBusy
<1>9. ASSUME "join_policy" \in Settings, NEW F \in SUBSET Parts,
             NEW p \in [F -> 0..MaxValue], UpdatePolicy(F, p)
      PROVE  RestoreInv'
    <2> DEFINE k == "join_policy"
               policy == [f \in Parts |-> IF f \in F THEN p[f] ELSE Ensured[k][f]]
    <2>1. LocksFree /\ UNCHANGED clearing
        BY <1>9 DEF UpdatePolicy
    <2>2. k \in Credentials
        BY <1>9 DEF Credentials, LoadOrder
    <2>3. CASE Persist(k, policy) /\ told' = ToldPolicy(F, p, policy)
        <3>1. \A l \in Missing : CanLoad(l)
            BY <2>3 DEF Persist, SettingWrite
        <3>2. policy \in Value(k)
            BY <1>9, <3>1, PolicyType
        <3>3. told[k] # Unknown => told[k] = Ensured[k]
            BY <1>5, <2>1, <2>2, <3>1, EnsuredShows DEF RestoreInv, RebootRestores
        <3>4. told'[k] = policy /\ \A l \in Settings \ {k} : told'[l] = told[l]
            BY <1>9, <2>3, <3>3 DEF ToldPolicy, TypeOK
        <3>5. Shown(k, policy) = policy
            BY <3>2, MarkersAssumption, <1>9 DEF Shown
        <3> QED
            BY <1>5, <2>1, <2>2, <2>3, <3>2, <3>4, <3>5, WriteRestores DEF Persist
    <2>4. CASE PersistFails(k, policy) /\ UNCHANGED told
        BY <1>5, <2>1, <2>4, ReadRestores DEF PersistFails, WriteFails
    <2> QED
        BY <1>9, <2>3, <2>4 DEF UpdatePolicy
<1>10. CASE (\E active \in BOOLEAN : SetJoinActive(active)) \/ UNCHANGED vars
    <2>1. UNCHANGED <<flash, settings, clearing, told>>
        BY <1>10 DEF SetJoinActive, vars
    <2>2. \A k : LoadValue(k)' = LoadValue(k)
        BY <2>1 DEF LoadValue, MigratePolicy, MigrateRegion, ReadLegacy, Default
    <2> QED
        BY <2>1, <2>2 DEF RestoreInv, RebootRestores, LocksFree, Shown
<1>11. CASE ClearStarts
    BY <1>11, Keys DEF ClearStarts, RestoreInv, RebootRestores, LocksFree, Idle, Loadable
<1>12. CASE ClearDeletes
    <2>1. ~LocksFree
        BY <1>12 DEF ClearDeletes, LocksFree, Idle
    <2>2. clearing'.ok /\ clearing'.at # 0
        BY <1>12 DEF ClearDeletes, RestoreInv, TypeOK
    <2>3. ~LocksFree'
        BY <2>2 DEF LocksFree, Idle
    <2> QED
        BY <1>12, <2>1, <2>2, <2>3 DEF ClearDeletes, RestoreInv, RebootRestores
<1>13. CASE ClearEnds
    <2>1. ~LocksFree
        BY <1>13, IdleType DEF ClearEnds, LocksFree, Idle
    <2> QED
        BY <1>13, <2>1, Keys
        DEF ClearEnds, RestoreInv, RebootRestores, LocksFree, Idle, Loadable
<1>14. CASE Reboot
    <2>1. \A k : LoadValue(k)' = LoadValue(k)
        BY <1>14 DEF Reboot, LoadValue, MigratePolicy, MigrateRegion, ReadLegacy, Default
    <2> QED
        BY <1>14, <2>1, Keys
        DEF Reboot, RestoreInv, RebootRestores, LocksFree, Shown, Idle, Loadable
<1> QED
    BY <1>1, <1>2, <1>3, <1>4, <1>6, <1>7, <1>8, <1>9, <1>10, <1>11, <1>12, <1>13, <1>14
    DEF Next

\* A reboot restores what a getter last returned or a setter last accepted,
\* for every manifest and through failed reads, failed saves, migrations,
\* resets and power cuts at any point, as long as no delete of a reset fails.
THEOREM RebootIsSafe ==
    ASSUME "delete" \notin Faults
    PROVE  Spec => []RebootRestores
<1>1. Init => RestoreInv
    BY Keys DEF Init, RestoreInv, RebootRestores, LocksFree, Idle, Loadable
<1>2. TypeOK /\ StoreMatchesSchema /\ RestoreInv /\ [Next]_vars => RestoreInv'
    BY StepRestores
<1>3. RestoreInv => RebootRestores
    BY DEF RestoreInv
<1> QED
    BY <1>1, <1>2, <1>3, SettingsTypeCorrect, CachesAgree, PTL DEF Spec

-----------------------------------------------------------------------------
(***************************************************************************)
(* Resets and joins.                                                       *)
(***************************************************************************)

\* A reset excludes a join; a reset without an error has deleted every key before its position.
ResetInv ==
    /\ ~LocksFree => ~join_active
    /\ clearing.ok => \A i \in 1..(clearing.at - 1) : flash[Victim(i).ns][Victim(i).key] = Absent

\* Every key of the manifest has its two positions.
LEMMA Victims ==
    /\ \A i \in 1..Last : Victim(i).ns \in {"lorawan", "rzi"} /\ Victim(i).key \in Settings
    /\ \A ns \in {"lorawan", "rzi"}, k \in Settings :
            \E i \in 1..Last : Victim(i).ns = ns /\ Victim(i).key = k
<1>1. Len(Manifest) \in Nat /\ DOMAIN Manifest = 1..Len(Manifest)
    BY SettingsAssumption
<1>2. \A i \in 1..Last : Victim(i).ns \in {"lorawan", "rzi"} /\ Victim(i).key \in Settings
    <2> SUFFICES ASSUME NEW i \in 1..Last
                 PROVE  Victim(i).ns \in {"lorawan", "rzi"} /\ Victim(i).key \in Settings
        OBVIOUS
    <2>1. CASE i <= Len(Manifest)
        <3>1. i \in 1..Len(Manifest)
            BY <1>1, <2>1 DEF Last
        <3> QED
            BY <1>1, <2>1, <3>1 DEF Victim, Settings
    <2>2. CASE ~(i <= Len(Manifest))
        <3>1. i - Len(Manifest) \in 1..Len(Manifest)
            BY <1>1, <2>2 DEF Last
        <3> QED
            BY <1>1, <2>2, <3>1 DEF Victim, Settings
    <2> QED
        BY <2>1, <2>2
<1>3. ASSUME NEW k \in Settings PROVE \E i \in 1..Last : Victim(i).ns = "lorawan" /\ Victim(i).key = k
    <2>1. PICK i \in 1..Len(Manifest) : Manifest[i] = k
        BY <1>1 DEF Settings
    <2>2. i \in 1..Last /\ Victim(i) = [ns |-> "lorawan", key |-> k]
        BY <1>1, <2>1 DEF Victim, Last
    <2> QED
        BY <2>2
<1>4. ASSUME NEW k \in Settings PROVE \E i \in 1..Last : Victim(i).ns = "rzi" /\ Victim(i).key = k
    <2>1. PICK i \in 1..Len(Manifest) : Manifest[i] = k
        BY <1>1 DEF Settings
    <2>2. i + Len(Manifest) \in 1..Last /\ Victim(i + Len(Manifest)) = [ns |-> "rzi", key |-> k]
        BY <1>1, <2>1 DEF Victim, Last
    <2> QED
        BY <2>2
<1> QED
    BY <1>2, <1>3, <1>4

\* The steps of Next that are not part of a reset run with the locks free, and leave the reset alone.
LEMMA CallStep ==
    ASSUME [Next]_vars
    PROVE  \/ ClearStarts \/ ClearDeletes \/ ClearEnds \/ Reboot \/ UNCHANGED vars
           \/ LocksFree /\ UNCHANGED clearing
<1>1. ASSUME NEW k, NEW v, ConfigSet(k, v) \/ CredentialSet(k, v) PROVE LocksFree /\ UNCHANGED clearing
    BY <1>1 DEF ConfigSet, CredentialSet
<1>2. ASSUME NEW k, ConfigGet(k) \/ EnsureLoadedFails(k) \/ CredentialGet(k) \/ CredentialBusy \/ SetJoinActive(k)
      PROVE  LocksFree /\ UNCHANGED clearing
    BY <1>2 DEF ConfigGet, EnsureLoadedFails, CredentialGet, CredentialBusy, SetJoinActive
<1>3. ASSUME NEW F, NEW q, UpdatePolicy(F, q) PROVE LocksFree /\ UNCHANGED clearing
    BY <1>3 DEF UpdatePolicy
<1>4. ASSUME NEW ns, NEW k, NEW v, OldFirmware(ns, k, v) PROVE LocksFree /\ UNCHANGED clearing
    BY <1>4 DEF OldFirmware
<1> QED
    BY <1>1, <1>2, <1>3, <1>4 DEF Next

LEMMA StepResets ==
    ASSUME TypeOK, ResetInv, [Next]_vars
    PROVE  ResetInv'
<1>0. Last \in Nat /\ clearing \in [at : 0..(Last + 1), ok : BOOLEAN]
    BY IdleType DEF TypeOK
<1>1. CASE LocksFree /\ UNCHANGED clearing
    <2>1. clearing'.at = 0 /\ LocksFree'
        BY <1>1 DEF LocksFree, Idle
    <2>2. 1..(clearing'.at - 1) = {}
        BY <2>1
    <2> QED
        BY <2>1, <2>2 DEF ResetInv
<1>2. CASE ClearStarts
    <2>1. ~join_active' /\ clearing'.at = 1
        BY <1>2 DEF ClearStarts
    <2>2. 1..(clearing'.at - 1) = {}
        BY <2>1
    <2> QED
        BY <2>1, <2>2 DEF ResetInv
<1>3. CASE ClearDeletes
    <2>1. ~LocksFree /\ ~join_active' /\ clearing.at \in 1..Last
        BY <1>3 DEF ClearDeletes, LocksFree, Idle, ResetInv
    <2>2. ASSUME clearing'.ok, NEW i \in 1..(clearing'.at - 1)
          PROVE  flash'[Victim(i).ns][Victim(i).key] = Absent
        <3> DEFINE at == clearing.at
                   v == Victim(at)
        <3>1. /\ flash' = [flash EXCEPT ![v.ns][v.key] = Absent]
              /\ clearing' = [clearing EXCEPT !.at = @ + 1]
            BY <1>3, <2>2 DEF ClearDeletes
        <3>2. clearing.ok /\ i \in 1..at /\ i \in 1..Last
            BY <1>0, <2>1, <2>2, <3>1
        <3>3. /\ v.ns \in {"lorawan", "rzi"} /\ v.key \in Settings
              /\ Victim(i).ns \in {"lorawan", "rzi"} /\ Victim(i).key \in Settings
            BY <2>1, <3>2, Victims
        <3>4. i # at => flash[Victim(i).ns][Victim(i).key] = Absent
            BY <1>0, <2>1, <3>2 DEF ResetInv
        <3> HIDE DEF v
        <3>5. flash'[v.ns][v.key] = Absent
            BY <3>1, <3>3 DEF TypeOK
        <3>6. ASSUME NEW n \in {"lorawan", "rzi"}, NEW k \in Settings, flash[n][k] = Absent
              PROVE  flash'[n][k] = Absent
            BY <3>1, <3>3, <3>6 DEF TypeOK
        <3> QED
            BY <3>3, <3>4, <3>5, <3>6 DEF v
    <2> QED
        BY <2>1, <2>2 DEF ResetInv
<1>4. CASE ClearEnds \/ Reboot
    <2>1. clearing' = Idle
        BY <1>4 DEF ClearEnds, Reboot
    <2>2. LocksFree' /\ 1..(clearing'.at - 1) = {}
        BY <2>1 DEF LocksFree, Idle
    <2> QED
        BY <2>2 DEF ResetInv
<1>5. CASE UNCHANGED vars
    BY <1>5 DEF vars, ResetInv, LocksFree
<1> QED
    BY <1>1, <1>2, <1>3, <1>4, <1>5, CallStep

LEMMA ResetAlways == Spec => []ResetInv
<1>1. Init => ResetInv
    <2> SUFFICES ASSUME Init PROVE ResetInv
        OBVIOUS
    <2>1. LocksFree /\ clearing.at = 0
        BY DEF Init, LocksFree, Idle
    <2>2. 1..(clearing.at - 1) = {}
        BY <2>1
    <2> QED
        BY <2>1, <2>2 DEF ResetInv
<1>2. TypeOK /\ ResetInv /\ [Next]_vars => ResetInv'
    BY StepResets
<1> QED
    BY <1>1, <1>2, SettingsTypeCorrect, PTL DEF Spec

\* For every manifest: a factory reset (rzi_lorawan_settings_clear()) that ends without an error
\* has left no key in either namespace, whichever calls came before and however often a reset
\* was cut short by a power loss.
THEOREM ResetsAreComplete == Spec => ResetIsComplete
<1>1. ASSUME ResetInv, TypeOK, clearing.at = Last + 1, clearing.ok, NEW ns \in {"lorawan", "rzi"}, NEW k \in Settings
      PROVE  flash[ns][k] = Absent
    <2>1. PICK i \in 1..Last : Victim(i).ns = ns /\ Victim(i).key = k
        BY Victims
    <2>2. i \in 1..(clearing.at - 1)
        BY <1>1, <2>1, IdleType
    <2> QED
        BY <1>1, <2>1, <2>2 DEF ResetInv
<1>2. ResetInv /\ TypeOK /\ [Next]_vars =>
        [(clearing.at = Last + 1 /\ settings # settings' /\ clearing.ok)
            => \A ns \in {"lorawan", "rzi"}, k \in Settings : flash[ns][k] = Absent]_vars
    BY <1>1
<1> QED
    BY <1>2, ResetAlways, SettingsTypeCorrect, PTL DEF Spec, ResetIsComplete

\* A step of a running join leaves its credentials alone.
LEMMA StepKeepsCredentials ==
    ASSUME TypeOK, ResetInv, [Next]_vars, join_active, join_active'
    PROVE  \A k \in Credentials \ {"join_policy"} :
                /\ credentials # Unloaded => credentials'[k] = credentials[k]
                /\ LoadValue(k)' = LoadValue(k)
<1> DEFINE Kept == \A k \in Credentials \ {"join_policy"} :
                /\ credentials # Unloaded => credentials'[k] = credentials[k]
                /\ LoadValue(k)' = LoadValue(k)
<1> SUFFICES Kept
    OBVIOUS
<1>0. /\ LocksFree /\ Missing \in SUBSET Loadable /\ Credentials \subseteq Loadable /\ Credentials \subseteq Settings
      /\ Shared \subseteq Loadable /\ Shared \cap Credentials = {} /\ {} \in SUBSET Loadable
      /\ \A k \in Shared : {k} \in SUBSET Loadable
    BY Keys DEF ResetInv, Missing, Loadable, Credentials
<1>1. ASSUME NEW S \in SUBSET Loadable, SettingsRead(S), credentials' \in {credentials, Ensured} PROVE Kept
    BY <1>0, <1>1, ReadKeepsLoads DEF Ensured
<1>2. ASSUME NEW k \in Shared, NEW v, SettingWrite({}, k, v), UNCHANGED credentials PROVE Kept
    BY <1>0, <1>2, WriteKeepsLoads
<1>3. ASSUME NEW v, Persist("join_policy", v), "join_policy" \in Settings PROVE Kept
    <2>1. "join_policy" \in Loadable /\ SettingWrite(Missing, "join_policy", v)
        BY <1>3 DEF Persist, Loadable, Credentials, LoadOrder
    <2>2. \A l \in Credentials \ {"join_policy"} : LoadValue(l)' = LoadValue(l)
        BY <1>0, <2>1, WriteKeepsLoads
    <2>3. ASSUME credentials # Unloaded, NEW l \in Credentials \ {"join_policy"} PROVE credentials'[l] = credentials[l]
        BY <1>3, <2>3 DEF Persist, Ensured, TypeOK
    <2> QED
        BY <2>2, <2>3
<1>4. ASSUME UNCHANGED <<flash, credentials>> PROVE Kept
    <2>1. \A k : LoadValue(k)' = LoadValue(k)
        BY <1>4 DEF LoadValue, MigratePolicy, MigrateRegion, ReadLegacy, Default
    <2> QED
        BY <1>4, <2>1
<1> HIDE DEF Kept
<1>5. ASSUME NEW k \in Shared, ConfigGet(k) PROVE Kept
    BY <1>0, <1>1, <1>5 DEF ConfigGet
<1>6. ASSUME NEW k \in Shared, NEW v, ConfigSet(k, v) PROVE Kept
    BY <1>0, <1>1, <1>2, <1>6 DEF ConfigSet, WriteFails
<1>7. ASSUME NEW k \in Credentials, EnsureLoadedFails(k) PROVE Kept
    <2>1. {l \in Missing : LoadOrder[l] < LoadOrder[k]} \in SUBSET Loadable
        BY <1>0
    <2> QED
        BY <1>1, <1>7, <2>1 DEF EnsureLoadedFails
<1>8. ASSUME NEW k \in Credentials, CredentialGet(k) \/ CredentialBusy PROVE Kept
    BY <1>0, <1>1, <1>8 DEF CredentialGet, CredentialBusy
<1>9. CASE CredentialBusy
    BY <1>0, <1>1, <1>9 DEF CredentialBusy
<1>10. ASSUME "join_policy" \in Settings, NEW F, NEW q, UpdatePolicy(F, q) PROVE Kept
    BY <1>0, <1>1, <1>3, <1>10 DEF UpdatePolicy, PersistFails, WriteFails
<1>11. CASE (\E active \in BOOLEAN : SetJoinActive(active)) \/ UNCHANGED vars
    BY <1>4, <1>11 DEF SetJoinActive, vars
<1>12. ASSUME NEW ns, NEW k, NEW v, OldFirmware(ns, k, v) \/ CredentialSet(k, v) PROVE FALSE
    BY <1>12 DEF OldFirmware, CredentialSet
<1>13. ~(ClearStarts \/ ClearDeletes \/ Reboot \/ ClearEnds)
    BY <1>0, IdleType DEF ClearStarts, ClearDeletes, Reboot, ClearEnds, LocksFree, Idle
<1> QED
    BY <1>5, <1>6, <1>7, <1>8, <1>9, <1>10, <1>11, <1>12, <1>13 DEF Next

\* For every manifest and whichever storage calls fail: while a join is active no call, and no
\* reset, changes a credential the join was built from, neither in the store nor in what a
\* reboot would load.
THEOREM JoinsKeepCredentials == Spec => JoinKeepsCredentials
<1>1. TypeOK /\ ResetInv /\ [Next]_vars =>
        [(join_active /\ join_active') =>
            \A k \in Credentials \ {"join_policy"} :
                /\ credentials # Unloaded => credentials'[k] = credentials[k]
                /\ LoadValue(k)' = LoadValue(k)]_vars
    BY StepKeepsCredentials
<1> QED
    BY <1>1, ResetAlways, SettingsTypeCorrect, PTL DEF Spec, JoinKeepsCredentials
=============================================================================
