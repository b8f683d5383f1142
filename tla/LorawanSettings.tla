-------------------------- MODULE LorawanSettings --------------------------
(***************************************************************************)
(* The persistent settings of the LoRaWAN service: the schema and its      *)
(* cache (src/src/lorawan/lorawan_settings.c), the credential store above   *)
(* it (src/src/lorawan/api/lorawan_credentials.c), the shared               *)
(* configuration (src/src/lorawan/api/lorawan_config.c) and the storage     *)
(* service below (src/src/storage/storage_settings.c).                      *)
(*                                                                         *)
(* A setting is read and written under schema_lock, so one read or write   *)
(* is one step: its only write to flash is its last effect before the      *)
(* cache, and a crash before or after it is a crash between steps.  A      *)
(* reset deletes the keys one by one, each delete a step of its own.       *)
(* A credential call holds credential_lock throughout; the settings it     *)
(* loads belong to that lock alone, so it too is one step, with the key    *)
(* whose load fails, if any, chosen freely.                                *)
(*                                                                         *)
(* Values are abstract: 0 is a key's default (all bytes zero, the default  *)
(* interval, the empty channel mask), the other numbers are other values.  *)
(* A record of the join policy is the function of its three fields.        *)
(***************************************************************************)
EXTENDS Naturals, Sequences

CONSTANTS
    Manifest,       \* the keys of settings[], in its order
    MaxValue,       \* settings take the values 0..MaxValue
    Regions,        \* the regions a caller sets
    LegacyBands,    \* the rzi/band values older firmware may have left
    Faults,         \* which storage calls may fail: "read", "save", "delete"
    Absent,         \* no such key, or a setting that is not present
    Corrupt,        \* a stored value that is refused: invalid, or a bad record
    Unloaded,       \* a cache that has not been loaded
    Unknown         \* nothing was promised to a caller

Settings == {Manifest[i] : i \in DOMAIN Manifest}

\* The old keys of the join policy's fields, which name the fields here.
Parts == {"autojoin", "join_interval", "join_attempts"}

\* The keys ensure_loaded_locked reads, numbered in the order it reads them.
LoadOrder ==
    [deveui |-> 1, joineui |-> 2, appkey |-> 3, genappkey |-> 4, devaddr |-> 5,
     nwkskey |-> 6, appskey |-> 7, njm |-> 8, join_policy |-> 9, chmask |-> 10]
Credentials == Settings \cap DOMAIN LoadOrder

\* The settings that rzi_lorawan_config_* and get/set_confirmed... reach.
Shared == Settings \cap {"region", "cfm", "rety", "netid"}

\* The RUI3 numbering of rzi/band, from 1.
Bands == << "CN_470", "RU_864", "IN_865", "EU_868", "US_915", "AU_915",
            "KR_920", "AS_923_1", "AS_923_2", "AS_923_3", "AS_923_4" >>
AllRegions == Regions \cup {Bands[b] : b \in DOMAIN Bands}

Policies == [Parts -> 0..MaxValue]

Default(k) == IF k = "region" THEN "EU_868"
              ELSE IF k = "join_policy" THEN [p \in Parts |-> 0]
              ELSE 0

\* What valid_value accepts for a key.
Value(k) == IF k = "region" THEN AllRegions
            ELSE IF k = "join_policy" THEN Policies
            ELSE 0..MaxValue

ASSUME SettingsAssumption ==
    /\ Manifest \in Seq(STRING)
    /\ \A i, j \in DOMAIN Manifest : Manifest[i] = Manifest[j] => i = j
    /\ "join_policy" \in Settings => Parts \subseteq Settings
    /\ "region" \in Settings => "band" \in Settings
    /\ MaxValue \in Nat /\ LegacyBands \subseteq Nat
    /\ {"EU_868"} \subseteq Regions /\ Regions \subseteq STRING
    /\ Faults \subseteq {"read", "save", "delete"}

ASSUME MarkersAssumption ==
    /\ \A k \in Settings : {Absent, Corrupt, Unloaded, Unknown} \cap Value(k) = {}
    /\ {Absent, Corrupt, Unloaded, Unknown} \cap Nat = {}
    /\ Absent \notin {Corrupt, Unloaded, Unknown}
    /\ Corrupt \notin {Unloaded, Unknown} /\ Unloaded # Unknown

VARIABLES
    flash,          \* what the settings backend holds, by namespace and key
    settings,       \* the cache of the schema: Unloaded, Absent or the value
    credentials,    \* the credential store: Unloaded or each key's value
    join_active,    \* credentials.join_active
    clearing,       \* the reset in progress: its position and first error
    told,           \* what a caller was last told the setting is
    superseded,     \* settings a setter has changed since the last full reset
    wrote           \* the setter that has just returned 0, with its value

vars == <<flash, settings, credentials, join_active, clearing, told, superseded, wrote>>

Idle == [at |-> 0, ok |-> TRUE]

-----------------------------------------------------------------------------
(***************************************************************************)
(* Loading a setting.                                                      *)
(***************************************************************************)

\* read_legacy: the service's own namespace first, then the AT one.
ReadLegacy(k) == IF flash["lorawan"][k] # Absent THEN flash["lorawan"][k]
                 ELSE flash["rzi"][k]

\* migrate_region
MigrateRegion ==
    LET band == flash["rzi"]["band"] IN
    IF band \in {Absent, Corrupt} THEN band
    ELSE IF band \in DOMAIN Bands THEN Bands[band]
    ELSE Corrupt

\* The join policy put together from the old keys; nothing if there is none.
MigratePolicy ==
    IF \E p \in Parts : ReadLegacy(p) = Corrupt THEN Corrupt
    ELSE IF \A p \in Parts : ReadLegacy(p) = Absent THEN Absent
    ELSE [p \in Parts |-> IF ReadLegacy(p) = Absent THEN Default(p) ELSE ReadLegacy(p)]

\* load_value, before the migrated value is saved: the value of the setting,
\* Absent when there is none and Corrupt when what is stored is refused.
LoadValue(k) ==
    IF k = "join_policy"
    THEN IF flash["lorawan"][k] # Absent THEN flash["lorawan"][k] ELSE MigratePolicy
    ELSE IF k = "region" /\ ReadLegacy(k) = Absent THEN MigrateRegion
    ELSE ReadLegacy(k)

\* What a read of k returns when no storage call fails.
Reads(k) == IF settings[k] # Unloaded THEN settings[k] ELSE LoadValue(k)

Migrates(k) == settings[k] = Unloaded /\ flash["lorawan"][k] = Absent
               /\ LoadValue(k) # Absent

CanLoad(k) == Reads(k) # Corrupt
CanFail(k) == /\ settings[k] = Unloaded
              /\ \/ LoadValue(k) = Corrupt
                 \/ "read" \in Faults
                 \/ "save" \in Faults /\ Migrates(k)

\* The flash and the schema cache after the keys in S were read: a value
\* found under an old key is saved under its new one before it is cached.
FlashAfter(S) ==
    [flash EXCEPT !["lorawan"] =
        [k \in Settings |-> IF k \in S /\ Migrates(k) THEN LoadValue(k) ELSE @[k]]]
CacheAfter(S) == [k \in Settings |-> IF k \in S THEN Reads(k) ELSE settings[k]]

\* The value the API shows for a setting: the default of the shared settings
\* and of the policies when there is none; an empty channel mask is no mask.
Defaulted == {"region", "cfm", "rety", "njm", "join_policy"}
Shown(k, v) == IF k = "chmask" /\ v = 0 THEN Absent
               ELSE IF k \in Defaulted /\ v = Absent THEN Default(k)
               ELSE v

-----------------------------------------------------------------------------
(***************************************************************************)
(* setting_read and setting_write.                                         *)
(***************************************************************************)

LocksFree == clearing = Idle

\* setting_read of the keys in S, all of which succeed.
SettingsRead(S) ==
    /\ \A k \in S : CanLoad(k)
    /\ flash' = FlashAfter(S)
    /\ settings' = CacheAfter(S)
    /\ UNCHANGED superseded

\* setting_write, after the keys in S were read, returning 0.  A value equal
\* to the one cached is not written.
SettingWrite(S, k, v) ==
    /\ \A l \in S : CanLoad(l)
    /\ LET cached == CacheAfter(S)
           skip == cached[k] = v
       IN flash' = [FlashAfter(S) EXCEPT !["lorawan"][k] = IF skip THEN @ ELSE v]
    /\ settings' = [CacheAfter(S) EXCEPT ![k] = v]
    /\ superseded' = IF LoadValue(k) = v THEN superseded ELSE superseded \cup {k}
    /\ wrote' = [key |-> k, val |-> v]

\* setting_write when save_value fails: nothing changes but what was read.
WriteFails(S, k, v) ==
    /\ "save" \in Faults
    /\ SettingsRead(S)
    /\ CacheAfter(S)[k] # v
    /\ wrote' = Unknown

-----------------------------------------------------------------------------
(***************************************************************************)
(* The shared configuration: lorawan_config.c.                             *)
(***************************************************************************)

\* rzi_lorawan_config_get_region, get_confirmed, get_retries, get_net_id
ConfigGet(k) ==
    /\ LocksFree
    /\ SettingsRead({k})
    /\ told' = [told EXCEPT ![k] = Shown(k, Reads(k))]
    /\ wrote' = Unknown
    /\ UNCHANGED <<credentials, join_active, clearing>>

\* rzi_lorawan_config_set_region, set_confirmed, set_retries, set_net_id
ConfigSet(k, v) ==
    /\ LocksFree
    /\ \/ /\ SettingWrite({}, k, v)
          /\ told' = [told EXCEPT ![k] = Shown(k, v)]
       \/ WriteFails({}, k, v) /\ UNCHANGED told
    /\ UNCHANGED <<credentials, join_active, clearing>>

-----------------------------------------------------------------------------
(***************************************************************************)
(* The credential store: lorawan_credentials.c.                            *)
(***************************************************************************)

\* The keys ensure_loaded_locked has yet to read.
Missing == IF credentials = Unloaded THEN Credentials ELSE {}

\* The credential store after ensure_loaded_locked.
Ensured == IF credentials # Unloaded THEN credentials
           ELSE [k \in Credentials |-> Shown(k, Reads(k))]

\* ensure_loaded_locked when reading key k fails: the keys before it stay in
\* the schema's cache, the credential store stays as it was.
EnsureLoadedFails(k) ==
    /\ LocksFree
    /\ k \in Missing /\ CanFail(k)
    /\ SettingsRead({l \in Missing : LoadOrder[l] < LoadOrder[k]})
    /\ wrote' = Unknown
    /\ UNCHANGED <<credentials, join_active, clearing, told>>

\* The getters, and rzi_lorawan_credentials_build_config.
CredentialGet(k) ==
    /\ LocksFree
    /\ SettingsRead(Missing)
    /\ credentials' = Ensured
    /\ told' = [told EXCEPT ![k] = Ensured[k]]
    /\ wrote' = Unknown
    /\ UNCHANGED <<join_active, clearing>>

\* persist(key), and the new value in the store.
Persist(k, v) ==
    /\ SettingWrite(Missing, k, v)
    /\ credentials' = [Ensured EXCEPT ![k] = Shown(k, v)]

\* Mutant: the store takes the new value before it is saved.
PersistFailsLate(k, v) ==
    /\ WriteFails(Missing, k, v)
    /\ credentials' = [Ensured EXCEPT ![k] = Shown(k, v)]

\* persist(key) when the save fails: the store keeps the old value.
PersistFails(k, v) ==
    /\ WriteFails(Missing, k, v)
    /\ credentials' = Ensured

\* Mutant: the setters do not ask whether a join is active.
CredentialSetAnyTime(k, v) ==
    /\ LocksFree
    /\ \/ /\ Persist(k, v)
          /\ told' = [told EXCEPT ![k] = Shown(k, v)]
       \/ PersistFails(k, v) /\ UNCHANGED told
    /\ UNCHANGED <<join_active, clearing>>

\* set_bytes, set_dev_addr, set_activation, set_channel_mask (0 is NULL)
CredentialSet(k, v) ==
    /\ LocksFree /\ ~join_active
    /\ \/ /\ Persist(k, v)
          /\ told' = [told EXCEPT ![k] = Shown(k, v)]
       \/ PersistFails(k, v) /\ UNCHANGED told
    /\ UNCHANGED <<join_active, clearing>>

\* The same setters while a join is active: BUSY, after ensure_loaded_locked.
CredentialBusy ==
    /\ LocksFree /\ join_active
    /\ SettingsRead(Missing)
    /\ credentials' = Ensured
    /\ wrote' = Unknown
    /\ UNCHANGED <<join_active, clearing, told>>

\* What callers were told of the policy, once the fields of F became p's.
ToldPolicy(F, p, policy) ==
    [told EXCEPT !["join_policy"] =
        IF @ = Unknown THEN policy ELSE [f \in Parts |-> IF f \in F THEN p[f] ELSE @[f]]]

\* Mutant: the kept fields are taken before the store is loaded.
UpdatePolicyUnloaded(F, p) ==
    LET k == "join_policy"
        kept == IF credentials = Unloaded THEN Default(k) ELSE credentials[k]
        policy == [f \in Parts |-> IF f \in F THEN p[f] ELSE kept[f]]
    IN /\ LocksFree
       /\ Persist(k, policy)
       /\ told' = ToldPolicy(F, p, policy)
       /\ UNCHANGED <<join_active, clearing>>

\* rzi_lorawan_credentials_update_policy: the fields of F are given by p, the
\* others are kept.
UpdatePolicy(F, p) ==
    LET k == "join_policy"
        policy == [f \in Parts |-> IF f \in F THEN p[f] ELSE Ensured[k][f]]
    IN /\ LocksFree
       /\ \/ Persist(k, policy) /\ told' = ToldPolicy(F, p, policy)
          \/ PersistFails(k, policy) /\ UNCHANGED told
       /\ UNCHANGED <<join_active, clearing>>

\* rzi_lorawan_credentials_set_join_active
SetJoinActive(active) ==
    /\ LocksFree
    /\ join_active' = active
    /\ wrote' = Unknown
    /\ UNCHANGED <<flash, settings, credentials, clearing, told, superseded>>

-----------------------------------------------------------------------------
(***************************************************************************)
(* The reset: rzi_lorawan_credentials_clear_settings with                  *)
(* rzi_lorawan_settings_clear, both locks held from the first delete on.   *)
(***************************************************************************)

\* A reset asked for while no join is active; from here nothing is promised.
ClearStarts ==
    /\ LocksFree /\ ~join_active
    /\ clearing' = [at |-> 1, ok |-> TRUE]
    /\ told' = [k \in Settings |-> Unknown]
    /\ wrote' = Unknown
    /\ UNCHANGED <<flash, settings, credentials, join_active, superseded>>

Last == 2 * Len(Manifest)
Victim(i) == IF i <= Len(Manifest) THEN [ns |-> "lorawan", key |-> Manifest[i]]
             ELSE [ns |-> "rzi", key |-> Manifest[i - Len(Manifest)]]

\* Mutant: the result of the last delete replaces an earlier error.
ClearDeletesLastError ==
    /\ clearing.at \in 1..Last
    /\ LET v == Victim(clearing.at) IN
       \/ /\ flash' = [flash EXCEPT ![v.ns][v.key] = Absent]
          /\ clearing' = [at |-> clearing.at + 1, ok |-> TRUE]
       \/ /\ "delete" \in Faults
          /\ clearing' = [at |-> clearing.at + 1, ok |-> FALSE]
          /\ UNCHANGED flash
    /\ UNCHANGED <<settings, credentials, join_active, told, superseded, wrote>>

\* One rzi_storage_delete, which may fail; the loop goes on either way.
ClearDeletes ==
    /\ clearing.at \in 1..Last
    /\ LET v == Victim(clearing.at) IN
       \/ /\ flash' = [flash EXCEPT ![v.ns][v.key] = Absent]
          /\ clearing' = [clearing EXCEPT !.at = @ + 1]
       \/ /\ "delete" \in Faults
          /\ clearing' = [at |-> clearing.at + 1, ok |-> FALSE]
          /\ UNCHANGED flash
    /\ UNCHANGED <<settings, credentials, join_active, told, superseded, wrote>>

\* The end of the reset: the caches are dropped only when all was deleted.
ClearEnds ==
    /\ clearing.at = Last + 1
    /\ clearing' = Idle
    /\ IF clearing.ok
       THEN /\ settings' = [k \in Settings |-> Unloaded]
            /\ credentials' = Unloaded
            /\ join_active' = FALSE
            /\ superseded' = {}
       ELSE UNCHANGED <<settings, credentials, join_active, superseded>>
    /\ UNCHANGED <<flash, told, wrote>>

\* A reboot, or a power cut at any point: the caches are gone.
Reboot ==
    /\ settings' = [k \in Settings |-> Unloaded]
    /\ credentials' = Unloaded
    /\ join_active' = FALSE
    /\ clearing' = Idle
    /\ wrote' = Unknown
    /\ UNCHANGED <<flash, told, superseded>>

-----------------------------------------------------------------------------

Held(ns, k) == IF k = "band" THEN IF ns = "rzi" THEN LegacyBands ELSE {}
               ELSE Value(k)

\* Older firmware, before this one first runs: the keys of the AT interface,
\* fields of the policy in either namespace, values this firmware refuses.
OldFirmware(ns, k, v) ==
    /\ settings = [l \in Settings |-> Unloaded] /\ LocksFree /\ ~join_active
    /\ told = [l \in Settings |-> Unknown] /\ superseded = {}
    /\ \A l \in Settings \ Parts : flash["lorawan"][l] \in {Absent, Corrupt}
    /\ v = Corrupt \/ ns = "rzi" \/ k \in Parts
    /\ k = "join_policy" => ns = "lorawan"
    /\ flash' = [flash EXCEPT ![ns][k] = v]
    /\ UNCHANGED <<settings, credentials, join_active, clearing, told, superseded, wrote>>

Init ==
    /\ flash = [ns \in {"lorawan", "rzi"} |-> [k \in Settings |-> Absent]]
    /\ settings = [k \in Settings |-> Unloaded]
    /\ credentials = Unloaded
    /\ join_active = FALSE
    /\ clearing = Idle
    /\ told = [k \in Settings |-> Unknown]
    /\ superseded = {}
    /\ wrote = Unknown

Next ==
    \/ \E ns \in {"lorawan", "rzi"}, k \in Settings :
            \E v \in Held(ns, k) \cup {Corrupt} : OldFirmware(ns, k, v)
    \/ \E k \in Shared : ConfigGet(k)
    \/ \E k \in Shared : \E v \in Value(k) : ConfigSet(k, v)
    \/ \E k \in Credentials : EnsureLoadedFails(k)
    \/ \E k \in Credentials : CredentialGet(k)
    \/ \E k \in Credentials \ {"join_policy"} : \E v \in Value(k) : CredentialSet(k, v)
    \/ CredentialBusy
    \/ /\ "join_policy" \in Settings
       /\ \E F \in SUBSET Parts : \E p \in [F -> 0..MaxValue] : UpdatePolicy(F, p)
    \/ \E active \in BOOLEAN : SetJoinActive(active)
    \/ ClearStarts
    \/ ClearDeletes
    \/ ClearEnds
    \/ Reboot

Spec == Init /\ [][Next]_vars

-----------------------------------------------------------------------------
(***************************************************************************)
(* Properties.                                                             *)
(***************************************************************************)

Showable(k) == IF k \in Defaulted THEN Value(k) ELSE Value(k) \cup {Absent}

\* Every variable keeps its type: the two namespaces in flash, the schema's
\* cache, the credential store and the position of a reset.
TypeOK ==
    /\ DOMAIN flash = {"lorawan", "rzi"}
    /\ \A ns \in {"lorawan", "rzi"} :
        /\ DOMAIN flash[ns] = Settings
        /\ \A k \in Settings : flash[ns][k] \in Held(ns, k) \cup {Absent, Corrupt}
    /\ DOMAIN settings = Settings
    /\ \A k \in Settings : settings[k] \in Value(k) \cup {Absent, Unloaded}
    /\ credentials # Unloaded =>
        /\ DOMAIN credentials = Credentials
        /\ \A k \in Credentials : credentials[k] \in Showable(k)
    /\ join_active \in BOOLEAN
    /\ clearing \in [at : 0..(Last + 1), ok : BOOLEAN]
    /\ DOMAIN told = Settings
    /\ \A k \in Settings : told[k] \in Showable(k) \cup {Unknown}
    /\ superseded \subseteq Settings

\* A reboot restores what the API last said: whatever a getter returned or a
\* setter accepted for a setting is what the next boot reads from flash, until
\* a reset is asked for.  Setters save before they publish, a migration saves
\* under the new key before the value is shown, a failed call shows nothing
\* (lorawan_settings.c:244, 287-291; lorawan_credentials.c:571-576).
RebootRestores ==
    \A k \in Settings : told[k] # Unknown => Shown(k, LoadValue(k)) = told[k]

\* The strengthening that makes RebootRestores inductive when no delete fails:
\* outside a reset the schema's cache agrees with flash, during one nothing is
\* promised, and only the settings some call loads are ever promised.
RestoreInv ==
    /\ RebootRestores
    /\ LocksFree => \A k \in Credentials \cup Shared :
                        settings[k] # Unloaded => LoadValue(k) = settings[k]
    /\ ~LocksFree => \A k \in Settings : told[k] = Unknown
    /\ clearing.ok
    /\ \A k \in Settings \ (Credentials \cup Shared) : told[k] = Unknown

\* The credential store and the schema's cache never disagree: a store that
\* is loaded holds, for every key, what the schema's cache shows, through
\* loads that fail half way, failed saves and failed resets
\* (lorawan_credentials.c:133-137, 154-158, 692-695).
StoreMatchesSchema ==
    credentials # Unloaded =>
        \A k \in Credentials :
            settings[k] # Unloaded /\ credentials[k] = Shown(k, settings[k])

\* The two caches of the settings hold values of their types and never disagree, whichever
\* load, save or delete fails.
CachesConsistent == TypeOK /\ StoreMatchesSchema

\* A reset that returns 0 left nothing behind: when the caches are dropped at
\* its end, every key of the manifest is gone from both namespaces, whichever
\* deletes failed on the way (lorawan_settings.c:305-321).
ResetIsComplete ==
    [][ (clearing.at = Last + 1 /\ settings # settings' /\ clearing.ok)
            => \A ns \in {"lorawan", "rzi"}, k \in Settings : flash[ns][k] = Absent ]_vars

\* The settings a running join was built from stay: while a join is active no
\* call changes the value of a credential, in the store or in what a reboot
\* would load; only the join policy may change
\* (lorawan_credentials.c:151, 471, 609, 689).
JoinKeepsCredentials ==
    [][ (join_active /\ join_active') =>
            \A k \in Credentials \ {"join_policy"} :
                /\ credentials # Unloaded => credentials'[k] = credentials[k]
                /\ LoadValue(k)' = LoadValue(k) ]_vars

\* A setter that returns 0 has stored its value: a reboot would load it
\* (lorawan_settings.c:287-288).
WriteIsDurable ==
    wrote # Unknown => LoadValue(wrote.key) = wrote.val

\* A value of an old key never comes back: once a setter has changed a
\* setting under its own key, no load takes the setting from an old key until
\* a reset has completed (lorawan_settings.c:305-313, 226).
LegacyStaysSuperseded ==
    [][ \A k \in superseded : ~(Migrates(k) /\ settings'[k] # Unloaded) ]_vars

=============================================================================
