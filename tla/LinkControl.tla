---------------------------- MODULE LinkControl ----------------------------
(***************************************************************************)
(* Data rate, ADR and listen-before-talk (lorawan_network.c,               *)
(* lorawan_backend_usp_network.c; AT+ADR, AT+DR, AT+LBT, AT+LBTRSSI,       *)
(* AT+LBTSCANTIME).  A data rate set by the application is a custom ADR    *)
(* profile with one rate in every slot.                                    *)
(***************************************************************************)
EXTENDS LorawanCall

CONSTANTS
    Rates,          \* data rates
    Thresholds,     \* LBT thresholds the clients set
    ScanTimes       \* LBT scan times the clients set

Profiles == {"network", "mobile_long_range", "mobile_low_power", "custom"}
DefaultThreshold == -80     \* LBT_DEFAULT_THRESHOLD
DefaultScanTime == 5        \* LBT_DEFAULT_DURATION_MS
NoRate == -1
NoLbt == [threshold |-> 0, scan |-> 0]      \* the modem has no LBT parameters
Defaults == [threshold |-> DefaultThreshold, scan |-> DefaultScanTime]

ASSUME LinkAssumption ==
    Rates \subseteq 0..15 /\ Rates # {} /\ Thresholds \subseteq Int /\ ScanTimes \subseteq Nat

VARIABLES
    profile, rate,      \* the modem's ADR profile and its next data rate
    enabled,            \* the data rates of the channels in use
    lbt_on, lbt,        \* listen-before-talk
    want,               \* what the last accepted call asked for: [adr, rate]
    lbt_want            \* the threshold and the scan time the calls asked for

linkVars == <<profile, rate, enabled, lbt_on, lbt, want, lbt_want>>
adrVars == <<profile, rate, want>>
lbtVars == <<lbt_on, lbt, lbt_want>>

NewSession == [adr |-> TRUE, rate |-> NoRate]

LinkInit ==
    /\ profile = "network" /\ rate \in Rates /\ enabled = Rates
    /\ lbt_on = FALSE /\ lbt = NoLbt
    /\ want = NewSession /\ lbt_want = NoLbt

Done == Stay /\ UNCHANGED <<session, events>>

\* set_profile(): only with a session.
set_profile(p, r) ==
    /\ ready /\ joined
    /\ profile' = p
    /\ rate' = IF r = NoRate THEN rate ELSE r

\* pin_data_rate(): the same rate in every slot of a custom profile.
pin_data_rate(r) == set_profile("custom", r)

\* Mutant: ADR is turned off with an empty distribution, every slot of which is DR0.
SetAdrEmptyProfile(t, on) ==
    /\ Begin(t, "adr") /\ Done
    /\ IF on THEN set_profile("network", NoRate) ELSE set_profile("custom", 0)
    /\ want' = [adr |-> on, rate |-> IF on THEN NoRate ELSE rate]
    /\ UNCHANGED <<enabled, lbtVars>>

\* usp_set_adr(): off pins the data rate ADR last selected.
SetAdr(t, on) ==
    /\ Begin(t, "adr") /\ Done
    /\ IF on THEN set_profile("network", NoRate) ELSE pin_data_rate(rate)
    /\ want' = [adr |-> on, rate |-> IF on THEN NoRate ELSE rate]
    /\ UNCHANGED <<enabled, lbtVars>>

\* rzi_lorawan_set_data_rate(): the rate is checked in one section ...
CheckDataRate(t, r) ==
    /\ Begin(t, "data_rate") /\ ready /\ r \in enabled
    /\ GotoWith(t, "set_rate", {r})
    /\ UNCHANGED <<linkVars, session, events>>

\* ... and pinned in the next, which fails if the session has ended in between.
SetDataRate(t) ==
    /\ pc[t] = "set_rate" /\ Goto(t, Idle)
    /\ IF ready /\ joined
       THEN \E r \in arg[t] : pin_data_rate(r) /\ want' = [adr |-> FALSE, rate |-> r]
       ELSE UNCHANGED adrVars
    /\ UNCHANGED <<enabled, lbtVars, session, events>>

\* usp_set_adr_profile(): a custom profile has the rates of its caller, a mobile one its own.
usp_set_adr_profile(p) == \E r \in IF p = "network" THEN {NoRate} ELSE Rates : set_profile(p, r)

\* rzi_lorawan_set_adr_profile()
SetAdrProfile(t, p) ==
    /\ Begin(t, "profile") /\ Done
    /\ usp_set_adr_profile(p)
    /\ want' = [adr |-> p = "network", rate |-> IF p = "custom" THEN rate' ELSE NoRate]
    /\ UNCHANGED <<enabled, lbtVars>>

\* A LinkADRReq: the network moves the rate if it controls it, and the channels in any case.
LinkAdr(r, rates) ==
    /\ Event /\ joined /\ rates # {}
    /\ enabled' = rates
    /\ rate' = IF profile = "network" THEN r ELSE rate
    /\ UNCHANGED <<profile, want, lbtVars, session>>

\* usp_set_lbt(): on restores the defaults first; the switch itself may then fail.
SetLbt(t, on, ok) ==
    /\ Begin(t, "lbt") /\ ready /\ Done
    /\ lbt' = IF on THEN Defaults ELSE lbt
    /\ lbt_want' = IF on THEN Defaults ELSE lbt_want
    /\ lbt_on' = IF ok THEN on ELSE lbt_on
    /\ UNCHANGED <<enabled, adrVars>>

\* usp_set_lbt_rssi(): keeps the scan time, or takes the default if the modem has none.
SetThreshold(t, x) ==
    /\ Begin(t, "lbt_rssi") /\ ready /\ Done
    /\ lbt' = [IF lbt = NoLbt THEN Defaults ELSE lbt EXCEPT !.threshold = x]
    /\ lbt_want' = [IF lbt = NoLbt THEN Defaults ELSE lbt_want EXCEPT !.threshold = x]
    /\ UNCHANGED <<enabled, lbt_on, adrVars>>

\* usp_set_lbt_scan_time()
SetScanTime(t, x) ==
    /\ Begin(t, "lbt_scan") /\ ready /\ x # 0 /\ Done
    /\ lbt' = [IF lbt = NoLbt THEN Defaults ELSE lbt EXCEPT !.scan = x]
    /\ lbt_want' = [IF lbt = NoLbt THEN Defaults ELSE lbt_want EXCEPT !.scan = x]
    /\ UNCHANGED <<enabled, lbt_on, adrVars>>

\* The session ends: the modem goes back to the network profile.
LinkSessionEnds ==
    /\ profile' = "network" /\ want' = NewSession /\ enabled' = Rates
    /\ UNCHANGED <<rate, lbtVars>>

\* A restart of the modem: everything it kept in RAM.
LinkReboot ==
    /\ profile' = "network" /\ want' = NewSession /\ enabled' = Rates
    /\ lbt_on' = FALSE /\ lbt' = NoLbt /\ lbt_want' = NoLbt
    /\ UNCHANGED rate

LinkNext ==
    \/ \E t \in Threads :
          \/ \E on \in BOOLEAN : SetAdr(t, on)
          \/ \E r \in Rates : CheckDataRate(t, r)
          \/ SetDataRate(t)
          \/ \E p \in Profiles : SetAdrProfile(t, p)
          \/ \E on, ok \in BOOLEAN : SetLbt(t, on, ok)
          \/ \E x \in Thresholds : SetThreshold(t, x)
          \/ \E x \in ScanTimes : SetScanTime(t, x)
    \/ \E r \in Rates, rates \in SUBSET Rates : LinkAdr(r, rates)

-----------------------------------------------------------------------------
LinkTypeOK ==
    /\ profile \in Profiles /\ rate \in Rates /\ enabled \subseteq Rates
    /\ lbt_on \in BOOLEAN

\* With a session, ADR and the data rate are what the last accepted call asked for: the
\* network moves the rate only while it controls it, and turning ADR off keeps the rate.
LinkAsAsked == joined => /\ (profile = "network") = want.adr
                         /\ want.rate # NoRate => rate = want.rate

\* The threshold and the scan time of listen-before-talk are the last ones that were set:
\* setting one keeps the other; only turning it on restores both defaults.
LbtKept == lbt = lbt_want

\* The link runs as it was last configured.
LinkKept == LinkTypeOK /\ LinkAsAsked /\ LbtKept

\* include/rzi/lorawan/lorawan.h, rzi_lorawan_set_lbt_rssi(): "Threshold used while listening."
ThresholdUsed == [][lbt_on' /\ ~lbt_on /\ lbt # NoLbt => lbt'.threshold = lbt.threshold]_lbt_on
=============================================================================
