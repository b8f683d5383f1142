---------------------------- MODULE NetworkProofs ----------------------------
(***************************************************************************)
(* Proofs about Network, for any threads, clients, inputs and bounds: what *)
(* the calls of the network API accepted is what is read back, joined with *)
(* and run, however they interleave with each other and with joins,        *)
(* leaves, resets of the modem and restarts.                               *)
(***************************************************************************)
EXTENDS Network, FiniteSetTheorems, TLAPS

-----------------------------------------------------------------------------
(* The threads.  Each part of the API has its own places in a call, and a  *)
(* step of another part moves no thread into or out of them.               *)

ChannelPlaces == {"claim", "join"}
InfoPlaces == {"id_joined", "id_read"}
LinkPlaces == {"set_rate"}
MacPlaces == {"link_trig", "link_clear", "time_trig", "uplink_link", "uplink_time", "uplink"}

Keeps(places) == \A t \in Threads :
    pc[t] \in places \/ pc'[t] \in places => pc'[t] = pc[t] /\ arg'[t] = arg[t]

\* A step that does nothing for the threads.
LEMMA StayKeeps ==
    ASSUME NEW places, UNCHANGED <<pc, arg>>
    PROVE  Keeps(places)
BY DEF Keeps

LEMMA ChannelsKeep ==
    ASSUME CallTypeOK, ChannelsNext
    PROVE  Keeps(InfoPlaces) /\ Keeps(LinkPlaces) /\ Keeps(MacPlaces)
<1>1. CASE UNCHANGED <<pc, arg>>
  BY <1>1, StayKeeps
<1>2. CASE \E t \in Threads : JoinBuild(t)
  BY <1>2 DEF JoinBuild, Begin, GotoWith, Keeps, InfoPlaces, LinkPlaces, MacPlaces, Idle, CallTypeOK
<1>3. CASE \E t \in Threads : JoinClaim(t)
  BY <1>3 DEF JoinClaim, Goto, Keeps, InfoPlaces, LinkPlaces, MacPlaces, Idle, CallTypeOK
<1>4. CASE \E t \in Threads, configured, ok \in BOOLEAN : UspJoin(t, configured, ok)
  BY <1>4 DEF UspJoin, Goto, Keeps, InfoPlaces, LinkPlaces, MacPlaces, Idle, CallTypeOK
<1> QED
  BY <1>1, <1>2, <1>3, <1>4 DEF ChannelsNext, SetRegion, SetActivation, SetMask, SetChe, SetFixedChannel,
     SetSubBand, SetRaw, set_channel_mask, Stay, JoinAccept, JoinedEvent, JoinEnd, Event, thread, callVars

LEMMA InfoKeep ==
    ASSUME CallTypeOK, InfoNext
    PROVE  Keeps(ChannelPlaces) /\ Keeps(LinkPlaces) /\ Keeps(MacPlaces)
<1>1. CASE UNCHANGED <<pc, arg>>
  BY <1>1, StayKeeps
<1>2. CASE \E t \in Threads, what \in Whats : ReadIdentity(t, what) /\ ~UNCHANGED <<pc, arg>>
  BY <1>2 DEF ReadIdentity, Begin, Stay, GotoWith, Keeps, ChannelPlaces, LinkPlaces, MacPlaces, Idle, CallTypeOK
<1>3. CASE \E t \in Threads : SessionJoined(t)
  BY <1>3 DEF SessionJoined, Answer, Goto, Keeps, ChannelPlaces, LinkPlaces, MacPlaces, Idle, CallTypeOK
<1>4. CASE \E t \in Threads, exported \in BOOLEAN : ReadModem(t, exported)
  BY <1>4 DEF ReadModem, Answer, Goto, Keeps, ChannelPlaces, LinkPlaces, MacPlaces, Idle, CallTypeOK
<1> QED
  BY <1>1, <1>2, <1>3, <1>4 DEF InfoNext, rzi_lorawan_get_dev_addr, rzi_lorawan_get_session_key,
     Whats, SetIdentity, Stay

LEMMA LinkKeep ==
    ASSUME CallTypeOK, LinkNext
    PROVE  Keeps(ChannelPlaces) /\ Keeps(InfoPlaces) /\ Keeps(MacPlaces)
<1>1. CASE UNCHANGED <<pc, arg>>
  BY <1>1, StayKeeps
<1>2. CASE \E t \in Threads, r \in Rates : CheckDataRate(t, r)
  BY <1>2 DEF CheckDataRate, Begin, GotoWith, Keeps, ChannelPlaces, InfoPlaces, MacPlaces, Idle, CallTypeOK
<1>3. CASE \E t \in Threads : SetDataRate(t)
  BY <1>3 DEF SetDataRate, Goto, Keeps, ChannelPlaces, InfoPlaces, MacPlaces, Idle, CallTypeOK
<1> QED
  BY <1>1, <1>2, <1>3 DEF LinkNext, SetAdr, SetAdrProfile, SetLbt, SetThreshold, SetScanTime,
     Done, Stay, LinkAdr, Event, thread

LEMMA MacKeep ==
    ASSUME CallTypeOK, MacNext
    PROVE  Keeps(ChannelPlaces) /\ Keeps(InfoPlaces) /\ Keeps(LinkPlaces)
<1>1. CASE UNCHANGED <<pc, arg>>
  BY <1>1, StayKeeps
<1>2. CASE \E t \in Threads : \/ \E mode \in LinkModes : RequestLinkCheck(t, mode) /\ ~UNCHANGED <<pc, arg>>
                              \/ \E b \in BOOLEAN : RequestDeviceTime(t, b) /\ ~UNCHANGED <<pc, arg>>
                              \/ SendCheck(t)
  BY <1>2 DEF RequestLinkCheck, RequestDeviceTime, SendCheck, Begin, Stay, GotoWith, Keeps,
     ChannelPlaces, InfoPlaces, LinkPlaces, Idle, CallTypeOK
<1>3. CASE \E t \in Threads : LinkClear(t) \/ Uplink(t)
  BY <1>3 DEF LinkClear, Uplink, Goto, Keeps, ChannelPlaces, InfoPlaces, LinkPlaces, Idle, CallTypeOK
<1>4. CASE \E t \in Threads, ok \in BOOLEAN : LinkTrig(t, ok) \/ TimeTrig(t, ok) \/ UplinkLink(t, ok) \/ UplinkTime(t, ok)
  BY <1>4 DEF LinkTrig, TimeTrig, UplinkLink, UplinkTime, Goto, Keeps, ChannelPlaces, InfoPlaces, LinkPlaces,
     Idle, CallTypeOK
<1> QED
  BY <1>1, <1>2, <1>3, <1>4 DEF MacNext, RequestsSent, Event, thread

LEMMA McStays ==
    ASSUME McNext
    PROVE  UNCHANGED <<pc, arg, session, events>>
BY DEF McNext, Add, Remove, Clear, Quiet, Stay

-----------------------------------------------------------------------------
(* The service: a session, and a join on its way to one, need a started    *)
(* service.                                                                *)

CallInv ==
    /\ CallTypeOK
    /\ joining \/ joined => started
    /\ \A t \in Threads : pc[t] \in ChannelPlaces => started

\* The parts that leave the join alone.
LEMMA OtherParts ==
    ASSUME CallTypeOK, \/ InfoNext \/ LinkNext \/ MacNext \/ McNext
    PROVE  /\ UNCHANGED <<session, client>>
           /\ \/ UNCHANGED events
              \/ events < MaxEvents /\ events' = events + 1
           /\ \/ UNCHANGED calls
              \/ calls < MaxCalls /\ calls' = calls + 1
           /\ DOMAIN pc' = Threads /\ DOMAIN arg' = Threads
           /\ Keeps(ChannelPlaces)
<1>1. CASE InfoNext
  BY <1>1, InfoKeep DEF InfoNext, rzi_lorawan_get_dev_addr, rzi_lorawan_get_session_key, ReadIdentity,
     SetIdentity, SessionJoined, ReadModem, Answer, Begin, Stay, Goto, GotoWith, CallTypeOK
<1>2. CASE LinkNext
  BY <1>2, LinkKeep DEF LinkNext, SetAdr, CheckDataRate, SetDataRate, SetAdrProfile, SetLbt,
     SetThreshold, SetScanTime, LinkAdr, Done, Begin, Stay, Goto, GotoWith, Event, thread,
     CallTypeOK
<1>3. CASE MacNext
  BY <1>3, MacKeep DEF MacNext, RequestLinkCheck, LinkTrig, LinkClear, RequestDeviceTime, TimeTrig,
     SendCheck, UplinkLink, UplinkTime, Uplink, RequestsSent, Begin, Stay, Goto, GotoWith, Event, thread,
     CallTypeOK
<1>4. CASE McNext
  BY <1>4, StayKeeps DEF McNext, Add, Remove, Clear, Quiet, Begin, Stay, CallTypeOK
<1> QED BY <1>1, <1>2, <1>3, <1>4

LEMMA CallStep ==
    ASSUME CallInv, [Next]_vars
    PROVE  CallInv'
<1> USE CallAssumption
<1>1. CASE ChannelsNext
  <2>1. CASE \E t \in Threads : JoinBuild(t)
    BY <2>1 DEF JoinBuild, Begin, GotoWith, session, CallInv, CallTypeOK, ChannelPlaces
  <2>2. CASE \E t \in Threads : JoinClaim(t)
    BY <2>2 DEF JoinClaim, Goto, session, CallInv, CallTypeOK, ChannelPlaces
  <2>3. CASE \E t \in Threads, configured, ok \in BOOLEAN : UspJoin(t, configured, ok)
    BY <2>3 DEF UspJoin, Goto, CallInv, CallTypeOK, ChannelPlaces, Idle
  <2>4. CASE JoinAccept \/ \E left \in BOOLEAN : JoinEnd(left)
    <3>1. CallTypeOK'
      <4>1. calls' \in 0..MaxCalls /\ events' \in 0..MaxEvents
        BY <2>4 DEF JoinAccept, JoinEnd, Event, thread, CallInv, CallTypeOK
      <4>2. UNCHANGED <<client, pc, arg, started, ready>> /\ joining' \in BOOLEAN /\ joined' \in BOOLEAN
        BY <2>4, Zenon DEF JoinAccept, JoinEnd, Event, thread, CallInv, CallTypeOK
      <4> QED BY <4>1, <4>2 DEF CallInv, CallTypeOK
    <3>2. UNCHANGED <<pc, started>> /\ joining
      BY <2>4 DEF JoinAccept, JoinEnd, Event, thread
    <3> QED BY <3>1, <3>2 DEF CallInv
  <2>5. CASE JoinedEvent
    BY <2>5 DEF JoinedEvent, callVars, CallInv, CallTypeOK
  <2>6. CASE /\ UNCHANGED <<pc, arg, session, events, client>>
             /\ calls < MaxCalls /\ calls' = calls + 1
    BY <2>6 DEF session, CallInv, CallTypeOK
  <2> QED
    BY <1>1, <2>1, <2>2, <2>3, <2>4, <2>5, <2>6 DEF ChannelsNext, SetRegion, SetActivation, SetMask,
       SetChe, SetFixedChannel, SetSubBand, SetRaw, set_channel_mask, Begin, Stay
<1>3. CASE InfoNext \/ LinkNext \/ MacNext \/ McNext
  BY <1>3, OtherParts DEF Keeps, session, CallInv, CallTypeOK
<1>4. CASE ServiceStart
  BY <1>4 DEF ServiceStart, Start, ModemReady, thread, CallInv, CallTypeOK
<1>5. CASE \E t \in Threads : LeaveNetwork(t)
  <2>1. CallTypeOK'
    <3>1. calls' \in 0..MaxCalls /\ events' \in 0..MaxEvents
      BY <1>5 DEF LeaveNetwork, Begin, Stay, CallInv, CallTypeOK
    <3>2. UNCHANGED <<client, pc, arg>>
      BY <1>5 DEF LeaveNetwork, Begin, Stay, CallInv, CallTypeOK
    <3>3. started' \in BOOLEAN /\ ready' \in BOOLEAN /\ joining' \in BOOLEAN /\ joined' \in BOOLEAN
      BY <1>5, Zenon DEF LeaveNetwork, Begin, Stay, CallInv, CallTypeOK
    <3> QED BY <3>1, <3>2, <3>3 DEF CallInv, CallTypeOK
  <2>2. UNCHANGED <<pc, started>> /\ ~joining' /\ ~joined'
    BY <1>5 DEF LeaveNetwork, Stay
  <2> QED BY <2>1, <2>2 DEF CallInv
<1>6. CASE \E ok \in BOOLEAN : ModemReset(ok)
  <2>1. CallTypeOK'
    <3>1. calls' \in 0..MaxCalls /\ events' \in 0..MaxEvents
      BY <1>6 DEF ModemReset, Event, thread, CallInv, CallTypeOK
    <3>2. UNCHANGED <<client, pc, arg>>
      BY <1>6 DEF ModemReset, Event, thread, CallInv, CallTypeOK
    <3>3. started' \in BOOLEAN /\ ready' \in BOOLEAN /\ joining' \in BOOLEAN /\ joined' \in BOOLEAN
      BY <1>6, Zenon DEF ModemReset, Event, thread, CallInv, CallTypeOK
    <3> QED BY <3>1, <3>2, <3>3 DEF CallInv, CallTypeOK
  <2>2. UNCHANGED <<pc, started>> /\ ~joining' /\ ~joined'
    BY <1>6 DEF ModemReset, Event, thread
  <2> QED BY <2>1, <2>2 DEF CallInv
<1>7. CASE Reboot
  <2>1. CallTypeOK'
    <3>1. calls' \in 0..MaxCalls /\ events' \in 0..MaxEvents
      BY <1>7 DEF Reboot, CallInv, CallTypeOK
    <3>2. client' \in Clients /\ DOMAIN pc' = Threads /\ DOMAIN arg' = Threads
      BY <1>7 DEF Reboot, CallInv, CallTypeOK
    <3>3. started' \in BOOLEAN /\ ready' \in BOOLEAN /\ joining' \in BOOLEAN /\ joined' \in BOOLEAN
      BY <1>7, Zenon DEF Reboot, CallInv, CallTypeOK
    <3> QED BY <3>1, <3>2, <3>3 DEF CallInv, CallTypeOK
  <2>2. ~joining' /\ ~joined' /\ \A t \in Threads : pc'[t] = Idle
    BY <1>7 DEF Reboot
  <2> QED BY <2>1, <2>2 DEF CallInv, ChannelPlaces, Idle
<1>8. CASE UNCHANGED vars
  BY <1>8 DEF vars, callVars, CallInv, CallTypeOK
<1> QED BY <1>1, <1>3, <1>4, <1>5, <1>6, <1>7, <1>8 DEF Next

-----------------------------------------------------------------------------
(* Link control.  The modem and the last accepted call agree whether the   *)
(* device has a session or not, and the network moves the rate only while  *)
(* nobody has asked for one.                                               *)

\* A rate between its check and its use is a data rate.
RatesGiven == \A t \in Threads : pc[t] = "set_rate" => arg[t] \subseteq Rates

LinkInv ==
    /\ LinkTypeOK
    /\ want.adr \in BOOLEAN
    /\ want.adr <=> profile = "network"
    /\ want.rate # NoRate => rate = want.rate
    /\ want.adr => want.rate = NoRate
    /\ lbt = lbt_want
    /\ RatesGiven

\* A profile that was accepted, and what its caller asked for.
LEMMA ProfileStep ==
    ASSUME LinkInv, NEW p \in Profiles, NEW r \in Rates \cup {NoRate}, set_profile(p, r),
           NEW a \in {NoRate} \cup {rate'}, p = "network" => a = NoRate,
           want' = [adr |-> p = "network", rate |-> a],
           UNCHANGED <<enabled, lbtVars>>, RatesGiven'
    PROVE  LinkInv'
<1>1. profile' = p /\ rate' \in Rates
  BY DEF set_profile, LinkInv, LinkTypeOK
<1>2. want'.adr \in BOOLEAN /\ (want'.adr <=> p = "network")
  <2>1. want'.adr = (p = "network")
    OBVIOUS
  <2> QED BY <2>1, Zenon
<1>3. want'.rate = a
  OBVIOUS
<1>4. LinkTypeOK'
  BY <1>1 DEF LinkInv, LinkTypeOK, lbtVars
<1>5. lbt' = lbt_want'
  BY DEF LinkInv, lbtVars
<1>6. want'.adr => want'.rate = NoRate
  BY <1>2, <1>3
<1>7. want'.rate # NoRate => rate' = want'.rate
  BY <1>3
<1> QED BY <1>1, <1>2, <1>4, <1>5, <1>6, <1>7, Zenon DEF LinkInv

LEMMA LinkStep ==
    ASSUME CallInv, LinkInv, [Next]_vars
    PROVE  LinkInv'
<1>0. ASSUME Keeps(LinkPlaces) PROVE RatesGiven'
  BY <1>0 DEF Keeps, LinkPlaces, LinkInv, RatesGiven
<1>a. ASSUME UNCHANGED <<pc, arg>> PROVE RatesGiven'
  BY <1>a DEF LinkInv, RatesGiven
<1>1. ASSUME UNCHANGED linkVars, RatesGiven'
      PROVE  LinkInv'
  BY <1>1 DEF linkVars, LinkInv, LinkTypeOK, RatesGiven
<1>2. CASE LinkNext
  <2>1. ASSUME NEW t \in Threads, NEW on \in BOOLEAN, SetAdr(t, on)
        PROVE  LinkInv'
    <3> DEFINE p == IF on THEN "network" ELSE "custom"
               r == IF on THEN NoRate ELSE rate
    <3>1. set_profile(p, r)
      BY <2>1 DEF SetAdr, pin_data_rate
    <3>2. want' = [adr |-> p = "network", rate |-> r]
      BY <2>1 DEF SetAdr
    <3>3. p \in Profiles /\ r \in Rates \cup {NoRate} /\ (p = "network" => r = NoRate)
      BY DEF Profiles, LinkInv, LinkTypeOK
    <3>4. r \in {NoRate} \cup {rate'}
      BY <3>1 DEF set_profile
    <3>5. UNCHANGED <<enabled, lbtVars>> /\ RatesGiven'
      BY <2>1, <1>a DEF SetAdr, Done, Stay
    <3> HIDE DEF p, r
    <3> QED BY <3>1, <3>2, <3>3, <3>4, <3>5, ProfileStep
  <2>2. ASSUME NEW t \in Threads, NEW r \in Rates, CheckDataRate(t, r)
        PROVE  LinkInv'
    <3>1. RatesGiven'
      BY <2>2 DEF CheckDataRate, GotoWith, RatesGiven, LinkInv, CallInv, CallTypeOK
    <3> QED BY <1>1, <2>2, <3>1 DEF CheckDataRate
  <2>3. ASSUME NEW t \in Threads, SetDataRate(t)
        PROVE  LinkInv'
    <3>1. RatesGiven'
      BY <2>3 DEF SetDataRate, Goto, RatesGiven, LinkInv, CallInv, CallTypeOK, Idle
    <3>2. CASE ready /\ joined
      <4>1. PICK r \in arg[t] : set_profile("custom", r) /\ want' = [adr |-> FALSE, rate |-> r]
        BY <2>3, <3>2 DEF SetDataRate, pin_data_rate
      <4>2. r \in Rates /\ r # NoRate
        BY <2>3, LinkAssumption DEF SetDataRate, LinkInv, RatesGiven, NoRate
      <4>3. rate' = r
        BY <4>1, <4>2 DEF set_profile
      <4>4. want' = [adr |-> "custom" = "network", rate |-> r]
        BY <4>1
      <4>5. UNCHANGED <<enabled, lbtVars>>
        BY <2>3 DEF SetDataRate
      <4>6. "custom" \in Profiles /\ "custom" # "network"
        BY DEF Profiles
      <4> QED BY <3>1, <4>1, <4>2, <4>3, <4>4, <4>5, <4>6, ProfileStep
    <3>3. CASE ~(ready /\ joined)
      <4>1. UNCHANGED linkVars
        BY <2>3, <3>3 DEF SetDataRate, adrVars, lbtVars, linkVars
      <4> QED BY <1>1, <3>1, <4>1
    <3> QED BY <3>2, <3>3
  <2>4. ASSUME NEW t \in Threads, NEW p \in Profiles, SetAdrProfile(t, p)
        PROVE  LinkInv'
    <3>1. PICK r \in IF p = "network" THEN {NoRate} ELSE Rates : set_profile(p, r)
      BY <2>4 DEF SetAdrProfile, usp_set_adr_profile
    <3> DEFINE a == IF p = "custom" THEN rate' ELSE NoRate
    <3>2. want' = [adr |-> p = "network", rate |-> a]
      BY <2>4 DEF SetAdrProfile
    <3>3. a \in {NoRate} \cup {rate'} /\ (p = "network" => a = NoRate)
      OBVIOUS
    <3>4. UNCHANGED <<enabled, lbtVars>> /\ RatesGiven'
      BY <2>4, <1>a DEF SetAdrProfile, Done, Stay
    <3>5. r \in Rates \cup {NoRate}
      BY <3>1
    <3> HIDE DEF a
    <3> QED BY <3>1, <3>2, <3>3, <3>4, <3>5, ProfileStep
  <2>5. ASSUME NEW t \in Threads, NEW on \in BOOLEAN, NEW ok \in BOOLEAN, SetLbt(t, on, ok)
        PROVE  LinkInv'
    <3>1. RatesGiven'
      BY <2>5, <1>a DEF SetLbt, Done, Stay
    <3> QED BY <2>5, <3>1 DEF SetLbt, adrVars, LinkInv, LinkTypeOK, RatesGiven
  <2>6. ASSUME NEW t \in Threads, NEW x, SetThreshold(t, x) \/ SetScanTime(t, x)
        PROVE  LinkInv'
    <3>1. RatesGiven'
      BY <2>6, <1>a DEF SetThreshold, SetScanTime, Done, Stay
    <3> QED BY <2>6, <3>1 DEF SetThreshold, SetScanTime, adrVars, LinkInv, LinkTypeOK, RatesGiven
  <2>8. ASSUME NEW r \in Rates, NEW rates \in SUBSET Rates, LinkAdr(r, rates)
        PROVE  LinkInv'
    <3>1. RatesGiven'
      BY <2>8, <1>a DEF LinkAdr, Event, thread
    <3> QED BY <2>8, <3>1 DEF LinkAdr, lbtVars, LinkInv, LinkTypeOK, RatesGiven
  <2> QED BY <1>2, <2>1, <2>2, <2>3, <2>4, <2>5, <2>6, <2>8 DEF LinkNext
<1>3. ASSUME LinkSessionEnds \/ LinkReboot, RatesGiven'
      PROVE  LinkInv'
  <2>1. profile' = "network" /\ want' = NewSession /\ enabled' = Rates /\ UNCHANGED rate /\ lbt' = lbt_want'
    BY <1>3 DEF LinkSessionEnds, LinkReboot, lbtVars, LinkInv
  <2>3. lbt_on' \in BOOLEAN
    BY <1>3, Zenon DEF LinkSessionEnds, LinkReboot, lbtVars, LinkInv, LinkTypeOK
  <2>4. want'.adr = TRUE /\ want'.rate = NoRate
    BY <2>1 DEF NewSession
  <2>5. LinkTypeOK'
    BY <2>1, <2>3 DEF LinkInv, LinkTypeOK, Profiles
  <2> QED BY <1>3, <2>1, <2>4, <2>5, Zenon DEF LinkInv
<1>4. CASE ChannelsNext /\ UNCHANGED linkVars
  BY <1>0, <1>1, <1>4, ChannelsKeep DEF CallInv
<1>5. CASE InfoNext /\ UNCHANGED linkVars
  BY <1>0, <1>1, <1>5, InfoKeep DEF CallInv
<1>6. CASE MacNext /\ UNCHANGED linkVars
  BY <1>0, <1>1, <1>6, MacKeep DEF CallInv
<1>7. CASE UNCHANGED <<linkVars, pc, arg>>
  BY <1>1, <1>a, <1>7
<1>8. CASE \/ \E t \in Threads : LeaveNetwork(t)
           \/ \E ok \in BOOLEAN : ModemReset(ok)
  BY <1>3, <1>a, <1>8 DEF LeaveNetwork, ModemReset, Stay, Event, thread
<1>9. CASE Reboot
  <2>1. RatesGiven'
    BY <1>9 DEF Reboot, RatesGiven, Idle
  <2> QED BY <1>3, <1>9, <2>1 DEF Reboot
<1> QED
  BY <1>2, <1>4, <1>5, <1>6, <1>7, <1>8, <1>9, McStays
  DEF Next, vars, callVars, ServiceStart, Start, ModemReady, thread

LEMMA CallStarts ==
    ASSUME Init
    PROVE  CallInv
<1>1. calls \in 0..MaxCalls /\ events \in 0..MaxEvents
  BY CallAssumption DEF Init, CallInit
<1>2. ~started /\ ~ready /\ ~joining /\ ~joined
  BY DEF Init, CallInit
<1>3. started \in BOOLEAN /\ ready \in BOOLEAN /\ joining \in BOOLEAN /\ joined \in BOOLEAN
  BY Zenon DEF Init, CallInit
<1>4. client \in Clients /\ DOMAIN pc = Threads /\ DOMAIN arg = Threads /\ \A t \in Threads : pc[t] = Idle
  BY DEF Init, CallInit
<1> QED BY <1>1, <1>2, <1>3, <1>4 DEF CallInv, CallTypeOK, ChannelPlaces, Idle

LEMMA LinkStarts ==
    ASSUME Init
    PROVE  LinkInv
<1>1. profile = "network" /\ want.adr = TRUE /\ want.rate = NoRate /\ lbt = lbt_want
  BY DEF Init, LinkInit, NewSession
<1>2. LinkTypeOK
  <2>1. lbt_on \in BOOLEAN
    BY Zenon DEF Init, LinkInit
  <2> QED BY <2>1 DEF Init, LinkInit, LinkTypeOK, Profiles
<1>3. RatesGiven
  BY DEF Init, CallInit, RatesGiven, Idle
<1> QED BY <1>1, <1>2, <1>3, Zenon DEF LinkInv

\* The link runs as the last accepted call configured it (rzi_lorawan_set_adr(),
\* rzi_lorawan_set_data_rate(), rzi_lorawan_set_adr_profile() and the setters of listen before
\* talk), for any threads, data rates, thresholds and scan times.
THEOREM LinkIsKept == Spec => []LinkKept
<1>1. Init => CallInv /\ LinkInv
  BY CallStarts, LinkStarts
<1>2. CallInv /\ LinkInv /\ [Next]_vars => CallInv' /\ LinkInv'
  BY CallStep, LinkStep
<1>3. LinkInv => LinkKept
  <2>1. LinkInv => (profile = "network") = want.adr
    BY Zenon DEF LinkInv
  <2> QED BY <2>1 DEF LinkInv, LinkKept, LinkAsAsked, LbtKept
<1> QED BY <1>1, <1>2, <1>3, PTL DEF Spec

-----------------------------------------------------------------------------
(* MAC requests.  A one-time mode is in the hands of a call that will      *)
(* clear it or be refused, and a thread on its way to an uplink knows      *)
(* what the mode was since its call began.                                 *)

OncePending == \E t \in Threads : pc[t] = "link_clear" \/ (pc[t] = "link_trig" /\ "once" \in arg[t])

UplinkFollows(t) ==
    /\ pc[t] = "uplink_link" /\ every_uplink[t].held => link_check_mode = "every"
    /\ pc[t] \in {"uplink_time", "uplink"} /\ every_uplink[t].held => every_uplink[t].asked

MacInv ==
    /\ MacTypeOK
    /\ every_uplink \in [Threads -> [held : BOOLEAN, asked : BOOLEAN]]
    /\ link_check_mode = "once" => refused \/ OncePending
    /\ \A t \in Threads : UplinkFollows(t)

\* Storing another mode ends what the uplinks under way hold.
LEMMA WrittenEnds ==
    ASSUME NEW mode, Written(mode), every_uplink \in [Threads -> [held : BOOLEAN, asked : BOOLEAN]]
    PROVE  /\ every_uplink' \in [Threads -> [held : BOOLEAN, asked : BOOLEAN]]
           /\ mode # "every" => \A t \in Threads : ~every_uplink'[t].held
           /\ mode = "every" => every_uplink' = every_uplink
<1>1. CASE mode = "every"
  BY <1>1 DEF Written
<1>2. CASE mode # "every"
  <2>1. \A t \in Threads : every_uplink[t] \in [held : BOOLEAN, asked : BOOLEAN]
    OBVIOUS
  <2>2. every_uplink' = [t \in Threads |-> [every_uplink[t] EXCEPT !.held = FALSE]]
    BY <1>2 DEF Written
  <2>3. \A t \in Threads : every_uplink'[t] = [every_uplink[t] EXCEPT !.held = FALSE]
    BY <2>2
  <2>4. \A t \in Threads : every_uplink'[t] \in [held : BOOLEAN, asked : BOOLEAN] /\ ~every_uplink'[t].held
    BY <2>1, <2>3
  <2> QED BY <1>2, <2>2, <2>4
<1> QED BY <1>1, <1>2

\* Thread t asks for the link check of its uplink, if the mode says so.
LEMMA AskedSet ==
    ASSUME NEW t \in Threads, NEW ok, UplinkLink(t, ok),
           every_uplink \in [Threads -> [held : BOOLEAN, asked : BOOLEAN]]
    PROVE  /\ every_uplink' \in [Threads -> [held : BOOLEAN, asked : BOOLEAN]]
           /\ every_uplink'[t].held = every_uplink[t].held
           /\ link_check_mode = "every" => every_uplink'[t].asked
           /\ \A u \in Threads \ {t} : every_uplink'[u] = every_uplink[u]
BY DEF UplinkLink

\* Steps of other parts leave the calls of this part where they are.
LEMMA MacKept ==
    ASSUME MacInv, Keeps(MacPlaces), UNCHANGED <<link_check_mode, device_time_enabled, refused, every_uplink>>,
           requests' \subseteq {"link", "time"}
    PROVE  MacInv'
<1>1. OncePending => OncePending'
  BY DEF Keeps, MacPlaces, OncePending
<1>2. ASSUME NEW t \in Threads PROVE UplinkFollows(t)'
  BY DEF Keeps, MacPlaces, UplinkFollows, MacInv
<1>3. MacTypeOK'
  BY DEF MacInv, MacTypeOK
<1> QED BY <1>1, <1>2, <1>3 DEF MacInv

LEMMA MacStep ==
    ASSUME CallInv, MacInv, [Next]_vars
    PROVE  MacInv'
<1>1. CASE MacNext
  <2> DEFINE Uplinks == [Threads -> [held : BOOLEAN, asked : BOOLEAN]]
  <2>0. DOMAIN pc = Threads /\ DOMAIN arg = Threads /\ every_uplink \in Uplinks /\ MacTypeOK
    BY DEF CallInv, CallTypeOK, MacInv
  <2>1. ASSUME NEW t \in Threads, NEW mode \in LinkModes, RequestLinkCheck(t, mode)
        PROVE  MacInv'
    <3>1. MacTypeOK'
      BY <2>0, <2>1, MacAssumption DEF RequestLinkCheck, MacTypeOK
    <3>2. /\ every_uplink' \in Uplinks
          /\ mode # "every" => \A u \in Threads : ~every_uplink'[u].held
          /\ mode = "every" => every_uplink' = every_uplink
      BY <2>0, <2>1, WrittenEnds DEF RequestLinkCheck
    <3>3. mode = "once" => OncePending'
      BY <2>0, <2>1 DEF RequestLinkCheck, GotoWith, OncePending
    <3>4. ASSUME NEW u \in Threads PROVE UplinkFollows(u)'
      BY <2>0, <2>1, <3>2 DEF RequestLinkCheck, Begin, GotoWith, Stay, UplinkFollows, MacInv, Idle
    <3>5. link_check_mode' = mode
      BY <2>1 DEF RequestLinkCheck
    <3> QED BY <3>1, <3>2, <3>3, <3>4, <3>5 DEF MacInv
  <2>2. ASSUME NEW t \in Threads, NEW ok \in BOOLEAN, LinkTrig(t, ok)
        PROVE  MacInv'
    <3>1. refused' = (refused \/ (~ok /\ "once" \in arg[t])) /\ UNCHANGED <<arg, link_check_mode, device_time_enabled, every_uplink>>
      BY <2>2 DEF LinkTrig, Goto
    <3>2. refused' \in BOOLEAN /\ (refused => refused')
      BY <3>1, Zenon
    <3>3. requests' \subseteq {"link", "time"}
      BY <2>0, <2>2 DEF LinkTrig, usp_request, MacTypeOK
    <3>4. OncePending => refused' \/ OncePending'
      <4> SUFFICES ASSUME OncePending, ~refused' PROVE OncePending'
        OBVIOUS
      <4>1. PICK u \in Threads : pc[u] = "link_clear" \/ (pc[u] = "link_trig" /\ "once" \in arg[u])
        BY DEF OncePending
      <4>2. CASE u = t
        BY <2>0, <2>2, <3>1, <4>1, <4>2 DEF LinkTrig, Goto, OncePending
      <4>3. CASE u # t
        BY <2>0, <2>2, <4>1, <4>3 DEF LinkTrig, Goto, OncePending
      <4> QED BY <4>2, <4>3
    <3>5. ASSUME NEW u \in Threads PROVE UplinkFollows(u)'
      BY <2>0, <2>2, <3>1 DEF LinkTrig, Goto, UplinkFollows, MacInv, Idle
    <3>6. MacTypeOK'
      BY <2>0, <3>1, <3>2, <3>3 DEF MacTypeOK
    <3> QED BY <3>1, <3>2, <3>4, <3>5, <3>6 DEF MacInv
  <2>3. ASSUME NEW t \in Threads, LinkClear(t)
        PROVE  MacInv'
    <3>1. MacTypeOK' /\ link_check_mode' = "disabled"
      BY <2>0, <2>3 DEF LinkClear, MacTypeOK, AllLinkModes
    <3>2. every_uplink' \in Uplinks /\ \A u \in Threads : ~every_uplink'[u].held
      BY <2>0, <2>3, WrittenEnds DEF LinkClear
    <3> QED BY <3>1, <3>2 DEF MacInv, UplinkFollows
  <2>4. ASSUME NEW t \in Threads, SendCheck(t)
        PROVE  MacInv'
    <3>1. every_uplink' = [every_uplink EXCEPT ![t] = [held |-> link_check_mode = "every", asked |-> FALSE]]
      BY <2>4 DEF SendCheck
    <3>2. every_uplink' \in Uplinks /\ (every_uplink'[t].held => link_check_mode = "every")
      BY <2>0, <3>1
    <3>3. OncePending => OncePending'
      BY <2>0, <2>4 DEF SendCheck, Begin, GotoWith, OncePending, Idle
    <3>4. ASSUME NEW u \in Threads PROVE UplinkFollows(u)'
      BY <2>0, <2>4, <3>1, <3>2 DEF SendCheck, Begin, GotoWith, UplinkFollows, MacInv, Idle
    <3> QED BY <2>4, <3>2, <3>3, <3>4 DEF SendCheck, MacInv, MacTypeOK
  <2>5. ASSUME NEW t \in Threads, NEW ok \in BOOLEAN, UplinkLink(t, ok)
        PROVE  MacInv'
    <3>1. /\ every_uplink' \in Uplinks /\ every_uplink'[t].held = every_uplink[t].held
          /\ link_check_mode = "every" => every_uplink'[t].asked
          /\ \A u \in Threads \ {t} : every_uplink'[u] = every_uplink[u]
      BY <2>0, <2>5, AskedSet
    <3>2. UNCHANGED <<arg, link_check_mode, device_time_enabled, refused>> /\ pc' = [pc EXCEPT ![t] = "uplink_time"] /\ pc[t] = "uplink_link"
      BY <2>5 DEF UplinkLink, Goto
    <3>3. MacTypeOK'
      BY <2>0, <2>5 DEF UplinkLink, usp_request, MacTypeOK
    <3>4. OncePending => OncePending'
      BY <2>0, <3>2 DEF OncePending
    <3>5. ASSUME NEW u \in Threads PROVE UplinkFollows(u)'
      BY <2>0, <3>1, <3>2 DEF UplinkFollows, MacInv
    <3> QED BY <3>1, <3>2, <3>3, <3>4, <3>5 DEF MacInv
  <2>6. ASSUME NEW t \in Threads, Uplink(t)
        PROVE  MacInv'
    <3>1. /\ UNCHANGED <<arg, link_check_mode, device_time_enabled, requests, refused>>
          /\ pc' = [pc EXCEPT ![t] = Idle] /\ pc[t] = "uplink"
          /\ every_uplink' = [every_uplink EXCEPT ![t] = [held |-> FALSE, asked |-> FALSE]]
      BY <2>6 DEF Uplink, Goto
    <3>2. OncePending => OncePending'
      BY <2>0, <3>1 DEF OncePending
    <3>3. ASSUME NEW u \in Threads PROVE UplinkFollows(u)'
      BY <2>0, <3>1 DEF UplinkFollows, MacInv, Idle
    <3>4. every_uplink' \in Uplinks
      BY <2>0, <3>1
    <3> QED BY <3>1, <3>2, <3>3, <3>4 DEF MacInv, MacTypeOK
  <2>7. ASSUME NEW t \in Threads,
               \/ \E b \in BOOLEAN : RequestDeviceTime(t, b)
               \/ \E ok \in BOOLEAN : TimeTrig(t, ok) \/ UplinkTime(t, ok)
        PROVE  MacInv'
    <3>1. UNCHANGED <<link_check_mode, refused, every_uplink>> /\ requests' \subseteq {"link", "time"}
      BY <2>0, <2>7 DEF RequestDeviceTime, TimeTrig, UplinkTime, usp_request, MacTypeOK
    <3>2. device_time_enabled' \in BOOLEAN
      BY <2>0, <2>7 DEF RequestDeviceTime, TimeTrig, UplinkTime, MacTypeOK
    <3>3. \A u \in Threads :
             \/ pc'[u] = pc[u] /\ arg'[u] = arg[u]
             \/ pc[u] \in {Idle, "time_trig"} /\ pc'[u] \in {Idle, "time_trig"}
             \/ pc[u] = "uplink_time" /\ pc'[u] = "uplink"
      BY <2>0, <2>7 DEF RequestDeviceTime, TimeTrig, UplinkTime, Begin, Stay, Goto, GotoWith
    <3>4. OncePending => OncePending'
      BY <3>3 DEF OncePending, Idle
    <3>5. ASSUME NEW u \in Threads PROVE UplinkFollows(u)'
      BY <3>1, <3>3 DEF UplinkFollows, MacInv, Idle
    <3> QED BY <3>1, <3>2, <3>4, <3>5 DEF MacInv, MacTypeOK
  <2>8. CASE RequestsSent
    BY <2>8, MacKept, StayKeeps DEF RequestsSent, Event, thread
  <2> QED BY <1>1, <2>1, <2>2, <2>3, <2>4, <2>5, <2>6, <2>7, <2>8 DEF MacNext
<1>2. requests \subseteq {"link", "time"} /\ CallTypeOK
  BY DEF MacInv, MacTypeOK, CallInv
<1>3. CASE (ChannelsNext \/ InfoNext \/ LinkNext) /\ UNCHANGED macVars
  BY <1>2, <1>3, ChannelsKeep, InfoKeep, LinkKeep, MacKept DEF macVars
<1>4. CASE UNCHANGED <<macVars, pc, arg>>
  BY <1>2, <1>4, StayKeeps, MacKept DEF macVars
<1>5. CASE \/ \E t \in Threads : LeaveNetwork(t)
           \/ \E ok \in BOOLEAN : ModemReset(ok)
  BY <1>5, StayKeeps, MacKept DEF LeaveNetwork, ModemReset, MacSessionEnds, Stay, Event, thread
<1>6. CASE Reboot
  <2>1. link_check_mode' = "disabled" /\ requests' = {} /\ every_uplink' = [t \in Threads |-> [held |-> FALSE, asked |-> FALSE]]
    BY <1>6 DEF Reboot, MacReboot
  <2>2. device_time_enabled' \in BOOLEAN /\ refused' \in BOOLEAN
    BY <1>6, Zenon DEF Reboot, MacReboot
  <2>3. MacTypeOK'
    BY <2>1, <2>2 DEF MacTypeOK, AllLinkModes
  <2> QED BY <2>1, <2>3 DEF MacInv, UplinkFollows
<1> QED
  BY <1>1, <1>3, <1>4, <1>5, <1>6, McStays
  DEF Next, vars, callVars, ServiceStart, Start, ModemReady, thread

LEMMA MacStarts ==
    ASSUME Init
    PROVE  MacInv
<1>1. link_check_mode = "disabled" /\ requests = {} /\ every_uplink = [t \in Threads |-> [held |-> FALSE, asked |-> FALSE]]
  BY DEF Init, MacInit
<1>2. device_time_enabled \in BOOLEAN /\ refused \in BOOLEAN
  BY Zenon DEF Init, MacInit
<1>3. MacTypeOK
  BY <1>1, <1>2 DEF MacTypeOK, AllLinkModes
<1> QED BY <1>1, <1>3 DEF MacInv, UplinkFollows

\* A one-time link check does not stay unless the modem refused it, and a repeated one goes out
\* with every uplink, although rzi_lorawan_request_link_check() and
\* rzi_lorawan_mac_commands_on_uplink() share the mode without a lock: for any number of threads.
THEOREM RequestsAreKept == Spec => []RequestsKept
<1>1. Init => CallInv /\ MacInv
  BY CallStarts, MacStarts
<1>2. CallInv /\ MacInv /\ [Next]_vars => CallInv' /\ MacInv'
  BY CallStep, MacStep
<1>3. CallInv /\ MacInv => RequestsKept
  <2>1. CallInv /\ MacInv => OnceEnds
    BY DEF MacInv, OncePending, OnceEnds, Idle
  <2>2. CallInv /\ MacInv => UplinkAsks
    BY DEF MacInv, UplinkFollows, UplinkAsks
  <2> QED BY <2>1, <2>2 DEF CallInv, MacInv, RequestsKept
<1> QED BY <1>1, <1>2, <1>3, PTL DEF Spec

-----------------------------------------------------------------------------
(* Multicast.  What the modem runs is in the table, and the table holds as *)
(* many sessions of an address as were added and not removed.              *)

Listed(a) == {g \in McGroups : multicast[g].addr = a}

McInv ==
    /\ McTypeOK
    /\ NoHiddenSession
    /\ DOMAIN held = Addrs
    /\ \A a \in Addrs : held[a] = Cardinality(Listed(a))

LEMMA FreeHasNoAddr == Free.addr = "none" /\ Free.class = "none" /\ \A s \in Sessions : s.addr \in Addrs /\ s.class \in McClasses
BY DEF Free, Sessions

\* An empty table holds nothing.
LEMMA EmptyTable ==
    ASSUME multicast' = [g \in McGroups |-> Free], running' = [g \in McGroups |-> Free],
           held' = [a \in Addrs |-> 0]
    PROVE  McInv'
<1> USE FreeHasNoAddr, MulticastAssumption
<1>1. ASSUME NEW a \in Addrs PROVE held'[a] = Cardinality(Listed(a)')
  <2>1. Listed(a)' = {}
    BY DEF Listed
  <2> QED BY <2>1, FS_EmptySet
<1> QED BY <1>1 DEF McInv, McTypeOK, NoHiddenSession

\* A step that only stops sessions.
LEMMA McStops ==
    ASSUME McInv, UNCHANGED <<multicast, held>>, running' \in [McGroups -> Sessions \cup {Free}],
           \A g \in McGroups : running'[g] \in {Free, running[g]}
    PROVE  McInv'
BY DEF McInv, McTypeOK, NoHiddenSession, Listed

LEMMA McStep ==
    ASSUME McInv, [Next]_vars
    PROVE  McInv'
<1> USE FreeHasNoAddr, MulticastAssumption
<1>0. \A a : IsFiniteSet(Listed(a))
  BY FS_Subset DEF Listed
<1>1. CASE McNext
  <2>1. ASSUME NEW t \in Threads, NEW s \in Sessions, NEW requested \in McGroups \cup {Allocate}, Add(t, s, requested)
        PROVE  McInv'
    <3>1. PICK g \in allocate_group(requested) : /\ running' = [running EXCEPT ![g] = s]
                                                 /\ multicast' = [multicast EXCEPT ![g] = s]
      BY <2>1 DEF Add
    <3>2. g \in McGroups /\ multicast[g] = Free
      BY DEF allocate_group
    <3>3. held' = [held EXCEPT ![s.addr] = @ + 1]
      BY <2>1 DEF Add
    <3>4. McTypeOK' /\ NoHiddenSession'
      BY <3>1, <3>2 DEF McInv, McTypeOK, NoHiddenSession
    <3>5. ASSUME NEW a \in Addrs PROVE held'[a] = Cardinality(Listed(a)')
      <4>1. CASE a = s.addr
        <5>1. Listed(a)' = Listed(a) \cup {g} /\ g \notin Listed(a)
          BY <3>1, <3>2, <4>1 DEF Listed, McInv, McTypeOK
        <5>2. Cardinality(Listed(a) \cup {g}) = Cardinality(Listed(a)) + 1
          BY <1>0, <5>1, FS_AddElement
        <5> QED BY <3>3, <4>1, <5>1, <5>2 DEF McInv
      <4>2. CASE a # s.addr
        <5>1. Listed(a)' = Listed(a)
          BY <3>1, <3>2, <4>2 DEF Listed, McInv, McTypeOK
        <5> QED BY <3>3, <4>2, <5>1 DEF McInv
      <4> QED BY <4>1, <4>2
    <3> QED BY <3>3, <3>4, <3>5 DEF McInv
  <2>2. ASSUME NEW t \in Threads, NEW a \in Addrs, NEW ok \in BOOLEAN, Remove(t, a, ok)
        PROVE  McInv'
    <3>1. CASE ~ok
      BY <2>2, <3>1, McStops DEF Remove, McInv, McTypeOK
    <3>2. CASE ok
      <4>1. PICK g \in Found(a) : /\ running' = [running EXCEPT ![g] = Free]
                                  /\ multicast' = [multicast EXCEPT ![g] = Free]
        BY <2>2, <3>2 DEF Remove
      <4>2. g \in McGroups /\ multicast[g].addr = a
        BY DEF Found
      <4>3. held' = [held EXCEPT ![a] = @ - 1]
        BY <2>2, <3>2 DEF Remove
      <4>4. McTypeOK' /\ NoHiddenSession'
        BY <4>1, <4>2 DEF McInv, McTypeOK, NoHiddenSession
      <4>5. ASSUME NEW b \in Addrs PROVE held'[b] = Cardinality(Listed(b)')
        <5>1. CASE b = a
          <6>1. Listed(b)' = Listed(b) \ {g} /\ g \in Listed(b)
            BY <4>1, <4>2, <5>1 DEF Listed, McInv, McTypeOK
          <6>2. Cardinality(Listed(b) \ {g}) = Cardinality(Listed(b)) - 1
            BY <1>0, <6>1, FS_RemoveElement
          <6> QED BY <4>3, <5>1, <6>1, <6>2 DEF McInv
        <5>2. CASE b # a
          <6>1. Listed(b)' = Listed(b)
            BY <4>1, <4>2, <5>2 DEF Listed, McInv, McTypeOK
          <6> QED BY <4>3, <5>2, <6>1 DEF McInv
        <5> QED BY <5>1, <5>2
      <4> QED BY <4>3, <4>4, <4>5 DEF McInv
    <3> QED BY <3>1, <3>2
  <2>3. ASSUME NEW t \in Threads, NEW c_ok \in BOOLEAN, NEW b_ok \in BOOLEAN, Clear(t, c_ok, b_ok)
        PROVE  McInv'
    <3>1. CASE c_ok /\ b_ok
      <4>1. running' = [g \in McGroups |-> Free]
        BY <2>3, <3>1 DEF Clear, Stopped, McInv, McTypeOK
      <4>2. multicast' = [g \in McGroups |-> Free] /\ held' = [a \in Addrs |-> 0]
        BY <2>3, <3>1 DEF Clear
      <4> QED BY <4>1, <4>2, EmptyTable
    <3>2. CASE ~(c_ok /\ b_ok)
      <4>1. UNCHANGED <<multicast, held>>
        BY <2>3, <3>2 DEF Clear
      <4>2. /\ running' \in [McGroups -> Sessions \cup {Free}]
            /\ \A g \in McGroups : running'[g] \in {Free, running[g]}
        BY <2>3 DEF Clear, Stopped, McInv, McTypeOK
      <4> QED BY <4>1, <4>2, McStops
    <3> QED BY <3>1, <3>2
  <2> QED BY <1>1, <2>1, <2>2, <2>3 DEF McNext
<1>2. CASE UNCHANGED mcVars
  BY <1>2, McStops DEF mcVars, McInv, McTypeOK
<1>3. CASE McSessionEnds
  BY <1>3, McStops DEF McSessionEnds, McInv, McTypeOK
<1>4. CASE McReboot
  BY <1>4, EmptyTable DEF McReboot
<1> QED BY <1>1, <1>2, <1>3, <1>4 DEF Next, vars, ServiceStart, LeaveNetwork, ModemReset, Reboot

LEMMA McStarts ==
    ASSUME Init
    PROVE  McInv
<1> USE FreeHasNoAddr, MulticastAssumption
<1>1. ASSUME NEW a \in Addrs PROVE held[a] = Cardinality(Listed(a))
  <2>1. Listed(a) = {}
    BY DEF Init, McInit, Listed
  <2> QED BY <2>1, FS_EmptySet DEF Init, McInit
<1> QED BY <1>1 DEF Init, McInit, McInv, McTypeOK, NoHiddenSession

\* What the modem runs of an address is among what the table holds of it.
LEMMA McQuiet ==
    ASSUME McInv
    PROVE  RemovedIsQuiet
<1> SUFFICES ASSUME NEW a \in Addrs
             PROVE  Cardinality({g \in McGroups : running[g].addr = a}) <= held[a]
  BY DEF RemovedIsQuiet
<1>1. {g \in McGroups : running[g].addr = a} \subseteq Listed(a)
  BY FreeHasNoAddr, MulticastAssumption DEF Listed, McInv, NoHiddenSession
<1>2. IsFiniteSet(Listed(a))
  BY FS_Subset, MulticastAssumption DEF Listed
<1> QED BY <1>1, <1>2, FS_Subset DEF McInv

LEMMA McHolds == Spec => []McInv
<1>1. McInv /\ [Next]_vars => McInv'
  BY McStep
<1> QED BY <1>1, McStarts, PTL DEF Spec

\* The modem runs no multicast session that the table does not hold, whatever removes and clears
\* fail half way (usp_multicast_remove(), usp_multicast_clear()), and no more sessions of an
\* address than were added and not removed: for any threads, groups and addresses, and for
\* clients that add one address several times too.
THEOREM SessionsAreKept == Spec => []SessionsKept
<1>1. McInv => SessionsKept
  BY McQuiet DEF McInv, SessionsKept
<1> QED BY <1>1, McHolds, PTL

-----------------------------------------------------------------------------
(* The identity.  A read under way has seen what is current, and one that  *)
(* has found a session has seen what the modem holds, so that it may       *)
(* answer from either.  This needs a backend without ABP, as USP is: a     *)
(* change to ABP and back would bring the modem's identity unseen.         *)

Reads == [what : Whats, seen : SUBSET Int, value : Int]

SessionIdentity == IF joined THEN identity ELSE Unset

ReadFollows(t) ==
    /\ reads[t].value # NoValue => reads[t].value \in reads[t].seen
    /\ pc[t] \in InfoPlaces => njm = "OTAA" /\ reads[t].value = NoValue /\ SessionIdentity \in reads[t].seen
    /\ pc[t] = "id_read" => identity \in reads[t].seen

InfoInv ==
    /\ njm \in {"OTAA", "ABP"}
    /\ abp \in [Whats -> StoredIdentities \cup {Unset}] /\ identity \in 0..MaxEvents
    /\ reads \in [Threads -> Reads]
    /\ \A t \in Threads : ReadFollows(t)

LEMMA CurrentType ==
    ASSUME InfoInv, NEW what \in Whats
    PROVE  Current(what) \in Int /\ (njm = "OTAA" => Current(what) = SessionIdentity)
<1>1. abp[what] \in Int
  <2>1. abp[what] \in StoredIdentities \cup {Unset}
    BY DEF InfoInv
  <2>2. \A v \in StoredIdentities : v \in Int
    BY InfoAssumption
  <2> QED BY <2>1, <2>2 DEF Unset
<1>2. identity \in Int /\ Unset \in Int
  BY CallAssumption DEF InfoInv, Unset
<1> QED BY <1>1, <1>2 DEF Current, SessionIdentity

\* A step that changes the session or the identity is seen by the reads under way.
LEMMA WatchStep ==
    ASSUME InfoInv, Watch, Keeps(InfoPlaces), DOMAIN pc = Threads,
           njm' \in {njm, "OTAA"}, abp' \in [Whats -> StoredIdentities \cup {Unset}],
           identity' \in 0..MaxEvents, identity' \in {identity, SessionIdentity'}
    PROVE  InfoInv'
<1>0. \A t \in Threads : reads[t] \in Reads
  BY DEF InfoInv
<1>1. ASSUME NEW t \in Threads, pc[t] \notin InfoPlaces
      PROVE  reads'[t] = reads[t]
  BY <1>1 DEF Watch, InfoPlaces
<1>2. ASSUME NEW t \in Threads, pc[t] \in InfoPlaces
      PROVE  /\ njm' = "OTAA" /\ reads'[t].what = reads[t].what /\ reads'[t].value = reads[t].value
             /\ reads'[t].seen = reads[t].seen \cup {SessionIdentity'}
             /\ reads'[t] \in Reads
  <2>1. njm' = "OTAA"
    BY <1>2 DEF InfoInv, ReadFollows
  <2>2. Current(reads[t].what)' = SessionIdentity'
    BY <2>1 DEF Current, SessionIdentity
  <2>3. reads'[t] = [reads[t] EXCEPT !.seen = @ \cup {SessionIdentity'}]
    BY <1>2, <2>2 DEF Watch, InfoPlaces
  <2>4. SessionIdentity' \in Int
    BY CallAssumption DEF SessionIdentity, Unset
  <2> QED BY <1>0, <2>1, <2>3, <2>4 DEF Reads
<1>3. reads' \in [Threads -> Reads]
  <2>1. reads' = [t \in Threads |-> reads'[t]]
    BY DEF Watch
  <2> QED BY <1>0, <1>1, <1>2, <2>1
<1>4. ASSUME NEW t \in Threads PROVE ReadFollows(t)'
  <2>1. CASE pc[t] \notin InfoPlaces
    <3>1. pc'[t] \notin InfoPlaces
      BY <2>1 DEF Keeps
    <3> QED BY <1>1, <2>1, <3>1 DEF ReadFollows, InfoInv, InfoPlaces
  <2>2. CASE pc[t] \in InfoPlaces
    <3>1. pc'[t] = pc[t]
      BY <2>2 DEF Keeps
    <3> QED BY <1>2, <2>2, <3>1 DEF ReadFollows, InfoInv, InfoPlaces
  <2> QED BY <2>1, <2>2
<1>5. njm' \in {"OTAA", "ABP"}
  BY DEF InfoInv
<1> QED BY <1>3, <1>4, <1>5 DEF InfoInv

\* A step that leaves the identity and the session alone.
LEMMA InfoKept ==
    ASSUME InfoInv, UNCHANGED <<infoVars, njm, joined>>, Keeps(InfoPlaces)
    PROVE  InfoInv'
<1>1. ASSUME NEW t \in Threads PROVE ReadFollows(t)'
  BY DEF ReadFollows, InfoInv, Keeps, InfoPlaces, infoVars, SessionIdentity
<1> QED BY <1>1 DEF InfoInv, infoVars

\* Thread t answers v.
LEMMA AnswerStep ==
    ASSUME InfoInv, CallTypeOK, NEW t \in Threads, NEW v \in Int, Answer(t, v), v # NoValue => v \in reads[t].seen,
           UNCHANGED <<abp, identity, njm, joined>>
    PROVE  InfoInv'
<1>1. reads' \in [Threads -> Reads] /\ reads'[t].value = v /\ reads'[t].seen = reads[t].seen
  BY DEF Answer, InfoInv, Reads
<1>2. \A u \in Threads \ {t} : reads'[u] = reads[u]
  BY DEF Answer, InfoInv
<1>3. pc'[t] = Idle /\ \A u \in Threads \ {t} : pc'[u] = pc[u]
  BY DEF Answer, Goto, CallTypeOK
<1>4. ASSUME NEW u \in Threads PROVE ReadFollows(u)'
  BY <1>1, <1>2, <1>3 DEF ReadFollows, InfoInv, InfoPlaces, Idle, SessionIdentity
<1> QED BY <1>1, <1>4 DEF InfoInv

LEMMA InfoStep ==
    ASSUME "ABP" \notin Activations, CallInv, CallInv', InfoInv, [Next]_vars
    PROVE  InfoInv'
<1> USE CallAssumption
<1>0. CallTypeOK /\ DOMAIN pc = Threads /\ events' \in 0..MaxEvents
  BY DEF CallInv, CallTypeOK
<1>1. CASE ChannelsNext /\ IdentityFollows
  <2>1. njm' \in {njm, "OTAA"}
    <3>1. CASE \E t \in Threads, mode \in {"OTAA", "ABP"} : SetActivation(t, mode)
      BY <3>1 DEF SetActivation, rzi_lorawan_set_activation, activation_supported
    <3>2. CASE ~\E t \in Threads, mode \in {"OTAA", "ABP"} : SetActivation(t, mode)
      BY <1>1, <3>2 DEF ChannelsNext, SetRegion, SetMask, SetChe, SetFixedChannel, SetSubBand, SetRaw,
         set_channel_mask, JoinBuild, JoinClaim, UspJoin, JoinAccept, JoinedEvent, JoinEnd, channelVars, stored
    <3> QED BY <3>1, <3>2
  <2>2. identity' \in 0..MaxEvents /\ identity' \in {identity, SessionIdentity'}
    BY <1>0, <1>1 DEF IdentityFollows, SessionIdentity, InfoInv
  <2>3. abp' \in [Whats -> StoredIdentities \cup {Unset}]
    BY <1>1 DEF IdentityFollows, InfoInv
  <2> QED BY <1>0, <1>1, <2>1, <2>2, <2>3, ChannelsKeep, WatchStep DEF IdentityFollows
<1>2. CASE UNCHANGED <<channelVars, linkVars, macVars, mcVars>> /\ InfoNext
  <2>0. UNCHANGED njm
    BY <1>2 DEF channelVars
  <2>1. ASSUME NEW t \in Threads, NEW what \in Whats, ReadIdentity(t, what)
        PROVE  InfoInv'
    <3> DEFINE v == IF njm = "ABP" THEN abp[what] ELSE NoValue
    <3>1. reads' = [reads EXCEPT ![t] = [what |-> what, seen |-> {Current(what)}, value |-> v]]
          /\ UNCHANGED <<abp, identity, joined>>
      BY <2>1 DEF ReadIdentity, session
    <3>2. Current(what) \in Int /\ (njm = "OTAA" => Current(what) = SessionIdentity)
      BY CurrentType
    <3>3. v \in Int /\ (njm = "ABP" => v = Current(what)) /\ (njm # "ABP" => v = NoValue)
      BY <3>2 DEF NoValue, Current
    <3> HIDE DEF v
    <3>4. reads' \in [Threads -> Reads] /\ reads'[t].value = v /\ reads'[t].seen = {Current(what)}
      BY <3>1, <3>2, <3>3 DEF Reads, InfoInv
    <3>5. \A u \in Threads \ {t} : reads'[u] = reads[u]
      BY <3>1 DEF InfoInv
    <3>6. /\ pc'[t] = IF njm = "ABP" THEN Idle ELSE "id_joined"
          /\ \A u \in Threads \ {t} : pc'[u] = pc[u]
      BY <1>0, <2>1 DEF ReadIdentity, Begin, Stay, GotoWith
    <3>7. ReadFollows(t)'
      BY <2>0, <3>1, <3>2, <3>3, <3>4, <3>6 DEF ReadFollows, InfoPlaces, InfoInv, Idle, SessionIdentity
    <3>8. ASSUME NEW u \in Threads \ {t} PROVE ReadFollows(u)'
      BY <2>0, <3>1, <3>5, <3>6 DEF ReadFollows, InfoPlaces, InfoInv, SessionIdentity
    <3> QED BY <2>0, <3>1, <3>4, <3>7, <3>8 DEF InfoInv
  <2>2. ASSUME NEW t \in Threads, NEW what \in Whats, NEW v \in StoredIdentities, SetIdentity(t, what, v)
        PROVE  InfoInv'
    <3>1. abp' \in [Whats -> StoredIdentities \cup {Unset}] /\ UNCHANGED <<identity, pc, arg>> /\ Watch
      BY <2>2 DEF SetIdentity, Stay, InfoInv
    <3>2. identity' \in 0..MaxEvents /\ identity' \in {identity, SessionIdentity'}
      BY <3>1 DEF InfoInv
    <3> QED BY <1>0, <2>0, <3>1, <3>2, WatchStep, StayKeeps
  <2>3. ASSUME NEW t \in Threads, SessionJoined(t)
        PROVE  InfoInv'
    <3>0. pc[t] = "id_joined" /\ UNCHANGED <<abp, identity, joined>> /\ SessionIdentity \in reads[t].seen
      BY <2>3 DEF SessionJoined, session, InfoInv, ReadFollows, InfoPlaces
    <3>1. CASE ready /\ joined
      <4>1. UNCHANGED infoVars /\ pc' = [pc EXCEPT ![t] = "id_read"]
        BY <2>3, <3>1 DEF SessionJoined, Goto, infoVars
      <4>2. identity \in reads[t].seen
        BY <3>0, <3>1 DEF SessionIdentity
      <4>3. ASSUME NEW u \in Threads PROVE ReadFollows(u)'
        BY <1>0, <2>0, <3>0, <4>1, <4>2 DEF ReadFollows, InfoPlaces, InfoInv, SessionIdentity, infoVars
      <4> QED BY <2>0, <4>1, <4>3 DEF InfoInv, infoVars
    <3>2. CASE ~(ready /\ joined)
      <4> DEFINE v == IF started /\ ~ready THEN NoValue ELSE Unset
      <4>1. Answer(t, v)
        BY <2>3, <3>2 DEF SessionJoined
      <4>2. v \in Int /\ (v # NoValue => v \in reads[t].seen)
        BY <3>0, <3>2 DEF SessionIdentity, CallInv, NoValue, Unset
      <4> HIDE DEF v
      <4> QED BY <1>0, <2>0, <3>0, <4>1, <4>2, AnswerStep
    <3> QED BY <3>1, <3>2
  <2>4. ASSUME NEW t \in Threads, NEW exported \in BOOLEAN, ReadModem(t, exported)
        PROVE  InfoInv'
    <3> DEFINE v == IF ready /\ exported THEN identity ELSE NoValue
    <3>1. Answer(t, v) /\ UNCHANGED <<abp, identity, joined>>
      BY <2>4 DEF ReadModem, session
    <3>2. v \in Int /\ (v # NoValue => v \in reads[t].seen)
      BY <2>4 DEF ReadModem, InfoInv, ReadFollows, NoValue
    <3> HIDE DEF v
    <3> QED BY <1>0, <2>0, <3>1, <3>2, AnswerStep
  <2> QED BY <1>2, <2>1, <2>2, <2>3, <2>4 DEF InfoNext, rzi_lorawan_get_dev_addr, rzi_lorawan_get_session_key, Whats
<1>3. CASE (LinkNext \/ MacNext) /\ UNCHANGED <<channelVars, infoVars>>
  <2>1. UNCHANGED joined
    BY <1>0, <1>3, OtherParts DEF session
  <2> QED BY <1>0, <1>3, <2>1, LinkKeep, MacKeep, InfoKept DEF channelVars
<1>4. CASE UNCHANGED <<pc, arg, joined, channelVars, infoVars>>
  BY <1>4, StayKeeps, InfoKept DEF channelVars
<1>5. CASE \/ \E t \in Threads : LeaveNetwork(t)
           \/ \E ok \in BOOLEAN : ModemReset(ok)
  <2>1. UNCHANGED <<pc, arg, njm, abp>> /\ Watch /\ ~joined'
    BY <1>5 DEF LeaveNetwork, ModemReset, Stay, Event, thread, channelVars, IdentityFollows, IdentityLost
  <2>2. identity' \in 0..MaxEvents /\ identity' \in {identity, SessionIdentity'}
    BY <1>5 DEF LeaveNetwork, ModemReset, IdentityFollows, IdentityLost, SessionIdentity, InfoInv, Unset
  <2> QED BY <1>0, <2>1, <2>2, WatchStep, StayKeeps DEF InfoInv
<1>6. CASE Reboot
  <2>1. /\ UNCHANGED <<njm, abp>> /\ identity' = Unset
        /\ reads' = [t \in Threads |-> NoRead] /\ \A t \in Threads : pc'[t] = Idle
    BY <1>6 DEF Reboot, ChannelsReboot, InfoReboot
  <2>2. NoRead \in Reads /\ NoRead.value = NoValue
    BY DEF NoRead, Reads, Whats, NoValue
  <2>3. ASSUME NEW t \in Threads PROVE ReadFollows(t)'
    BY <2>1, <2>2 DEF ReadFollows, InfoPlaces, Idle
  <2> QED BY <2>1, <2>2, <2>3 DEF InfoInv, Unset
<1> QED
  BY <1>1, <1>2, <1>3, <1>4, <1>5, <1>6, McStays
  DEF Next, vars, callVars, session, ServiceStart, Start, ModemReady, thread

LEMMA InfoStarts ==
    ASSUME Init
    PROVE  InfoInv
<1>1. NoRead \in Reads /\ NoRead.value = NoValue
  BY DEF NoRead, Reads, Whats, NoValue
<1>2. ASSUME NEW t \in Threads PROVE ReadFollows(t)
  BY <1>1 DEF Init, CallInit, InfoInit, ReadFollows, InfoPlaces, Idle
<1> QED BY <1>1, <1>2, CallAssumption DEF Init, ChannelsInit, InfoInit, InfoInv, Unset

\* A read of the device address or of a session key (rzi_lorawan_get_dev_addr(),
\* rzi_lorawan_get_session_key()) answers what was current at some moment of the call, for any
\* number of threads and joins, on a backend without ABP.
THEOREM IdentityIsCurrent ==
    ASSUME "ABP" \notin Activations
    PROVE  Spec => []IdentityReads
<1>1. Init => CallInv /\ InfoInv
  BY CallStarts, InfoStarts
<1>2. CallInv /\ InfoInv /\ [Next]_vars => CallInv' /\ InfoInv'
  BY CallStep, InfoStep
<1>3. InfoInv => IdentityReads
  BY DEF InfoInv, Reads, ReadFollows, IdentityReads, InfoTypeOK
<1> QED BY <1>1, <1>2, <1>3, PTL DEF Spec

-----------------------------------------------------------------------------
(* The channel plan: what each view of the mask stores is what it reads.   *)

LEMMA GroupsAreNine == Groups = Blocks \cup {WideGroup} /\ WideGroup \notin Blocks /\ \A g \in Groups : g \in Int
BY DEF Groups, Blocks, WideGroup

\* The first channel of a group is in no other group.
LEMMA GroupFirst ==
    ASSUME NEW g \in Groups
    PROVE  8 * g \in Group(g) /\ \A h \in Groups : 8 * g \in Group(h) => h = g
BY DEF Groups, Group, Channels

\* store_mask() and read_mask() fold every channel into the empty mask and back.
LEMMA StoredMask ==
    ASSUME NEW mask, mask # {}
    PROVE  read_mask(store_mask(mask)) = mask /\ store_mask(mask) # Channels
<1>1. Channels # {}
  <2>1. 0 \in Channels
    BY DEF Channels
  <2> QED BY <2>1
<1> QED BY <1>1 DEF store_mask, read_mask

LEMMA MaskMembers ==
    ASSUME NEW V \in SUBSET Groups, V # {}, NEW c
    PROVE  c \in handle_mask(V) <=> \E g \in V : c \in Group(g) \/ (g # WideGroup /\ c = Wide + g)
BY DEF handle_mask, MaskBit

\* AT+MASK
LEMMA MaskReadsBack ==
    ASSUME NEW V \in SUBSET Groups
    PROVE  /\ handle_mask(V) # {} /\ handle_mask(V) \subseteq Channels
           /\ read_groups(handle_mask(V)) = IF V \in {{}, Blocks} THEN Groups ELSE V
<1> DEFINE W == IF V = {} THEN Groups ELSE V
<1>1. handle_mask(V) = handle_mask(W) /\ W \in SUBSET Groups /\ W # {}
  BY GroupsAreNine DEF handle_mask
<1> HIDE DEF W
<1> DEFINE mask == handle_mask(W)
<1>2. \A c : c \in mask <=> \E g \in W : c \in Group(g) \/ (g # WideGroup /\ c = Wide + g)
  BY <1>1, MaskMembers
<1> HIDE DEF mask
<1>3. mask \subseteq Channels
  BY <1>1, <1>2 DEF Group, Channels, Wide, WideGroup, Groups
<1>4. ASSUME NEW g \in W PROVE Group(g) \subseteq mask
  BY <1>2
<1>5. ASSUME NEW g \in Blocks, Group(g) \subseteq mask PROVE g \in W
  <2>1. g \in Groups /\ 8 * g \in mask /\ 8 * g < 64
    BY <1>5, GroupFirst, GroupsAreNine DEF Blocks
  <2>2. PICK h \in W : 8 * g \in Group(h) \/ (h # WideGroup /\ 8 * g = Wide + h)
    BY <1>2, <2>1
  <2>3. 8 * g # Wide + h
    BY <1>1, <2>1 DEF Wide, Groups
  <2> QED BY <1>1, <2>1, <2>2, <2>3, GroupFirst
<1>6. ASSUME WideGroup \notin W, Group(WideGroup) \subseteq mask PROVE Blocks \subseteq W
  <2> SUFFICES ASSUME NEW g \in Blocks PROVE g \in W
    OBVIOUS
  <2>1. Wide + g \in Group(WideGroup)
    BY DEF Wide, WideGroup, Blocks, Group, Channels
  <2>2. PICK h \in W : Wide + g \in Group(h) \/ (h # WideGroup /\ Wide + g = Wide + h)
    BY <1>2, <1>6, <2>1
  <2>3. Wide + g \notin Group(h)
    BY <1>1, <1>6 DEF Wide, WideGroup, Blocks, Group, Groups
  <2> QED BY <1>1, <2>2, <2>3 DEF Wide, Groups, Blocks
<1>7. ASSUME Blocks \subseteq W PROVE Group(WideGroup) \subseteq mask
  <2> SUFFICES ASSUME NEW c \in Group(WideGroup) PROVE c \in mask
    OBVIOUS
  <2>1. c - Wide \in Blocks /\ c = Wide + (c - Wide) /\ c - Wide # WideGroup
    BY DEF Group, Channels, Wide, WideGroup, Blocks
  <2> QED BY <1>2, <1>7, <2>1
<1>8. {g \in Groups : Group(g) \subseteq mask} = IF Blocks \subseteq W THEN Groups ELSE W
  BY <1>1, <1>4, <1>5, <1>6, <1>7, GroupsAreNine
<1>9. read_groups(mask) = IF Blocks \subseteq W THEN Groups ELSE W
  BY <1>1, <1>8, GroupsAreNine DEF read_groups
<1>10. Blocks \subseteq W => W = Blocks \/ W = Groups
  BY <1>1, GroupsAreNine
<1>11. Blocks # {}
  BY DEF Blocks
<1>12. mask # {}
  BY <1>1, <1>4, GroupFirst
<1> QED BY <1>1, <1>3, <1>9, <1>10, <1>11, <1>12 DEF mask, W

\* AT+CHE
LEMMA CheReadsBack ==
    ASSUME NEW N \in SUBSET Groups, N # {}
    PROVE  handle_che(N) # {} /\ handle_che(N) \subseteq Channels /\ read_groups(handle_che(N)) = N
<1> DEFINE mask == handle_che(N)
<1>1. \A c : c \in mask <=> \E g \in N : c \in Group(g)
  BY DEF handle_che
<1> HIDE DEF mask
<1>2. {g \in Groups : Group(g) \subseteq mask} = N
  <2>1. ASSUME NEW g \in Groups, Group(g) \subseteq mask PROVE g \in N
    BY <1>1, <2>1, GroupFirst
  <2> QED BY <1>1, <2>1
<1>3. read_groups(mask) = N
  BY <1>2 DEF read_groups
<1>4. mask # {} /\ mask \subseteq Channels
  BY <1>1, GroupFirst DEF Group
<1> QED BY <1>3, <1>4 DEF mask

\* The sub-bands
LEMMA SubBandReadsBack ==
    ASSUME NEW b \in SubBands
    PROVE  /\ sub_band_channels(b) # {} /\ sub_band_channels(b) \subseteq Channels
           /\ get_sub_band(sub_band_channels(b)) = b
<1>1. /\ Wide + b - 1 \in sub_band_channels(b) /\ sub_band_channels(b) \subseteq Channels
      /\ \A d \in SubBands : Wide + d - 1 \in sub_band_channels(b) => d = b
  BY DEF sub_band_channels, Group, SubBands, Wide, Channels
<1>2. sub_band_channels(b) # Channels
  <2>1. PICK d \in SubBands : d # b
    BY DEF SubBands
  <2>2. Wide + d - 1 \in Channels
    BY DEF SubBands, Wide, Channels
  <2> QED BY <1>1, <2>1, <2>2
<1>3. \A d \in SubBands : sub_band_channels(b) = sub_band_channels(d) => d = b
  <2> SUFFICES ASSUME NEW d \in SubBands, sub_band_channels(b) = sub_band_channels(d) PROVE d = b
    OBVIOUS
  <2>1. Wide + d - 1 \in sub_band_channels(d)
    BY DEF sub_band_channels
  <2> QED BY <1>1, <2>1
<1>4. (CHOOSE d \in SubBands : sub_band_channels(b) = sub_band_channels(d)) = b
  BY <1>3
<1> QED BY <1>1, <1>2, <1>4 DEF get_sub_band

\* A frequency is that of one channel at most: the 125 kHz channels are even steps above the
\* base, the 500 kHz ones odd.
LEMMA OneChannel ==
    ASSUME NEW r, NEW c \in Channels, NEW d \in Channels, channel_frequency(r, c) = channel_frequency(r, d)
    PROVE  c = d
<1> DEFINE base == NarrowBase(r)
<1>1. base \in Int
  BY DEF NarrowBase
<1> HIDE DEF base
<1>2. /\ channel_frequency(r, c) = IF c < Wide THEN base + 2 * c ELSE base + 7 + 16 * (c - Wide)
      /\ channel_frequency(r, d) = IF d < Wide THEN base + 2 * d ELSE base + 7 + 16 * (d - Wide)
  BY DEF channel_frequency, base
<1>3. c \in Int /\ d \in Int
  BY DEF Channels
<1>4. ASSUME NEW x \in Int, NEW y \in Int PROVE base + 2 * x # base + 7 + 16 * (y - 64)
  BY <1>1
<1>5. CASE c < Wide /\ d < Wide
  <2>1. base + 2 * c = base + 2 * d
    BY <1>2, <1>5
  <2> QED BY <1>1, <1>3, <2>1
<1>6. CASE ~(c < Wide) /\ ~(d < Wide)
  <2>1. base + 7 + 16 * (c - Wide) = base + 7 + 16 * (d - Wide)
    BY <1>2, <1>6
  <2> QED BY <1>1, <1>3, <2>1 DEF Wide
<1>7. CASE ~(c < Wide <=> d < Wide)
  BY <1>2, <1>3, <1>4, <1>7, ZenonT(60) DEF Wide
<1> QED BY <1>5, <1>6, <1>7

LEMMA FrequencyChannel ==
    ASSUME NEW r, NEW f, frequency_channel(r, f) # -1
    PROVE  frequency_channel(r, f) \in Channels /\ channel_frequency(r, frequency_channel(r, f)) = f
<1>1. PICK c \in Channels : channel_frequency(r, c) = f
  BY DEF frequency_channel
<1>2. ASSUME NEW d \in Channels, channel_frequency(r, d) = f PROVE c <= d
  <2>1. c = d
    BY <1>1, <1>2, OneChannel
  <2> QED BY <2>1 DEF Channels
<1> QED BY <1>1, <1>2 DEF frequency_channel

\* AT+CHS
LEMMA FixedReadsBack ==
    ASSUME NEW r, NEW c \in Channels
    PROVE  get_fixed_channel(r, {c}) = channel_frequency(r, c) /\ get_fixed_channel(r, Channels) = 0
<1>1. \A d \in Channels : {c} = {d} => d = c
  OBVIOUS
<1>2. (CHOOSE d \in Channels : {c} = {d}) = c
  BY <1>1
<1>3. \A d \in Channels : Channels # {d}
  <2>1. 0 \in Channels /\ 1 \in Channels
    BY DEF Channels
  <2> QED BY <2>1
<1> QED BY <1>2, <1>3 DEF get_fixed_channel

-----------------------------------------------------------------------------
(* The mask.  The stored mask is what the last accepted write encodes, and *)
(* a join on its way to the modem carries one that was stored since its    *)
(* call read it.                                                           *)

\* The mask that an accepted write leaves.
Encodes(mask, write) ==
    \/ /\ write.view = "mask" /\ write.value \in SUBSET Groups
       /\ mask = store_mask(handle_mask(write.value))
    \/ /\ write.view = "che" /\ write.value \in (SUBSET Groups) \ {{}}
       /\ mask = store_mask(handle_che(write.value))
    \/ /\ write.view = "chs" /\ (write.value # 0 => frequency_channel(write.region, write.value) # -1)
       /\ mask = IF write.value = 0 THEN {} ELSE {frequency_channel(write.region, write.value)}
    \/ /\ write.view = "sub_band" /\ write.value \in SubBands \cup {0}
       /\ mask = IF write.value = 0 THEN {} ELSE store_mask(sub_band_channels(write.value))
    \/ /\ write.view = "raw" /\ channel_mask_valid(write.value)
       /\ mask = store_mask(write.value)
    \/ write.view = "none" /\ mask = {}

LEMMA EncodedMask ==
    ASSUME NEW mask, NEW write, Encodes(mask, write)
    PROVE  mask \subseteq Channels /\ mask # Channels
<1>1. {} # Channels /\ \A c \in Channels : {c} # Channels
  <2>1. 0 \in Channels /\ 1 \in Channels
    BY DEF Channels
  <2> QED BY <2>1
<1>2. \A m : m # {} /\ m \subseteq Channels => store_mask(m) \subseteq Channels /\ store_mask(m) # Channels
  BY StoredMask DEF store_mask
<1>3. CASE write.view = "mask"
  BY <1>2, <1>3, MaskReadsBack DEF Encodes
<1>4. CASE write.view = "che"
  BY <1>2, <1>4, CheReadsBack DEF Encodes
<1>5. CASE write.view = "chs"
  BY <1>1, <1>5, FrequencyChannel DEF Encodes
<1>6. CASE write.view = "sub_band"
  BY <1>1, <1>2, <1>6, SubBandReadsBack DEF Encodes
<1>7. CASE write.view = "raw"
  BY <1>2, <1>7 DEF Encodes, channel_mask_valid
<1>8. CASE write.view = "none"
  BY <1>1, <1>8 DEF Encodes
<1> QED BY <1>3, <1>4, <1>5, <1>6, <1>7, <1>8 DEF Encodes

LEMMA EncodedReadsBack ==
    ASSUME Encodes(chmask, asked)
    PROVE  ReadsBack
<1>0. read_mask({}) = Channels
  BY DEF read_mask
<1>1. CASE asked.view = "mask"
  <2>1. asked.value \in SUBSET Groups /\ read_mask(chmask) = handle_mask(asked.value)
    BY <1>1, MaskReadsBack, StoredMask DEF Encodes
  <2> QED BY <1>1, <2>1, MaskReadsBack DEF ReadsBack
<1>2. CASE asked.view = "che"
  <2>1. asked.value \in SUBSET Groups /\ asked.value # {} /\ read_mask(chmask) = handle_che(asked.value)
    BY <1>2, CheReadsBack, StoredMask DEF Encodes
  <2> QED BY <1>2, <2>1, CheReadsBack DEF ReadsBack
<1>3. CASE asked.view = "chs" /\ asked.value = 0
  <2>1. read_mask(chmask) = Channels
    BY <1>0, <1>3 DEF Encodes
  <2>2. 0 \in Channels
    BY DEF Channels
  <2> QED BY <1>3, <2>1, <2>2, FixedReadsBack DEF ReadsBack
<1>4. CASE asked.view = "chs" /\ asked.value # 0
  <2> DEFINE c == frequency_channel(asked.region, asked.value)
  <2>1. c \in Channels /\ chmask = {c}
    BY <1>4, FrequencyChannel DEF Encodes
  <2> HIDE DEF c
  <2>2. read_mask(chmask) = {c}
    BY <2>1 DEF read_mask
  <2>3. get_fixed_channel(region, read_mask(chmask)) = channel_frequency(region, c)
    BY <2>1, <2>2, FixedReadsBack
  <2> QED BY <1>4, <2>3 DEF ReadsBack, c
<1>5. CASE asked.view = "sub_band"
  <2>1. CASE asked.value = 0
    BY <1>0, <1>5, <2>1 DEF Encodes, ReadsBack, get_sub_band
  <2>2. CASE asked.value # 0
    <3>1. asked.value \in SubBands /\ read_mask(chmask) = sub_band_channels(asked.value)
      BY <1>5, <2>2, SubBandReadsBack, StoredMask DEF Encodes
    <3> QED BY <1>5, <3>1, SubBandReadsBack DEF ReadsBack
  <2> QED BY <2>1, <2>2
<1>6. CASE asked.view = "raw"
  BY <1>6, StoredMask DEF Encodes, ReadsBack, channel_mask_valid
<1>7. CASE asked.view = "none"
  BY <1>0, <1>7 DEF Encodes, ReadsBack
<1> QED BY <1>1, <1>2, <1>3, <1>4, <1>5, <1>6, <1>7 DEF Encodes

\* A thread in its join call carries a mask that was stored since the call read it, as the
\* mask that is stored now was.
Carries(t) ==
    /\ arg[t] \subseteq Channels /\ chmask \in seen[t]
    /\ HasPlan(region) => arg[t] \in seen[t]

JoinFollows == join_active /\ joining /\ HasPlan(region) =>
    \/ {modem_mask, chmask} \subseteq join_seen
    \/ \E t \in Threads : pc[t] = "join"

MaskInv ==
    /\ region \in Regions /\ njm \in {"OTAA", "ABP"} /\ join_active \in BOOLEAN /\ modem_mask \subseteq Channels
    /\ chflash = chmask /\ Encodes(chmask, asked) /\ DOMAIN seen = Threads
    /\ \A t \in Threads : pc[t] \in ChannelPlaces => Carries(t)
    /\ JoinFollows

\* A write that was accepted.
LEMMA WriteStep ==
    ASSUME MaskInv, NEW t, NEW op, Begin(t, op),
           NEW mask, NEW what, set_channel_mask(mask, what), Encodes(mask, what)
    PROVE  MaskInv'
<1>1. /\ chmask' = mask /\ chflash' = mask /\ asked' = what /\ ~join_active
      /\ seen' = [u \in Threads |-> IF pc[u] \in ChannelPlaces THEN seen[u] \cup {mask} ELSE seen[u]]
      /\ UNCHANGED <<njm, region, join_active, modem_mask, joining, pc, arg, client>>
  BY DEF set_channel_mask, Stay, session, Begin, Joining, ChannelPlaces
<1>2. ASSUME NEW u \in Threads, pc'[u] \in ChannelPlaces PROVE Carries(u)'
  BY <1>1, <1>2 DEF MaskInv, Carries
<1> QED BY <1>1, <1>2 DEF MaskInv, JoinFollows

\* A step that keeps what is stored and the threads of the join.
LEMMA MaskStays ==
    ASSUME MaskInv, UNCHANGED <<njm, region, chmask, chflash, asked, history, client>>, Keeps(ChannelPlaces),
           join_active' \in BOOLEAN, modem_mask' \subseteq Channels,
           join_active' /\ joining' => join_active /\ joining /\ UNCHANGED modem_mask
    PROVE  MaskInv'
<1>1. ASSUME NEW t \in Threads, pc'[t] \in ChannelPlaces PROVE Carries(t)'
  BY <1>1 DEF Keeps, MaskInv, Carries, history
<1>2. (\E t \in Threads : pc[t] = "join") => \E t \in Threads : pc'[t] = "join"
  BY DEF Keeps, ChannelPlaces
<1>3. JoinFollows'
  BY <1>2 DEF MaskInv, JoinFollows, history
<1> QED BY <1>1, <1>3 DEF MaskInv, history

LEMMA MaskStep ==
    ASSUME CallInv, MaskInv, [Next]_vars
    PROVE  MaskInv'
<1> USE ChannelsAssumption
<1>0. DOMAIN pc = Threads /\ DOMAIN arg = Threads /\ CallTypeOK
  BY DEF CallInv, CallTypeOK
<1>1. CASE ChannelsNext
  <2>1. ASSUME NEW t \in Threads, NEW r \in BandInputs, SetRegion(t, r)
        PROVE  MaskInv'
    <3>1. /\ region' = r /\ ~started
          /\ UNCHANGED <<njm, chmask, chflash, join_active, modem_mask, asked, joining, pc, arg, client, history>>
      BY <2>1 DEF SetRegion, rzi_lorawan_set_region, Begin, Stay, session
    <3>2. ~joining /\ \A u \in Threads : pc[u] \notin ChannelPlaces
      BY <3>1 DEF CallInv
    <3> QED BY <3>1, <3>2 DEF MaskInv, JoinFollows, history
  <2>2. ASSUME NEW t \in Threads, NEW mode \in {"OTAA", "ABP"}, SetActivation(t, mode)
        PROVE  MaskInv'
    <3>1. /\ njm' = mode
          /\ UNCHANGED <<region, chmask, chflash, join_active, modem_mask, asked, joining, pc, arg, client, history>>
      BY <2>2 DEF SetActivation, rzi_lorawan_set_activation, Begin, Stay, session
    <3> QED BY <3>1 DEF MaskInv, Carries, JoinFollows, history
  <2>3. ASSUME NEW t \in Threads, NEW V \in MaskInputs, SetMask(t, V)
        PROVE  MaskInv'
    <3>1. Encodes(store_mask(handle_mask(V)), Asked("mask", V))
      BY DEF Encodes, Asked
    <3> QED BY <2>3, <3>1, WriteStep DEF SetMask
  <2>4. ASSUME NEW t \in Threads, NEW N \in CheInputs, SetChe(t, N)
        PROVE  MaskInv'
    <3>1. Encodes(store_mask(handle_che(N)), Asked("che", N))
      BY DEF Encodes, Asked
    <3> QED BY <2>4, <3>1, WriteStep DEF SetChe
  <2>5. ASSUME NEW t \in Threads, NEW f \in ChsInputs, SetFixedChannel(t, f)
        PROVE  MaskInv'
    <3>1. f # 0 => frequency_channel(region, f) # -1
      BY <2>5 DEF SetFixedChannel
    <3>2. Encodes(IF f = 0 THEN {} ELSE {frequency_channel(region, f)}, Asked("chs", f))
      BY <3>1 DEF Encodes, Asked
    <3> QED BY <2>5, <3>2, WriteStep DEF SetFixedChannel
  <2>6. ASSUME NEW t \in Threads, NEW b \in SubBandInputs, SetSubBand(t, b)
        PROVE  MaskInv'
    <3>1. b \in SubBands \cup {0}
      <4>1. b \in Nat /\ b <= 8
        BY <2>6 DEF SetSubBand
      <4> QED BY <4>1 DEF SubBands
    <3>2. Encodes(IF b = 0 THEN {} ELSE store_mask(sub_band_channels(b)), Asked("sub_band", b))
      BY <3>1 DEF Encodes, Asked
    <3> QED BY <2>6, <3>2, WriteStep DEF SetSubBand
  <2>7. ASSUME NEW t \in Threads, NEW bits \in RawInputs, SetRaw(t, bits)
        PROVE  MaskInv'
    <3>1. Encodes(store_mask(bits), Asked("raw", bits))
      BY <2>7 DEF SetRaw, Encodes, Asked
    <3> QED BY <2>7, <3>1, WriteStep DEF SetRaw
  <2>8. ASSUME NEW t \in Threads, JoinBuild(t)
        PROVE  MaskInv'
    <3>1. /\ UNCHANGED <<njm, region, chmask, chflash, join_active, modem_mask, asked, joining, client, join_seen>>
          /\ pc[t] = Idle /\ pc' = [pc EXCEPT ![t] = "claim"]
          /\ arg' = [arg EXCEPT ![t] = IF HasPlan(region) THEN chmask ELSE {}]
          /\ seen' = [seen EXCEPT ![t] = {chmask}]
      BY <2>8 DEF JoinBuild, Begin, GotoWith, stored, session
    <3>2. chmask \subseteq Channels
      BY EncodedMask DEF MaskInv
    <3>3. ASSUME NEW u \in Threads, pc'[u] \in ChannelPlaces PROVE Carries(u)'
      BY <1>0, <3>1, <3>2, <3>3 DEF MaskInv, Carries
    <3>4. (\E u \in Threads : pc[u] = "join") => \E u \in Threads : pc'[u] = "join"
      BY <1>0, <3>1 DEF Idle
    <3>5. JoinFollows'
      BY <3>1, <3>4 DEF MaskInv, JoinFollows
    <3> QED BY <3>1, <3>3, <3>5 DEF MaskInv
  <2>9. ASSUME NEW t \in Threads, JoinClaim(t)
        PROVE  MaskInv'
    <3>1. /\ UNCHANGED <<njm, region, chmask, chflash, modem_mask, asked, joining, client, arg, join_seen>>
          /\ pc[t] = "claim" /\ pc' = [pc EXCEPT ![t] = IF join_active THEN Idle ELSE "join"]
          /\ seen' = [seen EXCEPT ![t] = IF join_active THEN {} ELSE @]
      BY <2>9 DEF JoinClaim, Goto, stored, session
    <3>2. join_active' \in BOOLEAN
      BY <2>9, Zenon DEF JoinClaim
    <3>3. ASSUME NEW u \in Threads, pc'[u] \in ChannelPlaces PROVE Carries(u)'
      BY <1>0, <3>1, <3>3 DEF MaskInv, Carries, ChannelPlaces, Idle
    <3>4. ~join_active => \E u \in Threads : pc'[u] = "join"
      BY <1>0, <3>1
    <3>5. (\E u \in Threads : pc[u] = "join") => \E u \in Threads : pc'[u] = "join"
      BY <1>0, <3>1
    <3>6. JoinFollows'
      BY <3>1, <3>4, <3>5 DEF MaskInv, JoinFollows
    <3> QED BY <3>1, <3>2, <3>3, <3>6 DEF MaskInv
  <2>10. ASSUME NEW t \in Threads, NEW configured \in BOOLEAN, NEW ok \in BOOLEAN, UspJoin(t, configured, ok)
         PROVE  MaskInv'
    <3>1. /\ UNCHANGED <<njm, region, chmask, chflash, asked, client, arg>> /\ join_active' = ok
          /\ pc[t] = "join" /\ pc' = [pc EXCEPT ![t] = Idle] /\ (ok => configured)
          /\ modem_mask' = IF configured THEN configure_channel_mask(arg[t]) ELSE modem_mask
          /\ join_seen' = (IF ok THEN seen[t] ELSE {}) /\ seen' = [seen EXCEPT ![t] = {}]
      BY <2>10 DEF UspJoin, Goto, stored
    <3>2. Carries(t)
      BY <3>1 DEF MaskInv, ChannelPlaces
    <3>3. modem_mask' \subseteq Channels /\ (ok /\ HasPlan(region) => {modem_mask', chmask} \subseteq seen[t])
      BY <3>1, <3>2 DEF Carries, configure_channel_mask, MaskInv
    <3>4. ASSUME NEW u \in Threads, pc'[u] \in ChannelPlaces PROVE Carries(u)'
      BY <1>0, <3>1, <3>4 DEF MaskInv, Carries, ChannelPlaces, Idle
    <3>5. JoinFollows'
      BY <3>1, <3>3 DEF JoinFollows
    <3> QED BY <3>1, <3>3, <3>4, <3>5 DEF MaskInv
  <2>11. CASE JoinAccept
    <3>1. UNCHANGED <<channelVars, client, pc, arg>> /\ ~joining'
      BY <2>11 DEF JoinAccept, Event, thread
    <3> QED BY <3>1, StayKeeps, MaskStays DEF channelVars, history, MaskInv
  <2>12. CASE JoinedEvent \/ \E left \in BOOLEAN : JoinEnd(left)
    <3>1. UNCHANGED <<stored, modem_mask, history, client, pc, arg>> /\ ~join_active'
      BY <2>12 DEF JoinedEvent, JoinEnd, Event, thread, callVars
    <3>2. join_active' \in BOOLEAN
      BY <2>12, Zenon DEF JoinedEvent, JoinEnd
    <3> QED BY <3>1, <3>2, StayKeeps, MaskStays DEF stored, MaskInv
  <2> QED BY <1>1, <2>1, <2>2, <2>3, <2>4, <2>5, <2>6, <2>7, <2>8, <2>9, <2>10, <2>11, <2>12 DEF ChannelsNext
<1>2. CASE (InfoNext \/ LinkNext \/ MacNext \/ McNext) /\ UNCHANGED channelVars
  BY <1>0, <1>2, OtherParts, MaskStays DEF session, channelVars, history, MaskInv
<1>3. CASE ServiceStart \/ UNCHANGED vars
  <2>1. UNCHANGED <<channelVars, client, pc, arg, joining>>
    BY <1>3 DEF ServiceStart, Start, ModemReady, thread, vars, callVars
  <2> QED BY <2>1, StayKeeps, MaskStays DEF channelVars, history, MaskInv
<1>4. CASE \E t \in Threads : LeaveNetwork(t)
  <2>1. UNCHANGED <<channelVars, client, pc, arg>> /\ ~joining'
    BY <1>4 DEF LeaveNetwork, Begin, Stay
  <2> QED BY <2>1, StayKeeps, MaskStays DEF channelVars, history, MaskInv
<1>5. CASE \E ok \in BOOLEAN : ModemReset(ok)
  <2>1. /\ UNCHANGED <<njm, region, chmask, chflash, join_active, asked, history, client, pc, arg>>
        /\ ~joining' /\ modem_mask' = {}
    BY <1>5 DEF ModemReset, Event, thread
  <2> QED BY <2>1, StayKeeps, MaskStays DEF MaskInv
<1>6. CASE Reboot
  <2>1. /\ UNCHANGED <<njm, region, chflash, asked, client>> /\ ~join_active' /\ modem_mask' = {}
        /\ chmask' = IF channel_mask_valid(chflash) THEN chflash ELSE {}
        /\ seen' = [t \in Threads |-> {}] /\ \A t \in Threads : pc'[t] = Idle
    BY <1>6 DEF Reboot, ChannelsReboot
  <2>2. join_active' \in BOOLEAN
    BY <1>6, Zenon DEF Reboot, ChannelsReboot
  <2>3. chmask' = chmask
    BY <2>1, EncodedMask DEF MaskInv, channel_mask_valid
  <2> QED BY <2>1, <2>2, <2>3 DEF MaskInv, JoinFollows, ChannelPlaces, Idle
<1> QED BY <1>1, <1>2, <1>3, <1>4, <1>5, <1>6 DEF Next

LEMMA MaskStarts ==
    ASSUME Init
    PROVE  MaskInv
<1>1. join_active \in BOOLEAN
  BY Zenon DEF Init, ChannelsInit
<1>2. Encodes(chmask, asked)
  BY DEF Init, ChannelsInit, Encodes, Asked
<1>3. region \in Regions /\ njm \in {"OTAA", "ABP"}
  BY ChannelsAssumption DEF Init, CallInit, ChannelsInit
<1>4. /\ chflash = chmask /\ modem_mask = {} /\ ~join_active /\ DOMAIN seen = Threads
      /\ \A t \in Threads : pc[t] = Idle
  BY DEF Init, CallInit, ChannelsInit
<1> QED BY <1>1, <1>2, <1>3, <1>4 DEF MaskInv, JoinFollows, ChannelPlaces, Idle

\* The channel mask that was accepted is the one read back, through the view it was written with,
\* and a join runs with one that was stored during its call, which is the stored one unless
\* another thread wrote it meanwhile (rzi_lorawan_set_channel_mask(), begin_join(), usp_join()):
\* for any inputs, and any threads that write the mask and join at the same time.
THEOREM MaskIsKept == Spec => []MaskKept
<1>1. Init => CallInv /\ MaskInv
  BY CallStarts, MaskStarts
<1>2. CallInv /\ MaskInv /\ [Next]_vars => CallInv' /\ MaskInv'
  BY CallStep, MaskStep
<1>3. MaskInv => MaskKept
  <2> SUFFICES ASSUME MaskInv PROVE MaskKept
    OBVIOUS
  <2>1. ChannelsTypeOK
    BY EncodedMask DEF MaskInv, ChannelsTypeOK
  <2>2. ReadsBack
    BY EncodedReadsBack DEF MaskInv
  <2>3. JoinMask
    BY DEF MaskInv, JoinFollows, JoinMask, JoinRuns
  <2> QED BY <2>1, <2>2, <2>3 DEF MaskKept
<1> QED BY <1>1, <1>2, <1>3, PTL DEF Spec

=============================================================================
