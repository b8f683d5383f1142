------------------------------ MODULE Channels ------------------------------
(***************************************************************************)
(* The channel mask of US915 and AU915: its views (channel mask, sub-band, *)
(* fixed channel; AT+MASK, AT+CHE, AT+CHS), its storage with the           *)
(* credentials, and its way into the modem at a join (lorawan_channel.c,   *)
(* lorawan_credentials.c, begin_join() of lorawan.c and usp_join()).       *)
(***************************************************************************)
EXTENDS ChannelPlan, LorawanCall

CONSTANTS
    MaskInputs,     \* AT+MASK: sets of groups
    CheInputs,      \* AT+CHE: nonempty sets of groups
    ChsInputs,      \* AT+CHS: frequencies, 0 for every channel
    SubBandInputs,  \* rzi_lorawan_set_sub_band(), 0 for every channel
    RawInputs,      \* rzi_lorawan_set_channel_mask(): sets of bits
    BandInputs,     \* AT+BAND: regions
    Activations     \* the activations the backend supports; {"OTAA"} for USP

ASSUME ChannelsAssumption ==
    /\ MaskInputs \subseteq SUBSET Groups /\ CheInputs \subseteq (SUBSET Groups) \ {{}}
    /\ ChsInputs \subseteq Nat /\ SubBandInputs \subseteq Nat
    /\ RawInputs \subseteq SUBSET Bits /\ BandInputs \subseteq Regions
    /\ Activations \subseteq {"OTAA", "ABP"}
    /\ \A c \in Clients : c.regions \subseteq Regions

VARIABLES
    njm,            \* the stored activation
    region,         \* the stored region
    chmask,         \* credentials.channel_mask, {} if not set
    chflash,        \* its record in flash
    join_active,    \* a join sequence runs
    modem_mask,     \* the user mask of the modem, {} if none
    asked,          \* the last write that was accepted: [view, value, region]
    seen,           \* history: the masks stored since a thread's join call read the mask
    join_seen       \* history: that of the call whose join the modem runs

channelVars == <<njm, region, chmask, chflash, join_active, modem_mask, asked, seen, join_seen>>
history == <<seen, join_seen>>
stored == <<njm, region, chmask, chflash, asked>>

Asked(view, value) == [view |-> view, value |-> value, region |-> region]

\* A device that is switched to this backend may have ABP in flash: its client finds either.
ChannelsInit ==
    /\ njm \in IF "njm" \in client.ops THEN {"OTAA", "ABP"} ELSE {"OTAA"}
    /\ region \in client.regions
    /\ chmask = {} /\ chflash = {} /\ join_active = FALSE /\ modem_mask = {}
    /\ asked = Asked("none", {})
    /\ seen = [t \in Threads |-> {}] /\ join_seen = {}

\* Refused once the service has started.
rzi_lorawan_set_region(r) == ~started /\ region' = r

\* AT+BAND
SetRegion(t, r) ==
    /\ Begin(t, "band") /\ Stay
    /\ rzi_lorawan_set_region(r)
    /\ UNCHANGED <<njm, chmask, chflash, join_active, modem_mask, asked, history, session, events>>

\* activation_supported()
activation_supported(mode) == mode \in Activations

\* Refused while a join sequence runs.
rzi_lorawan_set_activation(mode) == activation_supported(mode) /\ ~join_active /\ njm' = mode

\* AT+NJM
SetActivation(t, mode) ==
    /\ Begin(t, "njm") /\ Stay
    /\ rzi_lorawan_set_activation(mode)
    /\ UNCHANGED <<region, chmask, chflash, join_active, modem_mask, asked, history, session, events>>

\* From the read of the mask in begin_join() to the return of usp_join().
Joining == {"claim", "join"}

\* rzi_lorawan_credentials_set_channel_mask(): refused while a join sequence runs; the record
\* first, then the copy in RAM.
set_channel_mask(mask, what) ==
    /\ ~join_active /\ Stay
    /\ mask # {} => channel_mask_valid(mask)
    /\ chmask' = mask /\ chflash' = mask /\ asked' = what
    /\ seen' = [u \in Threads |-> IF pc[u] \in Joining THEN seen[u] \cup {mask} ELSE seen[u]]
    /\ UNCHANGED <<njm, region, join_active, modem_mask, join_seen, session, events>>

SetMask(t, V) ==
    Begin(t, "mask") /\ HasPlan(region) /\ set_channel_mask(store_mask(handle_mask(V)), Asked("mask", V))

SetChe(t, N) ==
    Begin(t, "che") /\ HasPlan(region) /\ set_channel_mask(store_mask(handle_che(N)), Asked("che", N))

\* AT+CHS=f, refused for a frequency that is no channel.
SetFixedChannel(t, f) ==
    /\ Begin(t, "chs") /\ HasPlan(region)
    /\ f # 0 => frequency_channel(region, f) # -1
    /\ set_channel_mask(IF f = 0 THEN {} ELSE {frequency_channel(region, f)}, Asked("chs", f))

SetSubBand(t, b) ==
    /\ Begin(t, "sub_band") /\ HasPlan(region) /\ b <= 8
    /\ set_channel_mask(IF b = 0 THEN {} ELSE store_mask(sub_band_channels(b)), Asked("sub_band", b))

\* rzi_lorawan_set_channel_mask(): no empty mask, no channel above 71.
SetRaw(t, bits) ==
    /\ Begin(t, "raw") /\ HasPlan(region) /\ channel_mask_valid(bits)
    /\ set_channel_mask(store_mask(bits), Asked("raw", bits))

-----------------------------------------------------------------------------
(* The join *)

\* begin_join(): an activation the backend lacks is refused, then
\* rzi_lorawan_credentials_build_config() copies the mask ...
JoinBuild(t) ==
    /\ Begin(t, "join") /\ started /\ ready /\ ~join_active /\ activation_supported(njm)
    /\ GotoWith(t, "claim", IF HasPlan(region) THEN chmask ELSE {})
    /\ seen' = [seen EXCEPT ![t] = {chmask}]
    /\ UNCHANGED <<stored, join_active, modem_mask, join_seen, session, events>>

\* ... then the sequence is claimed, and channel writes are refused from here on ...
JoinClaim(t) ==
    /\ pc[t] = "claim"
    /\ Goto(t, IF join_active THEN Idle ELSE "join")
    /\ join_active' = TRUE
    /\ seen' = [seen EXCEPT ![t] = IF join_active THEN {} ELSE @]
    /\ UNCHANGED <<stored, modem_mask, join_seen, session, events>>

\* Mutant: a mask that is not set is not given to the modem.
MaskKeptWhenUnset(mask) == IF HasPlan(region) /\ mask # {} THEN mask ELSE modem_mask

\* configure_channel_mask()
configure_channel_mask(mask) == IF HasPlan(region) THEN mask ELSE modem_mask

\* ... and usp_join() gives the modem the mask and starts it; each of its calls may fail.
UspJoin(t, configured, ok) ==
    /\ pc[t] = "join" /\ Goto(t, Idle)
    /\ ok => configured
    /\ modem_mask' = IF configured THEN configure_channel_mask(arg[t]) ELSE modem_mask
    /\ joining' = (ok \/ joining)
    /\ join_active' = ok
    /\ joined' = (joined /\ ~ok)
    /\ join_seen' = IF ok THEN seen[t] ELSE {}
    /\ seen' = [seen EXCEPT ![t] = {}]
    /\ UNCHANGED <<stored, started, ready, events>>

\* The modem's join ends; the dispatcher ends the sequence when it gets to the event.
JoinAccept ==
    /\ Event /\ joining
    /\ joining' = FALSE /\ joined' = TRUE
    /\ UNCHANGED <<channelVars, started, ready>>

JoinedEvent ==
    /\ join_active /\ joined /\ \A t \in Threads : pc[t] # "join"
    /\ join_active' = FALSE
    /\ UNCHANGED <<stored, modem_mask, history, callVars>>

\* The last attempt failed, or AT+JOIN=0: the sequence ends, then the modem is told to leave,
\* which fails while an uplink is outstanding.
JoinEnd(left) ==
    /\ Event /\ join_active /\ joining
    /\ join_active' = FALSE
    /\ joining' = (joining /\ ~left)
    /\ UNCHANGED <<stored, modem_mask, history, started, ready, joined>>

\* A restart: the credentials are loaded again, a record that is no mask counts as none.
ChannelsReboot ==
    /\ chmask' = IF channel_mask_valid(chflash) THEN chflash ELSE {}
    /\ join_active' = FALSE /\ modem_mask' = {}
    /\ seen' = [t \in Threads |-> {}] /\ join_seen' = {}
    /\ UNCHANGED <<njm, region, chflash, asked>>

ChannelsNext ==
    \/ \E t \in Threads :
          \/ \E r \in BandInputs : SetRegion(t, r)
          \/ \E mode \in {"OTAA", "ABP"} : SetActivation(t, mode)
          \/ \E V \in MaskInputs : SetMask(t, V)
          \/ \E N \in CheInputs : SetChe(t, N)
          \/ \E f \in ChsInputs : SetFixedChannel(t, f)
          \/ \E b \in SubBandInputs : SetSubBand(t, b)
          \/ \E bits \in RawInputs : SetRaw(t, bits)
          \/ JoinBuild(t) \/ JoinClaim(t)
          \/ \E configured, ok \in BOOLEAN : UspJoin(t, configured, ok)
    \/ JoinAccept \/ JoinedEvent
    \/ \E left \in BOOLEAN : JoinEnd(left)

-----------------------------------------------------------------------------
ChannelsTypeOK ==
    /\ region \in Regions /\ njm \in {"OTAA", "ABP"}
    /\ chmask \subseteq Channels /\ chflash \subseteq Channels /\ modem_mask \subseteq Channels
    /\ chmask # Channels /\ join_active \in BOOLEAN

\* A channel write that was accepted is what every later read returns, through the view it was
\* written with, whatever is folded into the default mask, stored, reloaded after a restart or
\* kept over a change of region: AT+MASK and AT+CHE the groups that were given (every group for
\* MASK=0000 and for all eight blocks, whose 500 kHz channels make the ninth), AT+CHS the
\* frequency of the same channel, the sub-band its number.
ReadsBack ==
    CASE asked.view = "mask" -> read_groups(read_mask(chmask)) =
                                IF asked.value \in {{}, Blocks} THEN Groups ELSE asked.value
      [] asked.view = "che" -> read_groups(read_mask(chmask)) = asked.value
      [] asked.view = "chs" -> get_fixed_channel(region, read_mask(chmask)) =
                               IF asked.value = 0 THEN 0
                               ELSE channel_frequency(region, frequency_channel(asked.region, asked.value))
      [] asked.view = "sub_band" -> get_sub_band(read_mask(chmask)) = asked.value
      [] asked.view = "raw" -> read_mask(chmask) = asked.value
      [] OTHER -> read_mask(chmask) = Channels

\* A join sequence and the modem's join run, and no thread is on its way into usp_join().
JoinRuns == join_active /\ joining /\ HasPlan(region) /\ \A t \in Threads : pc[t] # "join"

\* While a join runs, the modem's mask, a lifted restriction included, was the stored one at
\* some moment of the join call, and so was the mask that is stored now: it has not changed
\* since.  The two are one unless another thread wrote the mask during the call.
JoinMask == JoinRuns => {modem_mask, chmask} \subseteq join_seen

\* Without the race: the modem joins with the stored mask.  It takes a second thread to break it.
JoinMaskStored == JoinRuns => modem_mask = chmask

\* The channel mask that was accepted is the one read back and the one joined with.
MaskKept == ChannelsTypeOK /\ ReadsBack /\ JoinMask
=============================================================================
