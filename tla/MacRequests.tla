---------------------------- MODULE MacRequests ----------------------------
(***************************************************************************)
(* LinkCheckReq and DeviceTimeReq (lorawan_mac_commands.c): two statics    *)
(* that no lock protects, the requests the modem is asked for at once, and *)
(* the ones rzi_lorawan_mac_commands_on_uplink() adds to an uplink.        *)
(***************************************************************************)
EXTENDS LorawanCall

CONSTANT LinkModes      \* modes the clients ask for, a subset of AllLinkModes

AllLinkModes == {"disabled", "once", "every"}

ASSUME MacAssumption == LinkModes \subseteq AllLinkModes

VARIABLES
    link_check_mode, device_time_enabled,
    requests,           \* requests the modem has still to send
    refused,            \* TRUE: the modem refused a one-time link check
    every_uplink        \* a thread's uplink: EVERY_UPLINK held since the call began; asked for

macVars == <<link_check_mode, device_time_enabled, requests, refused, every_uplink>>

MacInit ==
    /\ link_check_mode = "disabled" /\ device_time_enabled = FALSE /\ requests = {}
    /\ refused = FALSE
    /\ every_uplink = [t \in Threads |-> [held |-> FALSE, asked |-> FALSE]]

Written(mode) ==
    every_uplink' = IF mode = "every" THEN every_uplink
                    ELSE [t \in Threads |-> [every_uplink[t] EXCEPT !.held = FALSE]]

\* A request to the modem: refused until it is ready, and it may refuse then.
usp_request(request, ok) == (ok => ready) /\ requests' = IF ok THEN requests \cup {request} ELSE requests

\* rzi_lorawan_request_link_check() stores the mode ...
RequestLinkCheck(t, mode) ==
    /\ Begin(t, "link_check") /\ started
    /\ link_check_mode' = mode
    /\ IF mode = "disabled" THEN Stay ELSE GotoWith(t, "link_trig", {mode})
    /\ Written(mode)
    /\ UNCHANGED <<device_time_enabled, requests, refused, session, events>>

\* ... asks the modem ...
LinkTrig(t, ok) ==
    /\ pc[t] = "link_trig" /\ usp_request("link", ok)
    /\ refused' = (refused \/ (~ok /\ "once" \in arg[t]))
    /\ Goto(t, IF ok /\ "once" \in arg[t] THEN "link_clear" ELSE Idle)
    /\ UNCHANGED <<link_check_mode, device_time_enabled, every_uplink, session, events>>

\* Mutant: the one-time mode stays.
LinkClearKeeps(t) ==
    /\ pc[t] = "link_clear" /\ Goto(t, Idle)
    /\ UNCHANGED <<macVars, session, events>>

\* ... and a one-time request that was taken disables the mode again.
LinkClear(t) ==
    /\ pc[t] = "link_clear" /\ Goto(t, Idle)
    /\ link_check_mode' = "disabled"
    /\ Written("disabled")
    /\ UNCHANGED <<device_time_enabled, requests, refused, session, events>>

\* rzi_lorawan_request_device_time()
RequestDeviceTime(t, enabled) ==
    /\ Begin(t, "device_time") /\ started
    /\ device_time_enabled' = enabled
    /\ IF enabled THEN GotoWith(t, "time_trig", {}) ELSE Stay
    /\ UNCHANGED <<link_check_mode, requests, refused, every_uplink, session, events>>

TimeTrig(t, ok) ==
    /\ pc[t] = "time_trig" /\ usp_request("time", ok)
    /\ Goto(t, Idle)
    /\ UNCHANGED <<link_check_mode, device_time_enabled, refused, every_uplink, session, events>>

\* rzi_lorawan_send() and send_empty(): joined, then the requests, then the uplink.
SendCheck(t) ==
    /\ Begin(t, "send") /\ started /\ ready /\ joined
    /\ GotoWith(t, "uplink_link", {})
    /\ every_uplink' = [every_uplink EXCEPT ![t] = [held |-> link_check_mode = "every", asked |-> FALSE]]
    /\ UNCHANGED <<link_check_mode, device_time_enabled, requests, refused, session, events>>

\* rzi_lorawan_mac_commands_on_uplink(): a refusal is ignored.
UplinkLink(t, ok) ==
    /\ pc[t] = "uplink_link"
    /\ IF link_check_mode = "every" THEN usp_request("link", ok) ELSE UNCHANGED requests
    /\ every_uplink' = [every_uplink EXCEPT ![t].asked = (link_check_mode = "every")]
    /\ Goto(t, "uplink_time")
    /\ UNCHANGED <<link_check_mode, device_time_enabled, refused, session, events>>

UplinkTime(t, ok) ==
    /\ pc[t] = "uplink_time"
    /\ IF device_time_enabled THEN usp_request("time", ok) ELSE UNCHANGED requests
    /\ Goto(t, "uplink")
    /\ UNCHANGED <<link_check_mode, device_time_enabled, refused, every_uplink, session, events>>

\* The uplink, or a refusal: either way the call is over.
Uplink(t) ==
    /\ pc[t] = "uplink" /\ Goto(t, Idle)
    /\ every_uplink' = [every_uplink EXCEPT ![t] = [held |-> FALSE, asked |-> FALSE]]
    /\ UNCHANGED <<link_check_mode, device_time_enabled, requests, refused, session, events>>

\* The modem sends what it was asked for.
RequestsSent ==
    /\ Event /\ joined /\ requests # {}
    /\ requests' = {}
    /\ UNCHANGED <<link_check_mode, device_time_enabled, refused, every_uplink, session>>

MacReboot ==
    /\ link_check_mode' = "disabled" /\ device_time_enabled' = FALSE /\ requests' = {}
    /\ refused' = FALSE
    /\ every_uplink' = [t \in Threads |-> [held |-> FALSE, asked |-> FALSE]]

\* The session ends: the modem forgets its requests.
MacSessionEnds ==
    requests' = {} /\ UNCHANGED <<link_check_mode, device_time_enabled, refused, every_uplink>>

MacNext ==
    \/ \E t \in Threads :
          \/ \E mode \in LinkModes : RequestLinkCheck(t, mode)
          \/ LinkClear(t) \/ SendCheck(t) \/ Uplink(t)
          \/ \E b \in BOOLEAN : RequestDeviceTime(t, b)
          \/ \E ok \in BOOLEAN : LinkTrig(t, ok) \/ TimeTrig(t, ok) \/ UplinkLink(t, ok) \/ UplinkTime(t, ok)
    \/ RequestsSent

-----------------------------------------------------------------------------
MacTypeOK ==
    /\ link_check_mode \in AllLinkModes /\ device_time_enabled \in BOOLEAN
    /\ requests \subseteq {"link", "time"} /\ refused \in BOOLEAN

\* A one-time link check does not stay: with no call under way the mode is ONCE only if the
\* modem refused such a request, however the calls of several threads interleave.
OnceEnds == (\A t \in Threads : pc[t] = Idle) /\ link_check_mode = "once" => refused

\* An uplink asks for a link check if EVERY_UPLINK was stored when the call began and no call
\* stored another mode before the uplink.
UplinkAsks == \A t \in Threads : pc[t] = "uplink" /\ every_uplink[t].held => every_uplink[t].asked

\* A one-time request is made once, a repeated one with every uplink.
RequestsKept == CallTypeOK /\ MacTypeOK /\ OnceEnds /\ UplinkAsks

\* include/rzi/lorawan/lorawan.h, rzi_lorawan_request_link_check(): "A return of zero means the
\* mode was stored.": a stored EVERY_UPLINK is changed by a call that asks for another mode only.
EveryStored ==
    [][link_check_mode = "every" => \A t \in Threads : pc[t] = "link_clear" => pc'[t] = pc[t]]_link_check_mode
=============================================================================
