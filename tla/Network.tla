------------------------------ MODULE Network ------------------------------
(***************************************************************************)
(* The network side of the LoRaWAN API, composed: channel mask and join,   *)
(* the identity of the device, link control, MAC requests and multicast    *)
(* sessions share one modem session.  Leaving the network, a reset of the  *)
(* modem and a restart of the device reach all of them.                    *)
(***************************************************************************)
EXTENDS SessionInfo, LinkControl, MacRequests, Multicast

vars == <<callVars, channelVars, infoVars, linkVars, macVars, mcVars>>

Init == CallInit /\ ChannelsInit /\ InfoInit /\ LinkInit /\ MacInit /\ McInit

ServiceStart == (Start \/ ModemReady) /\ UNCHANGED <<channelVars, infoVars, linkVars, macVars, mcVars>>

\* rzi_lorawan_leave(): the modem drops the session; what the service keeps stays.
LeaveNetwork(t) ==
    /\ Begin(t, "leave") /\ ready /\ Stay
    /\ joining' = FALSE /\ joined' = FALSE
    /\ UNCHANGED <<channelVars, started, ready, events>>
    /\ IdentityFollows /\ LinkSessionEnds /\ MacSessionEnds /\ McSessionEnds

\* The modem resets; the backend configures it again and is ready if that works.  The mask
\* comes with the next join, the multicast table is left as it was.
ModemReset(ok) ==
    /\ Event /\ started /\ ready
    /\ ready' = ok /\ joining' = FALSE /\ joined' = FALSE
    /\ modem_mask' = {}
    /\ LinkReboot /\ MacSessionEnds /\ McSessionEnds
    /\ UNCHANGED <<njm, region, chmask, chflash, join_active, asked, history, started>>
    /\ IdentityLost

\* The device restarts: what is in flash stays.
Reboot ==
    /\ events < MaxEvents /\ events' = events + 1
    /\ pc' = [t \in Threads |-> Idle] /\ arg' = [t \in Threads |-> {}]
    /\ started' = FALSE /\ ready' = FALSE /\ joining' = FALSE /\ joined' = FALSE
    /\ ChannelsReboot /\ InfoReboot /\ LinkReboot /\ MacReboot /\ McReboot
    /\ UNCHANGED <<client, calls>>

Next ==
    \/ ChannelsNext /\ IdentityFollows /\ UNCHANGED <<linkVars, macVars, mcVars>>
    \/ UNCHANGED <<channelVars, linkVars, macVars, mcVars>> /\ InfoNext
    \/ LinkNext /\ UNCHANGED <<channelVars, infoVars, macVars, mcVars>>
    \/ MacNext /\ UNCHANGED <<channelVars, infoVars, linkVars, mcVars>>
    \/ McNext /\ UNCHANGED <<channelVars, infoVars, linkVars, macVars>>
    \/ ServiceStart \/ Reboot
    \/ \E t \in Threads : LeaveNetwork(t)
    \/ \E ok \in BOOLEAN : ModemReset(ok)

Spec == Init /\ [][Next]_vars
=============================================================================
