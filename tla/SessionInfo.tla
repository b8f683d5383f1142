---------------------------- MODULE SessionInfo ----------------------------
(***************************************************************************)
(* The identity of the device, AT+DEVADDR, AT+NWKSKEY and AT+APPSKEY       *)
(* (lorawan_credentials.c, lorawan_backend_usp_session.c): with ABP what   *)
(* is stored, with OTAA what the network assigned, and zero without a      *)
(* session.  A read takes the activation under the credentials' lock, then *)
(* asks whether the modem has joined, then reads the modem: three sections *)
(* between which a session may end and another begin.                      *)
(***************************************************************************)
EXTENDS Channels

CONSTANT StoredIdentities   \* addresses and keys a client stores for ABP

Whats == {"address", "key"}
Unset == 0                  \* the AT command answers zeros for what is not set
NoValue == -1

\* The identity of an OTAA session is the number of the event that began it.
ASSUME InfoAssumption == StoredIdentities \subseteq Nat \ (0..MaxEvents)

VARIABLES
    abp,        \* credentials.dev_addr and the session keys, in RAM and in flash
    identity,   \* the address and the keys the modem holds; a leave does not erase them
    reads       \* a thread's last read: [what, seen, value]; seen is what was current during it

infoVars == <<abp, identity, reads>>

NoRead == [what |-> "address", seen |-> {}, value |-> NoValue]

InfoInit ==
    /\ abp = [w \in Whats |-> Unset] /\ identity = Unset
    /\ reads = [t \in Threads |-> NoRead]

\* What a read made now should answer.
Current(what) == IF njm = "ABP" THEN abp[what] ELSE IF joined THEN identity ELSE Unset

\* A read under way may answer what this step makes current.
Watch ==
    reads' = [t \in Threads |-> IF pc[t] \notin {"id_joined", "id_read"} THEN reads[t]
                                ELSE [reads[t] EXCEPT !.seen = @ \cup {Current(reads[t].what)'}]]

\* rzi_lorawan_set_dev_addr() and the setters of the keys: refused while a join sequence runs.
SetIdentity(t, what, v) ==
    /\ Begin(t, "set_identity") /\ Stay
    /\ ~join_active
    /\ abp' = [abp EXCEPT ![what] = v]
    /\ UNCHANGED <<identity, session, events>>
    /\ Watch

\* Thread t's read answers v, or fails if v is NoValue.
Answer(t, v) == reads' = [reads EXCEPT ![t].value = v] /\ Goto(t, Idle)

\* A read command: with ABP it answers the stored value, zero if there is none ...
ReadIdentity(t, what) ==
    /\ Begin(t, "identity")
    /\ reads' = [reads EXCEPT ![t] = [what |-> what, seen |-> {Current(what)},
                                      value |-> IF njm = "ABP" THEN abp[what] ELSE NoValue]]
    /\ IF njm = "ABP" THEN Stay ELSE GotoWith(t, "id_joined", {})
    /\ UNCHANGED <<abp, identity, session, events>>

rzi_lorawan_get_dev_addr(t) == ReadIdentity(t, "address")
rzi_lorawan_get_session_key(t) == ReadIdentity(t, "key")

\* Mutant: the modem is read whether it has joined or not.
ReadAnyway(t) ==
    /\ pc[t] = "id_joined" /\ Goto(t, "id_read")
    /\ UNCHANGED <<infoVars, session, events>>

\* ... with OTAA zero without a session, or before the service has started, and an error while
\* the modem is not ready ...
SessionJoined(t) ==
    /\ pc[t] = "id_joined"
    /\ IF ready /\ joined THEN Goto(t, "id_read") /\ UNCHANGED reads
       ELSE Answer(t, IF started /\ ~ready THEN NoValue ELSE Unset)
    /\ UNCHANGED <<abp, identity, session, events>>

\* ... and else what the modem holds; the secure element may refuse to export a key.
ReadModem(t, exported) ==
    /\ pc[t] = "id_read"
    /\ reads[t].what = "address" => exported
    /\ Answer(t, IF ready /\ exported THEN identity ELSE NoValue)
    /\ UNCHANGED <<abp, identity, session, events>>

InfoNext ==
    \E t \in Threads :
       \/ rzi_lorawan_get_dev_addr(t) \/ rzi_lorawan_get_session_key(t)
       \/ \E what \in Whats, v \in StoredIdentities : SetIdentity(t, what, v)
       \/ SessionJoined(t)
       \/ \E exported \in BOOLEAN : ReadModem(t, exported)

\* A Join-Accept brings a new identity; the end of a session leaves it in the modem.
IdentityFollows ==
    /\ identity' = IF joined' /\ ~joined THEN events' ELSE identity
    /\ UNCHANGED abp
    /\ Watch

\* A reset of the modem, and a restart of the device.
IdentityLost == identity' = Unset /\ UNCHANGED abp /\ Watch
InfoReboot == identity' = Unset /\ reads' = [t \in Threads |-> NoRead] /\ UNCHANGED abp

-----------------------------------------------------------------------------
InfoTypeOK ==
    /\ abp \in [Whats -> StoredIdentities \cup {Unset}] /\ identity \in 0..MaxEvents
    /\ \A t \in Threads : reads[t].what \in Whats

\* A read of the address or of a session key answers what was current at some moment of the
\* call, although it looks at the activation, at the join and at the modem in three sections:
\* the stored value only with ABP, never the identity of a session that had ended before the
\* call, nor zero if there was a session throughout.
IdentityReads ==
    InfoTypeOK /\ \A t \in Threads : reads[t].value # NoValue => reads[t].value \in reads[t].seen
=============================================================================
