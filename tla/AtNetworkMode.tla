---------------------------- MODULE AtNetworkMode ----------------------------
(***************************************************************************)
(* AT+NWM and the raw LoRa AT package: the working mode in RAM and flash   *)
(* (src/src/at/commands/at_network_mode.c), the P2P and radio-test         *)
(* commands (commands/lora/*.c), and the raw LoRa service they drive       *)
(* (src/src/lora/lora.c) on its USP and Zephyr backends, at the grain of   *)
(* one call.  A mode switch is several steps, so that a fault or a power   *)
(* loss falls between starting the radio and saving the mode.              *)
(***************************************************************************)
EXTENDS Integers

CONSTANTS
    Builds,         \* Kconfig variants: [lorawan, lora, nvm : BOOLEAN, backend]
    FieldWrites,    \* single-parameter writes a host makes: <<command, value>>
    P2pWrites,      \* six-parameter writes of AT+P2P and AT+TCONF
    MaxCommands,    \* bound: commands of the host
    MaxBoots        \* bound: boots

P2P_LORA == 0
LORAWAN == 1
P2P_FSK == 2
Modes == {P2P_LORA, LORAWAN, P2P_FSK}
P2pModes == Modes \ {LORAWAN}
NoKey == 255        \* flash holds no rzi/nwm

ASSUME ModeAssumption ==
    /\ Builds \subseteq [lorawan : BOOLEAN, lora : BOOLEAN, nvm : BOOLEAN, backend : {"usp", "zephyr"}]
    /\ \A b \in Builds : b.nvm => b.lorawan      \* RZI_AT_NVM depends on RZI_AT_COMMAND_LORAWAN
    /\ P2pWrites \subseteq [1..6 -> Nat]     \* parse_colon_u32()
    /\ MaxCommands \in Nat /\ MaxBoots \in Nat

VARIABLES
    build,          \* the firmware, fixed
    faulty,         \* TRUE: starting the raw radio faults and resets the device; fixed
    mode,           \* network_mode
    nvm,            \* rzi/nwm in flash
    pending,        \* p2p_start_pending
    thread,         \* where the AT thread is; "off" before a boot, "failed" when AT did not start
    previous,       \* the local of handle_nwm()
    radio,          \* the raw LoRa service and its backend
    config,         \* struct rzi_lora_config, by the command that writes each field
    adrift,         \* TRUE: a delete of rzi/nwm failed or was not followed by a reboot
    handled, boots  \* commands and boots so far

vars == <<build, faulty, mode, nvm, pending, thread, previous, radio, config, adrift, handled,
          boots>>

-----------------------------------------------------------------------------
(* lora.c and its backends: results as a set, [radio, rc] *)

RadioOff == [started |-> FALSE, opened |-> FALSE, modulation |-> P2P_LORA, test |-> FALSE,
             tx |-> "idle", rx |-> FALSE, rx_flag |-> FALSE]

Result(r, rc) == [radio |-> r, rc |-> rc]

\* rzi_lora_init(): only opening the radio can fail, or fault.
rzi_lora_init(r, m) ==
    LET up == [r EXCEPT !.started = TRUE, !.opened = TRUE, !.modulation = m]
    IN  IF r.opened THEN {Result(up, "OK")}
        ELSE IF faulty THEN {Result(r, "FAULT")}
        ELSE {Result(up, "OK"), Result(r, "AT_ERROR")}

\* The modem may refuse to leave test mode; the P2P transactions are over by then.
rzi_lora_stop(r) ==
    LET idle == [r EXCEPT !.rx = FALSE, !.tx = "idle"]
        down == [idle EXCEPT !.started = FALSE, !.test = FALSE, !.rx_flag = FALSE]
    IN  {Result(down, "OK")} \cup IF r.test THEN {Result(idle, "AT_ERROR")} ELSE {}

\* usp_send() leaves test mode and gives the frame to the radio, which finishes later.
\* zephyr_send() blocks until the end and reports it from within the call.
rzi_lora_send(r) ==
    LET p2p == [r EXCEPT !.test = FALSE]
    IN  IF build.backend = "zephyr"
        THEN {Result(r, "AT_ERROR")} \cup IF r.modulation = P2P_FSK THEN {} ELSE {Result(r, "OK")}
        ELSE (IF r.test THEN {Result(r, "AT_ERROR")} ELSE {})
             \cup IF r.tx = "busy" THEN {Result(p2p, "AT_BUSY_ERROR")}
                  ELSE {Result(p2p, "AT_ERROR"), Result([p2p EXCEPT !.tx = "busy"], "OK")}

\* usp_receive() ends the window that is open; flag: what lora.c notes on success.
Receive(r, on, flag) ==
    LET idle == [r EXCEPT !.rx = FALSE]
    IN  IF build.backend = "zephyr"
        THEN (IF on THEN {Result(r, "AT_ERROR")} ELSE {})
             \cup IF on /\ r.modulation = P2P_FSK THEN {}
                  ELSE {Result([r EXCEPT !.rx_flag = IF flag THEN on ELSE @], "OK")}
        ELSE IF ~on THEN {Result([idle EXCEPT !.rx_flag = IF flag THEN FALSE ELSE @], "OK")}
        ELSE (IF r.test THEN {Result(idle, "AT_ERROR")} ELSE {})
             \cup {Result([idle EXCEPT !.test = FALSE], "AT_ERROR"),
                   Result([idle EXCEPT !.test = FALSE, !.rx = TRUE,
                                       !.rx_flag = IF flag THEN TRUE ELSE @], "OK")}

rzi_lora_receive(r, on) == Receive(r, on, TRUE)

\* TRSSI, TTONE, TTX, TTH and CW enter test mode, which cancels P2P; what the modem then
\* answers does not end it.  TRX and TRTH are a receive that the service does not note.
rzi_lora_test(r, test) ==
    IF build.backend = "zephyr" THEN {Result(r, "AT_ERROR")}
    ELSE IF test \in {"TRX", "TRTH"} THEN Receive(r, TRUE, FALSE)
    ELSE LET entered == IF r.test THEN r
                        ELSE [r EXCEPT !.test = TRUE, !.rx = FALSE,
                                       !.tx = IF @ = "busy" THEN "done" ELSE @]
         IN  {Result(entered, "OK"), Result(entered, "AT_ERROR"),
              Result([entered EXCEPT !.test = r.test], "AT_ERROR")}

-----------------------------------------------------------------------------
(* The configuration commands *)

u8(v) == v % 256
u16(v) == v % 65536
i8(v) == IF u8(v) > 127 THEN u8(v) - 256 ELSE u8(v)

\* What rzi_lora_set_config() accepts.
set_config_ok(c) == c.PSF \in 5..12 /\ c.PTP \in 5..22 /\ c.PPL >= 5 /\ c.PCR <= 3

\* The check of write_u32().
Between(min, max) == min..max

\* The range each single-parameter command checks; write_bool() and write_key() parse theirs.
write_range ==
    [PFREQ |-> Between(150000000, 960000000), PSF |-> Between(5, 12),
     PBW |-> Between(0, 960000000), PCR |-> Between(0, 3), PPL |-> Between(5, 65535),
     PTP |-> Between(5, 22), SYNCWORD |-> Between(0, 65535), PBR |-> Between(600, 300000),
     PFDEV |-> Between(600, 200000), ENCRY |-> 0..1, IQINVER |-> 0..1, CAD |-> 0..1,
     ENCKEY |-> 0..1, CRYPIV |-> 0..1]

DefaultConfig ==
    [PFREQ |-> 868000000, PSF |-> 7, PBW |-> 0, PCR |-> 0, PPL |-> 8, PTP |-> 14,
     SYNCWORD |-> 13380, PBR |-> 49152, PFDEV |-> 5000, ENCRY |-> 0, IQINVER |-> 0, CAD |-> 0,
     ENCKEY |-> 0, CRYPIV |-> 0]

\* The six parameters of AT+P2P and AT+TCONF, cut to the width of their fields.
p2p_config(c, v) ==
    [c EXCEPT !.PFREQ = v[1], !.PSF = u8(v[2]), !.PBW = v[3], !.PCR = u8(v[4]), !.PPL = u16(v[5]),
              !.PTP = i8(v[6])]

-----------------------------------------------------------------------------
(* at_network_mode.c and at_lora.c *)

Default == IF build.lorawan THEN LORAWAN ELSE P2P_LORA

\* What load_mode() makes of the key; without RZI_AT_NVM it is a stub.
Loaded(key) == IF build.nvm /\ key \in Modes THEN key ELSE Default

\* Storage calls, answered ok or not; the stubs do nothing and always succeed.
Storage(ok) == build.nvm \/ ok

\* The listener: without the raw LoRa package there is none.
on_network_mode(r, m) ==
    IF ~build.lora THEN {Result(r, "OK")}
    ELSE IF m = LORAWAN THEN rzi_lora_stop(r) ELSE rzi_lora_init(r, m)

ensure_started(r) ==
    IF mode = LORAWAN THEN {Result(r, "AT_BUSY_ERROR")}
    ELSE IF r.started THEN {Result(r, "OK")} ELSE rzi_lora_init(r, mode)

\* Everything in RAM is lost.
Lose ==
    /\ thread' = "off" /\ pending' = FALSE /\ radio' = RadioOff /\ config' = DefaultConfig
    /\ UNCHANGED <<build, faulty, mode, previous>>

Init ==
    /\ build \in Builds
    /\ faulty \in BOOLEAN /\ (faulty => build.lorawan)    \* the raw LoRa image needs its radio
    /\ nvm = NoKey /\ mode = Default /\ previous = Default
    /\ pending = FALSE /\ thread = "off" /\ radio = RadioOff /\ config = DefaultConfig
    /\ adrift = FALSE /\ handled = 0 /\ boots = 0

\* load_mode() and the extension's start; unreadable flash fails rzi_at_start().
Boot(readable) ==
    /\ thread = "off" /\ boots < MaxBoots
    /\ Storage(readable)
    /\ boots' = boots + 1
    /\ adrift' = FALSE
    /\ mode' = IF readable THEN Loaded(nvm) ELSE Default
    /\ thread' = IF readable THEN "idle" ELSE "failed"
    /\ pending' = (readable /\ build.lora /\ mode' # LORAWAN)
    /\ UNCHANGED <<build, faulty, nvm, previous, radio, config, handled>>

PowerLoss ==
    /\ thread # "off"
    /\ Lose
    /\ UNCHANGED <<nvm, adrift, handled, boots>>

\* rzi_at_network_mode_restore_default(): RAM first, then the delete, whose error is ignored.
restore_default(deleted) ==
    /\ Storage(deleted)
    /\ mode' = Default
    /\ nvm' = IF deleted THEN NoKey ELSE nvm
    /\ adrift' = (adrift \/ (~deleted /\ Loaded(nvm) # Default))

\* Mutant: a start that fails leaves the mode as it is.
ProcessKeepsMode(deleted) ==
    /\ thread = "idle" /\ pending
    /\ \E out \in IF mode = LORAWAN THEN {Result(radio, "OK")} ELSE ensure_started(radio) :
         IF out.rc = "FAULT" THEN Lose /\ UNCHANGED <<nvm, adrift>>
         ELSE /\ radio' = out.radio
              /\ pending' = FALSE
              /\ UNCHANGED <<build, faulty, thread, previous, config, mode, nvm, adrift>>
    /\ UNCHANGED <<handled, boots>>

\* The pending start, on the AT thread, after the input of this wake.
extension_process(deleted) ==
    /\ thread = "idle" /\ pending
    /\ \E out \in IF mode = LORAWAN THEN {Result(radio, "OK")} ELSE ensure_started(radio) :
         IF out.rc = "FAULT" THEN Lose /\ UNCHANGED <<nvm, adrift>>
         ELSE /\ radio' = out.radio
              /\ pending' = FALSE
              /\ IF out.rc = "OK" THEN UNCHANGED <<mode, nvm, adrift>> ELSE restore_default(deleted)
              /\ UNCHANGED <<build, faulty, thread, previous, config>>
    /\ UNCHANGED <<handled, boots>>

Command ==
    /\ thread = "idle" /\ handled < MaxCommands
    /\ handled' = handled + 1

\* A switch to another mode that the build supports; all else answers and changes nothing.
HandleNwm(m) ==
    /\ Command
    /\ m # mode /\ (m # LORAWAN => build.lora)
    /\ previous' = mode
    /\ mode' = m
    /\ thread' = "notify"
    /\ UNCHANGED <<build, faulty, nvm, pending, radio, config, adrift, boots>>

\* Mutant: the mode is in flash before the radio has started.
NotifySavesFirst ==
    /\ thread = "notify"
    /\ nvm' = IF build.nvm THEN mode ELSE nvm
    /\ \E out \in on_network_mode(radio, mode) :
         IF out.rc = "FAULT" THEN Lose
         ELSE /\ radio' = out.radio
              /\ thread' = IF out.rc = "OK" THEN "save" ELSE "rollback"
              /\ UNCHANGED <<build, faulty, mode, pending, previous, config>>
    /\ UNCHANGED <<adrift, handled, boots>>

\* The radio starts or stops before anything is saved.
notify_listeners ==
    /\ thread = "notify"
    /\ \E out \in on_network_mode(radio, mode) :
         IF out.rc = "FAULT" THEN Lose
         ELSE /\ radio' = out.radio
              /\ thread' = IF out.rc = "OK" THEN "save" ELSE "rollback"
              /\ UNCHANGED <<build, faulty, mode, pending, previous, config>>
    /\ UNCHANGED <<nvm, adrift, handled, boots>>

\* A saved switch reboots an image with LoRaWAN; the raw LoRa image, which saves nothing, goes on.
save_mode(ok) ==
    /\ thread = "save"
    /\ Storage(ok)
    /\ nvm' = IF ok /\ build.nvm THEN mode ELSE nvm
    /\ IF ok /\ build.lorawan THEN Lose
       ELSE /\ thread' = IF ok THEN "idle" ELSE "rollback"
            /\ UNCHANGED <<build, faulty, mode, pending, previous, radio, config>>
    /\ adrift' = (adrift /\ ~ok)
    /\ UNCHANGED <<handled, boots>>

\* Mutant: the listeners are not told that the switch is undone.
RollbackSilent ==
    /\ thread = "rollback"
    /\ mode' = previous
    /\ thread' = "idle"
    /\ UNCHANGED <<build, faulty, nvm, pending, previous, radio, config, adrift, handled, boots>>

\* The previous mode again, in RAM and for the listeners, whose error is ignored.
Rollback ==
    /\ thread = "rollback"
    /\ \E out \in on_network_mode(radio, previous) :
         IF out.rc = "FAULT" THEN Lose
         ELSE /\ mode' = previous
              /\ radio' = out.radio
              /\ thread' = "idle"
              /\ UNCHANGED <<build, faulty, pending, previous, config>>
    /\ UNCHANGED <<nvm, adrift, handled, boots>>

\* ATR and AT+FACTORY: this package deletes rzi/nwm; the device reboots when all succeeded.
FactoryReset(deleted, others) ==
    /\ Command
    /\ Storage(deleted)
    /\ nvm' = IF deleted THEN NoKey ELSE nvm
    /\ IF deleted /\ others THEN Lose
       ELSE UNCHANGED <<build, faulty, mode, pending, thread, previous, radio, config>>
    /\ adrift' = (adrift \/ (deleted /\ Loaded(nvm) # Default))
    /\ UNCHANGED boots

\* write_u32(), write_bool() and write_key(); none of them looks at the mode.
WriteField(name, value) ==
    /\ Command /\ build.lora
    /\ value \in write_range[name]
    /\ config' = [config EXCEPT ![name] = value]
    /\ UNCHANGED <<build, faulty, mode, nvm, pending, thread, previous, radio, adrift, boots>>

\* handle_p2p() and handle_tconf().
HandleP2p(v) ==
    /\ Command /\ build.lora
    /\ set_config_ok(p2p_config(config, v))
    /\ config' = p2p_config(config, v)
    /\ UNCHANGED <<build, faulty, mode, nvm, pending, thread, previous, radio, adrift, boots>>

\* A command that starts the radio when it has to, then calls it.
\* Every failure of the call itself leaves its own traces in the radio.
WithRadio(call(_)) ==
    /\ Command /\ build.lora
    /\ \E ready \in ensure_started(radio) :
         IF ready.rc = "FAULT" THEN Lose
         ELSE \E out \in IF ready.rc = "OK" THEN call(ready.radio) ELSE {ready} :
                 /\ radio' = out.radio
                 /\ UNCHANGED <<build, faulty, mode, pending, thread, previous, config>>
    /\ UNCHANGED <<nvm, adrift, boots>>

Psend == WithRadio(rzi_lora_send)

Precv(on) ==
    LET receive(r) == rzi_lora_receive(r, on)
    IN  WithRadio(receive)

Test(test) ==
    LET run(r) == rzi_lora_test(r, test)
    IN  WithRadio(run)

\* The radio finishes a transmission; TOFF's modem command leaves all of this as it is.
TxDone ==
    /\ radio.tx = "busy"
    /\ radio' = [radio EXCEPT !.tx = "done"]
    /\ UNCHANGED <<build, faulty, mode, nvm, pending, thread, previous, config, adrift, handled, boots>>

\* A timed window ends.
RxDone ==
    /\ radio.rx
    /\ radio' = [radio EXCEPT !.rx = FALSE]
    /\ UNCHANGED <<build, faulty, mode, nvm, pending, thread, previous, config, adrift, handled, boots>>

\* rzi_lora_poll() on the AT thread: +EVT:TXP2P DONE or ERROR.
Poll ==
    /\ thread = "idle" /\ ~pending /\ radio.tx = "done"
    /\ radio' = [radio EXCEPT !.tx = "idle"]
    /\ UNCHANGED <<build, faulty, mode, nvm, pending, thread, previous, config, adrift, handled, boots>>

ModeThread ==
    \/ \E deleted \in BOOLEAN : extension_process(deleted)
    \/ notify_listeners
    \/ \E ok \in BOOLEAN : save_mode(ok)
    \/ Rollback
    \/ Poll

Host ==
    \/ \E m \in Modes : HandleNwm(m)
    \/ \E deleted, others \in BOOLEAN : FactoryReset(deleted, others)
    \/ \E w \in FieldWrites : WriteField(w[1], w[2])
    \/ \E v \in P2pWrites : HandleP2p(v)
    \/ Psend
    \/ \E on \in BOOLEAN : Precv(on)
    \/ \E test \in {"TTONE", "TRX"} : Test(test)

Next ==
    \/ \E readable \in BOOLEAN : Boot(readable)
    \/ PowerLoss \/ TxDone \/ RxDone
    \/ ModeThread
    \/ Host

Spec == Init /\ [][Next]_vars
FairSpec == Spec /\ WF_vars(ModeThread)

-----------------------------------------------------------------------------
(* Properties *)

TypeOK ==
    /\ build \in Builds /\ faulty \in BOOLEAN
    /\ mode \in Modes /\ previous \in Modes /\ nvm \in Modes \cup {NoKey}
    /\ pending \in BOOLEAN /\ adrift \in BOOLEAN
    /\ thread \in {"off", "failed", "idle", "notify", "save", "rollback"}
    /\ radio \in [started : BOOLEAN, opened : BOOLEAN, modulation : P2pModes, test : BOOLEAN,
                  tx : {"idle", "busy", "done"}, rx : BOOLEAN, rx_flag : BOOLEAN]
    /\ DOMAIN config = DOMAIN DefaultConfig
    /\ handled \in 0..MaxCommands /\ boots \in 0..MaxBoots

\* at_network_mode.c: "A fault during USP init must not leave P2P mode in flash, or every
\* later boot faults too."  However commands, failures and power losses fall, flash holds no
\* P2P mode when the radio start faults, so no boot does.
FlashModeStarts == faulty => nvm \notin P2pModes

\* Between two commands the raw radio runs only in a P2P mode, with that mode's modulation,
\* and the modem is in test mode, which suspends LoRaWAN, only then: a switch that fails at
\* the radio or at the save, at any point, puts the radio back as well.
RadioFollowsMode ==
    (thread = "idle" /\ (radio.started \/ radio.test \/ radio.rx)) =>
        mode \in P2pModes /\ radio.modulation = mode

\* Between two commands of an image with LoRaWAN the mode in RAM is the one the next boot
\* comes up in, unless a delete of the key failed, or succeeded in a factory reset that failed
\* elsewhere and did not reboot.  Where RZI_AT_NVM is off too: the reboot that ends a switch
\* undoes it.  The raw LoRa image has no RZI_AT_NVM and comes up in P2P_LORA.
ModeSurvives == (thread = "idle" /\ ~adrift /\ build.lorawan) => mode = Loaded(nvm)

\* Flash holds no mode that cannot start, and an image with LoRaWAN is in the mode it will
\* come up in again.
ModeKept == TypeOK /\ FlashModeStarts /\ ModeSurvives

\* Without the exceptions, for every image.
ModeAlwaysSurvives == thread = "idle" => mode = Loaded(nvm)

\* The configuration given to the radio is within the limits of doc/lora-api.md, whatever
\* the host types: the six-parameter commands check what is left after cutting to width.
ConfigInRange ==
    /\ config.PSF \in Between(5, 12) /\ config.PTP \in Between(5, 22)
    /\ config.PPL \in Between(5, 65535) /\ config.PCR \in Between(0, 3)

\* The radio runs in the P2P mode in effect, or that is LoRaWAN or the image's default.
Usable == mode \in {LORAWAN, Default} \/ (radio.started /\ radio.modulation = mode)

\* A P2P mode found at boot is resolved: the AT thread starts its radio or, when that fails,
\* restores the default mode, whatever commands come first; it is not left in a mode that
\* was loaded and does not work.
StartResolves == (thread = "idle" /\ pending) ~> (~pending /\ Usable) \/ thread = "off"

\* doc/at-command-compatibility.md, of the P2P and radio-test commands: "They return
\* `AT_BUSY_ERROR` while `AT+NWM=1`."
BusyInLorawan == [][(thread = "idle" /\ thread' = "idle" /\ mode = LORAWAN) => config' = config]_vars

\* doc/lora-api.md: "Spreading factor 5 through 12, TX power 5 through 22 dBm."  What a host
\* types beyond that is refused.
LimitsRefused == \A v \in P2pWrites : ENABLED HandleP2p(v) => v[2] \in 5..12 /\ v[6] \in 5..22
=============================================================================
