------------------------------ MODULE AtProofs ------------------------------
(***************************************************************************)
(* Proofs about the AT service and its packages, for every value of their  *)
(* constants: the mode that AT+NWM keeps (AtNetworkMode), the join and     *)
(* uplink commands (AtLorawan), and the line discipline and the system     *)
(* settings (AtService).                                                   *)
(***************************************************************************)
EXTENDS AtNetworkMode, AtLorawan, AtService, FiniteSetTheorems, FunctionTheorems,
        SequenceTheorems, TLAPS

-----------------------------------------------------------------------------
(* AtNetworkMode: the working mode *)

Threads == {"off", "failed", "idle", "notify", "save", "rollback"}
RadioState ==
    [started : BOOLEAN, opened : BOOLEAN, modulation : P2pModes, test : BOOLEAN,
     tx : {"idle", "busy", "done"}, rx : BOOLEAN, rx_flag : BOOLEAN]

-----------------------------------------------------------------------------
(* The calls of the raw LoRa service *)

Active(r) == r.started \/ r.test \/ r.rx

\* What an active radio does is what mode m asks for.
Fits(r, m) == Active(r) => m \in P2pModes /\ r.modulation = m

\* Only a radio that is open, in a build that has it and does not fault, is active.
Sound(r) ==
    /\ r \in RadioState
    /\ Active(r) => r.opened
    /\ r.opened => build.lora /\ ~faulty

LEMMA InitRadio ==
    ASSUME NEW r, Sound(r), build.lora, faulty \in BOOLEAN, NEW m \in P2pModes, NEW out \in rzi_lora_init(r, m)
    PROVE  /\ out.rc \in {"OK", "AT_ERROR", "FAULT"}
           /\ faulty => out.rc = "FAULT"
           /\ out.rc # "FAULT" => Sound(out.radio)
           /\ out.rc = "OK" => Fits(out.radio, m) /\ out.radio.test = r.test /\ out.radio.started
           /\ out.rc = "AT_ERROR" => out.radio = r /\ ~Active(r)
<1> DEFINE up == [r EXCEPT !.started = TRUE, !.opened = TRUE, !.modulation = m]
<1>1. up \in RadioState /\ up.modulation = m /\ up.test = r.test /\ up.opened /\ up.started
  BY DEF Sound, RadioState
<1>2. ~faulty => Sound(up)
  BY <1>1 DEF Sound
<1>3. Fits(up, m)
  BY <1>1 DEF Fits
<1> HIDE DEF up
<1>4. CASE r.opened
  <2>1. out = Result(up, "OK")
    BY <1>4 DEF rzi_lora_init, up
  <2>2. out.radio = up /\ out.rc = "OK"
    BY <2>1 DEF Result
  <2> QED BY <1>1, <1>2, <1>3, <1>4, <2>2 DEF Sound
<1>5. CASE ~r.opened /\ faulty
  <2>1. out = Result(r, "FAULT")
    BY <1>5 DEF rzi_lora_init
  <2>2. out.rc = "FAULT"
    BY <2>1 DEF Result
  <2> QED BY <1>5, <2>2
<1>6. CASE ~r.opened /\ ~faulty
  <2>1. out = Result(up, "OK") \/ out = Result(r, "AT_ERROR")
    BY <1>6 DEF rzi_lora_init, up
  <2>2. (out.radio = up /\ out.rc = "OK") \/ (out.radio = r /\ out.rc = "AT_ERROR")
    BY <2>1 DEF Result
  <2> QED BY <1>1, <1>2, <1>3, <1>6, <2>2 DEF Sound
<1> QED BY <1>4, <1>5, <1>6

LEMMA StopRadio ==
    ASSUME NEW r, Sound(r), NEW out \in rzi_lora_stop(r)
    PROVE  /\ out.rc \in {"OK", "AT_ERROR"} /\ Sound(out.radio)
           /\ out.rc = "OK" => ~Active(out.radio)
           /\ out.rc = "AT_ERROR" => r.test
<1> DEFINE idle == [r EXCEPT !.rx = FALSE, !.tx = "idle"]
           down == [idle EXCEPT !.started = FALSE, !.test = FALSE, !.rx_flag = FALSE]
<1>1. /\ idle \in RadioState /\ idle.opened = r.opened /\ idle.started = r.started /\ idle.test = r.test /\ ~idle.rx
  BY DEF Sound, RadioState
<1>2. down \in RadioState /\ down.opened = r.opened /\ ~down.started /\ ~down.test /\ ~down.rx
  BY DEF Sound, RadioState
<1>3. Sound(idle) /\ Sound(down) /\ ~Active(down)
  BY <1>1, <1>2 DEF Sound, Active
<1>4. out = Result(down, "OK") \/ (r.test /\ out = Result(idle, "AT_ERROR"))
  BY DEF rzi_lora_stop
<1> HIDE DEF idle, down
<1>5. (out.radio = down /\ out.rc = "OK") \/ (r.test /\ out.radio = idle /\ out.rc = "AT_ERROR")
  BY <1>4 DEF Result
<1> QED BY <1>3, <1>5

\* What a call on a started radio leaves alone.
Kept(r, out) == Sound(out.radio) /\ out.radio.modulation = r.modulation

LEMMA SendKeeps ==
    ASSUME NEW r, Sound(r), r.started, NEW out \in rzi_lora_send(r)
    PROVE  Kept(r, out)
<1> DEFINE p2p == [r EXCEPT !.test = FALSE]
           busy == [p2p EXCEPT !.tx = "busy"]
<1>1. p2p \in RadioState /\ busy \in RadioState /\ p2p.opened = r.opened /\ busy.opened = r.opened
      /\ p2p.modulation = r.modulation /\ busy.modulation = r.modulation
  BY DEF Sound, RadioState
<1>2. r.opened
  BY DEF Sound, Active
<1>3. \E rc : out = Result(r, rc) \/ out = Result(p2p, rc) \/ out = Result(busy, rc)
  BY DEF rzi_lora_send
<1> HIDE DEF p2p, busy
<1>4. out.radio \in {r, p2p, busy}
  BY <1>3 DEF Result
<1> QED BY <1>1, <1>2, <1>4 DEF Kept, Sound

LEMMA ReceiveKeeps ==
    ASSUME NEW r, Sound(r), r.started, NEW on \in BOOLEAN, NEW flag \in BOOLEAN, NEW out \in Receive(r, on, flag)
    PROVE  Kept(r, out)
<1> DEFINE idle == [r EXCEPT !.rx = FALSE]
           a == [r EXCEPT !.rx_flag = IF flag THEN on ELSE @]
           b == [idle EXCEPT !.rx_flag = IF flag THEN FALSE ELSE @]
           c == [idle EXCEPT !.test = FALSE]
           d == [idle EXCEPT !.test = FALSE, !.rx = TRUE, !.rx_flag = IF flag THEN TRUE ELSE @]
<1>a. idle \in RadioState /\ idle.opened = r.opened /\ idle.modulation = r.modulation
  BY DEF Sound, RadioState
<1>b. a \in RadioState /\ a.opened = r.opened /\ a.modulation = r.modulation
  BY DEF Sound, RadioState
<1>c. b \in RadioState /\ b.opened = r.opened /\ b.modulation = r.modulation
  <2> HIDE DEF idle
  <2> QED BY <1>a DEF RadioState
<1>d. c \in RadioState /\ c.opened = r.opened /\ c.modulation = r.modulation
  <2> HIDE DEF idle
  <2> QED BY <1>a DEF RadioState
<1>e. d \in RadioState /\ d.opened = r.opened /\ d.modulation = r.modulation
  <2> HIDE DEF idle
  <2> QED BY <1>a DEF RadioState
<1>2. r.opened
  BY DEF Sound, Active
<1>3. \E rc : \/ out = Result(r, rc) \/ out = Result(idle, rc) \/ out = Result(a, rc) \/ out = Result(b, rc)
              \/ out = Result(c, rc) \/ out = Result(d, rc)
  BY DEF Receive
<1> HIDE DEF idle, a, b, c, d
<1>4. out.radio \in {r, idle, a, b, c, d}
  BY <1>3 DEF Result
<1> QED BY <1>a, <1>b, <1>c, <1>d, <1>e, <1>2, <1>4 DEF Kept, Sound

LEMMA TestKeeps ==
    ASSUME NEW r, Sound(r), r.started, NEW test, NEW out \in rzi_lora_test(r, test)
    PROVE  Kept(r, out)
<1> DEFINE entered == IF r.test THEN r
                      ELSE [r EXCEPT !.test = TRUE, !.rx = FALSE, !.tx = IF @ = "busy" THEN "done" ELSE @]
           back == [entered EXCEPT !.test = r.test]
<1>1. entered \in RadioState /\ entered.opened = r.opened /\ entered.modulation = r.modulation
  BY DEF Sound, RadioState
<1>2. back \in RadioState /\ back.opened = r.opened /\ back.modulation = r.modulation
  <2> HIDE DEF entered
  <2> QED BY <1>1 DEF Sound, RadioState
<1>3. r.opened
  BY DEF Sound, Active
<1>4. out \in Receive(r, TRUE, FALSE) \/ \E rc : out = Result(r, rc) \/ out = Result(entered, rc) \/ out = Result(back, rc)
  BY DEF rzi_lora_test
<1> HIDE DEF entered, back
<1>5. CASE out \in Receive(r, TRUE, FALSE)
  BY <1>5, ReceiveKeeps
<1>6. CASE \E rc : out = Result(r, rc) \/ out = Result(entered, rc) \/ out = Result(back, rc)
  <2>1. out.radio \in {r, entered, back}
    BY <1>6 DEF Result
  <2> QED BY <1>1, <1>2, <1>3, <2>1 DEF Kept, Sound
<1> QED BY <1>4, <1>5, <1>6

\* The listener of a switch.
LEMMA ListenerRadio ==
    ASSUME NEW r, Sound(r), faulty \in BOOLEAN, NEW m \in Modes, NEW out \in on_network_mode(r, m)
    PROVE  /\ out.rc \in {"OK", "AT_ERROR", "FAULT"}
           /\ out.rc # "FAULT" => Sound(out.radio)
           /\ out.rc = "OK" => Fits(out.radio, m) /\ (~r.test => ~out.radio.test)
           /\ out.rc = "AT_ERROR" => (m = LORAWAN /\ r.test) \/ (out.radio = r /\ ~Active(r))
           /\ faulty /\ m \in P2pModes /\ build.lora => out.rc = "FAULT"
<1>1. CASE ~build.lora
  <2>1. out.radio = r /\ out.rc = "OK"
    BY <1>1 DEF on_network_mode, Result
  <2> QED BY <1>1, <2>1 DEF Sound, Fits
<1>2. CASE build.lora /\ m = LORAWAN
  <2>1. out \in rzi_lora_stop(r) /\ m \notin P2pModes
    BY <1>2 DEF on_network_mode, P2pModes
  <2>2. /\ out.rc \in {"OK", "AT_ERROR"} /\ Sound(out.radio)
        /\ out.rc = "OK" => ~Active(out.radio)
        /\ out.rc = "AT_ERROR" => r.test
    BY <2>1, StopRadio
  <2> QED BY <1>2, <2>1, <2>2 DEF Fits, Active
<1>3. CASE build.lora /\ m # LORAWAN
  <2>1. out \in rzi_lora_init(r, m) /\ m \in P2pModes
    BY <1>3 DEF on_network_mode, P2pModes
  <2> QED BY <1>3, <2>1, InitRadio
<1> QED BY <1>1, <1>2, <1>3

LEMMA EnsureRadio ==
    ASSUME Sound(radio), Fits(radio, mode), build.lora, faulty \in BOOLEAN, mode \in Modes,
           NEW out \in ensure_started(radio)
    PROVE  /\ out.rc # "FAULT" => Sound(out.radio) /\ Fits(out.radio, mode)
           /\ out.rc = "OK" => out.radio.started
           /\ out.rc \notin {"OK", "FAULT"} => ~Active(out.radio)
<1>1. CASE mode = LORAWAN
  <2>1. out.radio = radio /\ out.rc = "AT_BUSY_ERROR" /\ ~Active(radio)
    BY <1>1 DEF ensure_started, Result, Fits, P2pModes
  <2> QED BY <2>1
<1>2. CASE mode # LORAWAN /\ radio.started
  <2>1. out.radio = radio /\ out.rc = "OK"
    BY <1>2 DEF ensure_started, Result
  <2> QED BY <1>2, <2>1
<1>3. CASE mode # LORAWAN /\ ~radio.started
  <2>1. out \in rzi_lora_init(radio, mode) /\ mode \in P2pModes
    BY <1>3 DEF ensure_started, P2pModes
  <2>2. /\ out.rc \in {"OK", "AT_ERROR", "FAULT"}
        /\ out.rc # "FAULT" => Sound(out.radio)
        /\ out.rc = "OK" => Fits(out.radio, mode) /\ out.radio.started
        /\ out.rc = "AT_ERROR" => out.radio = radio /\ ~Active(radio)
    BY <2>1, InitRadio
  <2> QED BY <2>2
<1> QED BY <1>1, <1>2, <1>3

-----------------------------------------------------------------------------
(* The radio through a switch *)

\* Which mode the radio fits at each step of a switch.  A switch away from LORAWAN finds the
\* modem out of test mode, so undoing it stops the radio for certain.
RadioInv ==
    /\ Sound(radio)
    /\ thread \in {"off", "failed"} => ~Active(radio)
    /\ thread = "idle" => Fits(radio, mode)
    /\ thread = "notify" => Fits(radio, previous)
    /\ thread = "save" => Fits(radio, mode)
    /\ thread \in {"save", "rollback"} => (previous = LORAWAN => ~radio.test)
    /\ pending => build.lora

LEMMA LoseRadio ==
    ASSUME Lose
    PROVE  RadioInv'
<1>1. RadioOff \in RadioState /\ ~Active(RadioOff) /\ ~RadioOff.opened
  BY DEF RadioOff, RadioState, Active, P2pModes, Modes, P2P_LORA, P2P_FSK, LORAWAN
<1>2. radio' = RadioOff /\ thread' = "off" /\ ~pending'
  BY DEF Lose
<1>3. Sound(radio)' /\ ~Active(radio)'
  BY <1>1, <1>2 DEF Sound, Active
<1> QED BY <1>2, <1>3 DEF RadioInv

\* A command on the radio, in one form for the three kinds.
LEMMA CommandRadio ==
    ASSUME TypeOK, RadioInv, NEW on \in BOOLEAN, NEW test, Psend \/ Precv(on) \/ Test(test)
    PROVE  \/ Lose
           \/ /\ Sound(radio') /\ Fits(radio', mode)
              /\ UNCHANGED <<build, faulty, mode, pending, thread, previous, config>>
<1>0. thread = "idle" /\ build.lora /\ Sound(radio) /\ Fits(radio, mode) /\ faulty \in BOOLEAN /\ mode \in Modes
  BY DEF Psend, Precv, Test, WithRadio, Command, RadioInv, TypeOK
<1> SUFFICES ASSUME ~Lose
             PROVE  /\ Sound(radio') /\ Fits(radio', mode)
                    /\ UNCHANGED <<build, faulty, mode, pending, thread, previous, config>>
  OBVIOUS
<1>1. PICK ready \in ensure_started(radio) :
         /\ ready.rc # "FAULT"
         /\ UNCHANGED <<build, faulty, mode, pending, thread, previous, config>>
         /\ \E out : /\ radio' = out.radio
                     /\ IF ready.rc = "OK"
                        THEN \/ out \in rzi_lora_send(ready.radio) \/ out \in rzi_lora_receive(ready.radio, on)
                             \/ out \in rzi_lora_test(ready.radio, test)
                        ELSE out = ready
  <2>1. CASE Psend
    BY <2>1 DEF Psend, WithRadio
  <2>2. CASE Precv(on)
    BY <2>2 DEF Precv, WithRadio
  <2>3. CASE Test(test)
    BY <2>3 DEF Test, WithRadio
  <2> QED BY <2>1, <2>2, <2>3
<1>2. Sound(ready.radio) /\ Fits(ready.radio, mode) /\ (ready.rc = "OK" => ready.radio.started)
  BY <1>0, <1>1, EnsureRadio
<1>3. CASE ready.rc # "OK"
  BY <1>1, <1>2, <1>3
<1>4. CASE ready.rc = "OK"
  <2>1. PICK out : /\ radio' = out.radio
                   /\ \/ out \in rzi_lora_send(ready.radio) \/ out \in rzi_lora_receive(ready.radio, on)
                      \/ out \in rzi_lora_test(ready.radio, test)
    BY <1>1, <1>4
  <2>2. Kept(ready.radio, out)
    BY <1>2, <1>4, <2>1, SendKeeps, ReceiveKeeps, TestKeeps DEF rzi_lora_receive
  <2>3. mode \in P2pModes /\ ready.radio.modulation = mode
    BY <1>2, <1>4 DEF Fits, Active
  <2> QED BY <1>1, <2>1, <2>2, <2>3 DEF Kept, Fits
<1> QED BY <1>3, <1>4

LEMMA RadioNext ==
    ASSUME TypeOK, RadioInv, [Next]_vars
    PROVE  RadioInv'
<1>0. /\ Sound(radio) /\ radio \in RadioState /\ faulty \in BOOLEAN /\ mode \in Modes /\ previous \in Modes
      /\ pending \in BOOLEAN
  BY DEF RadioInv, TypeOK, Sound
<1> SUFFICES ASSUME ~Lose PROVE RadioInv'
  BY LoseRadio
<1>a. ASSUME Sound(radio'), Fits(radio', mode'), UNCHANGED <<build, faulty>>, thread' = "idle", pending' => build.lora
      PROVE  RadioInv'
  BY <1>a DEF RadioInv, Sound, Fits, Active
<1>1. ASSUME NEW readable \in BOOLEAN, Boot(readable) PROVE RadioInv'
  <2>1. ~Active(radio) /\ UNCHANGED <<build, faulty, radio>> /\ thread' \in {"idle", "failed"} /\ (pending' => build.lora)
    BY <1>1 DEF Boot, RadioInv
  <2> QED BY <1>0, <2>1 DEF RadioInv, Sound, Fits, Active
<1>2. CASE PowerLoss
  BY <1>2 DEF PowerLoss
<1>3. CASE TxDone \/ RxDone \/ Poll
  <2>1. UNCHANGED <<build, faulty, mode, pending, thread, previous>>
    BY <1>3 DEF TxDone, RxDone, Poll
  <2>2. /\ radio' \in RadioState /\ radio'.opened = radio.opened /\ radio'.modulation = radio.modulation
        /\ radio'.test = radio.test /\ radio'.started = radio.started /\ (radio'.rx => radio.rx)
    BY <1>0, <1>3 DEF TxDone, RxDone, Poll, RadioState
  <2>3. Active(radio') => Active(radio)
    BY <2>2 DEF Active
  <2>4. Sound(radio) => Sound(radio)'
    BY <2>1, <2>2, <2>3 DEF Sound, Active
  <2>5. (Fits(radio, mode) => Fits(radio, mode)') /\ (Fits(radio, previous) => Fits(radio, previous)')
    BY <2>1, <2>2, <2>3 DEF Fits, Active
  <2> QED BY <2>1, <2>2, <2>3, <2>4, <2>5 DEF RadioInv, Active
<1>4. ASSUME NEW deleted \in BOOLEAN, extension_process(deleted) PROVE RadioInv'
  <2>1. thread = "idle" /\ pending /\ build.lora /\ Fits(radio, mode)
    BY <1>4 DEF extension_process, RadioInv
  <2>2. PICK out \in IF mode = LORAWAN THEN {Result(radio, "OK")} ELSE ensure_started(radio) :
          /\ out.rc # "FAULT" /\ radio' = out.radio /\ ~pending'
          /\ IF out.rc = "OK" THEN UNCHANGED mode ELSE mode' = Default
          /\ UNCHANGED <<build, faulty, thread>>
    BY <1>4 DEF extension_process, restore_default
  <2>3. CASE mode = LORAWAN
    <3>1. out.radio = radio /\ out.rc = "OK"
      BY <2>2, <2>3 DEF Result
    <3> QED BY <1>0, <1>a, <2>1, <2>2, <3>1
  <2>4. CASE mode # LORAWAN
    <3>1. out \in ensure_started(radio)
      BY <2>2, <2>4
    <3>2. /\ Sound(out.radio) /\ Fits(out.radio, mode)
          /\ out.rc # "OK" => ~Active(out.radio)
      BY <1>0, <2>1, <2>2, <3>1, EnsureRadio
    <3>3. Fits(radio', mode')
      BY <2>2, <3>2 DEF Fits
    <3> QED BY <1>a, <2>1, <2>2, <3>2, <3>3
  <2> QED BY <2>3, <2>4
<1>5. CASE notify_listeners
  <2>1. thread = "notify" /\ Fits(radio, previous)
    BY <1>5 DEF notify_listeners, RadioInv
  <2>2. PICK out \in on_network_mode(radio, mode) :
          /\ out.rc # "FAULT" /\ radio' = out.radio /\ thread' = IF out.rc = "OK" THEN "save" ELSE "rollback"
          /\ UNCHANGED <<build, faulty, mode, pending, previous>>
    BY <1>5 DEF notify_listeners
  <2>3. /\ Sound(out.radio) /\ out.rc \in {"OK", "AT_ERROR"}
        /\ out.rc = "OK" => Fits(out.radio, mode) /\ (~radio.test => ~out.radio.test)
        /\ out.rc = "AT_ERROR" => (mode = LORAWAN /\ radio.test) \/ (out.radio = radio /\ ~Active(radio))
    BY <1>0, <2>2, ListenerRadio
  <2>4. previous = LORAWAN => ~radio.test
    BY <2>1 DEF Fits, Active, P2pModes
  <2>5. previous = LORAWAN => ~out.radio.test
    BY <2>3, <2>4
  <2>6. Sound(radio)' /\ (out.rc = "OK" => Fits(radio, mode)')
    BY <2>2, <2>3 DEF Sound, Fits, Active
  <2> QED BY <2>2, <2>5, <2>6 DEF RadioInv
<1>6. ASSUME NEW ok \in BOOLEAN, save_mode(ok) PROVE RadioInv'
  <2>1. /\ thread = "save" /\ thread' = IF ok THEN "idle" ELSE "rollback"
        /\ UNCHANGED <<build, faulty, mode, pending, previous, radio>>
    BY <1>6 DEF save_mode
  <2> QED BY <1>6, <2>1 DEF RadioInv, Sound, Fits, Active
<1>7. CASE Rollback
  <2>1. thread = "rollback" /\ (previous = LORAWAN => ~radio.test) /\ (pending => build.lora)
    BY <1>7 DEF Rollback, RadioInv
  <2>2. PICK out \in on_network_mode(radio, previous) :
          /\ out.rc # "FAULT" /\ radio' = out.radio /\ thread' = "idle" /\ mode' = previous
          /\ UNCHANGED <<build, faulty, pending>>
    BY <1>7 DEF Rollback
  <2>3. /\ Sound(out.radio) /\ out.rc \in {"OK", "AT_ERROR"}
        /\ out.rc = "OK" => Fits(out.radio, previous)
        /\ out.rc = "AT_ERROR" => (previous = LORAWAN /\ radio.test) \/ (out.radio = radio /\ ~Active(radio))
    BY <1>0, <2>2, ListenerRadio
  <2>4. Fits(radio', mode')
    BY <2>1, <2>2, <2>3 DEF Fits
  <2> QED BY <1>a, <2>1, <2>2, <2>3, <2>4
<1>8. ASSUME NEW m \in Modes, HandleNwm(m) PROVE RadioInv'
  <2>1. thread = "idle" /\ previous' = mode /\ thread' = "notify" /\ UNCHANGED <<build, faulty, pending, radio>>
    BY <1>8 DEF HandleNwm, Command
  <2> QED BY <2>1 DEF RadioInv, Sound, Fits, Active
<1>9. CASE UNCHANGED <<build, faulty, mode, pending, thread, previous, radio>>
  BY <1>9 DEF RadioInv, Sound, Fits, Active
<1>10. ASSUME NEW on \in BOOLEAN, NEW test, Psend \/ Precv(on) \/ Test(test) PROVE RadioInv'
  <2>1. Sound(radio') /\ Fits(radio', mode) /\ UNCHANGED <<build, faulty, mode, pending, thread>>
    BY <1>10, CommandRadio
  <2>2. thread = "idle" /\ (pending => build.lora)
    BY <1>10 DEF Psend, Precv, Test, WithRadio, Command, RadioInv
  <2> QED BY <1>a, <2>1, <2>2
<1>11. ASSUME NEW deleted \in BOOLEAN, NEW others \in BOOLEAN, FactoryReset(deleted, others) PROVE RadioInv'
  BY <1>9, <1>11 DEF FactoryReset
<1>12. ASSUME NEW name, NEW value, WriteField(name, value) PROVE RadioInv'
  BY <1>9, <1>12 DEF WriteField
<1>13. ASSUME NEW v, HandleP2p(v) PROVE RadioInv'
  BY <1>9, <1>13 DEF HandleP2p
<1>14. CASE UNCHANGED vars
  BY <1>9, <1>14 DEF vars
<1>15. CASE ModeThread
  BY <1>3, <1>4, <1>5, <1>6, <1>7, <1>15 DEF ModeThread
<1>16. CASE Host
  BY <1>8, <1>10, <1>11, <1>12, <1>13, <1>16 DEF Host
<1> QED BY <1>1, <1>2, <1>3, <1>14, <1>15, <1>16 DEF Next

-----------------------------------------------------------------------------
(* The mode in RAM and in flash *)

\* A radio that faults is never given a mode to save; a switch under way knows the mode
\* that flash still has.
ModeInv ==
    /\ faulty => build.lorawan /\ nvm \notin P2pModes
    /\ faulty /\ ~build.lora => mode = LORAWAN /\ previous = LORAWAN
    /\ faulty /\ thread = "save" => mode = LORAWAN
    /\ thread = "idle" /\ ~adrift /\ build.lorawan => mode = Loaded(nvm)
    /\ thread \in {"notify", "save", "rollback"} /\ ~adrift /\ build.lorawan => previous = Loaded(nvm)

LEMMA LoadedMode ==
    ASSUME NEW key
    PROVE  /\ Loaded(key) \in Modes /\ Default \in Modes /\ Loaded(NoKey) = Default
           /\ Loaded(key) \in {key, Default}
           /\ build.lorawan => Default = LORAWAN
BY DEF Loaded, Default, Modes, NoKey, P2P_LORA, LORAWAN, P2P_FSK

LEMMA ModeNext ==
    ASSUME TypeOK, RadioInv, ModeInv, [Next]_vars
    PROVE  ModeInv'
<1>0. /\ faulty \in BOOLEAN /\ mode \in Modes /\ previous \in Modes /\ nvm \in Modes \cup {NoKey} /\ adrift \in BOOLEAN
      /\ Sound(radio)
  BY DEF TypeOK, RadioInv
<1>l. ASSUME Lose, UNCHANGED nvm PROVE ModeInv'
  BY <1>l DEF Lose, ModeInv
<1>1. ASSUME NEW readable \in BOOLEAN, Boot(readable) PROVE ModeInv'
  <2>1. /\ UNCHANGED <<build, faulty, nvm, previous>> /\ thread' \in {"idle", "failed"}
        /\ mode' \in {Loaded(nvm), Default} /\ (thread' = "idle" => mode' = Loaded(nvm))
    BY <1>1 DEF Boot
  <2>2. Loaded(nvm)' = Loaded(nvm)
    BY <2>1 DEF Loaded, Default
  <2>3. faulty => Loaded(nvm) = LORAWAN /\ Default = LORAWAN
    BY <1>0, LoadedMode DEF ModeInv, P2pModes
  <2> QED BY <2>1, <2>2, <2>3 DEF ModeInv
<1>2. CASE PowerLoss
  BY <1>2, <1>l DEF PowerLoss
<1>4. ASSUME NEW deleted \in BOOLEAN, extension_process(deleted) PROVE ModeInv'
  <2>1. CASE Lose /\ UNCHANGED nvm
    BY <1>l, <2>1
  <2>2. CASE /\ UNCHANGED <<build, faulty, thread, previous, mode, nvm, adrift>>
    BY <2>2 DEF ModeInv, Loaded, Default
  <2>3. CASE restore_default(deleted) /\ UNCHANGED <<build, faulty, thread, previous>>
    <3>1. thread' = "idle" /\ mode' = Default /\ Default' = Default
      BY <1>4, <2>3 DEF extension_process, restore_default, Default
    <3>2. nvm' \in {nvm, NoKey} /\ (~adrift' => Loaded(nvm') = Default)
      BY <1>0, <2>3, LoadedMode DEF restore_default
    <3>3. Loaded(nvm)' = Loaded(nvm')
      BY <2>3 DEF Loaded, Default
    <3>4. faulty => Default = LORAWAN
      BY LoadedMode DEF ModeInv
    <3>5. NoKey \notin P2pModes
      BY DEF NoKey, P2pModes, Modes, P2P_LORA, LORAWAN, P2P_FSK
    <3> QED BY <2>3, <3>1, <3>2, <3>3, <3>4, <3>5 DEF ModeInv
  <2> QED BY <1>4, <2>1, <2>2, <2>3 DEF extension_process
<1>5. CASE notify_listeners
  <2>1. CASE Lose
    BY <1>5, <1>l, <2>1 DEF notify_listeners
  <2>2. CASE ~Lose
    <3>1. PICK out \in on_network_mode(radio, mode) :
            /\ out.rc # "FAULT" /\ thread' = IF out.rc = "OK" THEN "save" ELSE "rollback"
            /\ UNCHANGED <<build, faulty, mode, nvm, previous, adrift>>
      BY <1>5, <2>2 DEF notify_listeners
    <3>2. ~(faulty /\ mode \in P2pModes /\ build.lora)
      BY <1>0, <3>1, ListenerRadio
    <3>3. faulty => mode = LORAWAN
      BY <1>0, <3>2 DEF ModeInv, P2pModes
    <3>4. thread = "notify"
      BY <1>5 DEF notify_listeners
    <3> QED BY <3>1, <3>3, <3>4 DEF ModeInv, Loaded, Default
  <2> QED BY <2>1, <2>2
<1>6. ASSUME NEW ok \in BOOLEAN, save_mode(ok) PROVE ModeInv'
  <2>1. /\ thread = "save" /\ nvm' = (IF ok /\ build.nvm THEN mode ELSE nvm) /\ adrift' = (adrift /\ ~ok)
        /\ UNCHANGED <<build, faulty, mode, previous>>
        /\ thread' \in {"off", "idle", "rollback"} /\ (thread' = "idle" => ok /\ ~build.lorawan)
        /\ (thread' = "rollback" => ~ok)
    BY <1>6 DEF save_mode, Lose
  <2>2. Loaded(nvm)' = Loaded(nvm')
    BY <2>1 DEF Loaded, Default
  <2>3. faulty => nvm' \notin P2pModes
    BY <2>1 DEF ModeInv, P2pModes
  <2>4. CASE ok
    BY <2>1, <2>2, <2>3, <2>4 DEF ModeInv
  <2>5. CASE ~ok
    BY <2>1, <2>2, <2>3, <2>5 DEF ModeInv
  <2> QED BY <2>4, <2>5
<1>7. CASE Rollback
  <2>1. CASE Lose
    BY <1>7, <1>l, <2>1 DEF Rollback
  <2>2. CASE ~Lose
    <3>1. thread = "rollback" /\ mode' = previous /\ thread' = "idle" /\ UNCHANGED <<build, faulty, nvm, previous, adrift>>
      BY <1>7, <2>2 DEF Rollback
    <3> QED BY <3>1 DEF ModeInv, Loaded, Default
  <2> QED BY <2>1, <2>2
<1>8. ASSUME NEW m \in Modes, HandleNwm(m) PROVE ModeInv'
  <2>1. /\ thread = "idle" /\ previous' = mode /\ mode' = m /\ (m # LORAWAN => build.lora) /\ thread' = "notify"
        /\ UNCHANGED <<build, faulty, nvm, adrift>>
    BY <1>8 DEF HandleNwm, Command
  <2> QED BY <2>1 DEF ModeInv, Loaded, Default
<1>9. CASE UNCHANGED <<build, faulty, mode, nvm, thread, previous, adrift>>
  BY <1>9 DEF ModeInv, Loaded, Default
<1>10. ASSUME NEW on \in BOOLEAN, NEW test, Psend \/ Precv(on) \/ Test(test) PROVE ModeInv'
  <2>1. UNCHANGED <<nvm, adrift>>
    BY <1>10 DEF Psend, Precv, Test, WithRadio
  <2>2. Lose \/ UNCHANGED <<build, faulty, mode, thread, previous>>
    BY <1>10, CommandRadio
  <2> QED BY <1>9, <1>l, <2>1, <2>2
<1>11. ASSUME NEW deleted \in BOOLEAN, NEW others \in BOOLEAN, FactoryReset(deleted, others) PROVE ModeInv'
  <2>1. /\ thread = "idle" /\ nvm' = (IF deleted THEN NoKey ELSE nvm) /\ UNCHANGED <<build, faulty, mode, previous>>
        /\ thread' \in {"off", "idle"} /\ adrift' = (adrift \/ (deleted /\ Loaded(nvm) # Default))
    BY <1>11 DEF FactoryReset, Command, Lose
  <2>2. Loaded(nvm)' = Loaded(nvm') /\ Loaded(NoKey) = Default
    BY <2>1, LoadedMode DEF Loaded, Default
  <2>3. NoKey \notin P2pModes
    BY DEF NoKey, P2pModes, Modes, P2P_LORA, LORAWAN, P2P_FSK
  <2>4. CASE deleted
    BY <2>1, <2>2, <2>3, <2>4 DEF ModeInv
  <2>5. CASE ~deleted
    BY <2>1, <2>2, <2>5 DEF ModeInv
  <2> QED BY <2>4, <2>5
<1>12. ASSUME NEW name, NEW value, WriteField(name, value) PROVE ModeInv'
  BY <1>9, <1>12 DEF WriteField
<1>13. ASSUME NEW v, HandleP2p(v) PROVE ModeInv'
  BY <1>9, <1>13 DEF HandleP2p
<1>14. CASE UNCHANGED vars \/ TxDone \/ RxDone \/ Poll
  BY <1>9, <1>14 DEF vars, TxDone, RxDone, Poll
<1>15. CASE ModeThread
  BY <1>4, <1>5, <1>6, <1>7, <1>14, <1>15 DEF ModeThread
<1>16. CASE Host
  BY <1>8, <1>10, <1>11, <1>12, <1>13, <1>16 DEF Host
<1> QED BY <1>1, <1>2, <1>14, <1>15, <1>16 DEF Next

-----------------------------------------------------------------------------
(* The configuration *)

ConfigInv == ConfigInRange /\ config = [n \in DOMAIN DefaultConfig |-> config[n]]

LEMMA Fields ==
    /\ {"PSF", "PTP", "PPL", "PCR", "PFREQ", "PBW"} \subseteq DOMAIN DefaultConfig
    /\ write_range["PSF"] = Between(5, 12) /\ write_range["PTP"] = Between(5, 22)
    /\ write_range["PPL"] = Between(5, 65535) /\ write_range["PCR"] = Between(0, 3)
BY SMT DEF DefaultConfig, write_range

LEMMA IsBetween ==
    ASSUME NEW min \in Int, NEW max \in Int, NEW v \in Int, min <= v, v <= max
    PROVE  v \in Between(min, max)
BY DEF Between

LEMMA Cut ==
    ASSUME NEW v \in Nat
    PROVE  u16(v) \in Int /\ 0 <= u16(v) /\ u16(v) <= 65535 /\ u8(v) \in Int /\ 0 <= u8(v)
BY SMT DEF u16, u8

LEMMA DefaultInv ==
    ASSUME NEW c, c = DefaultConfig
    PROVE  /\ c.PSF \in Between(5, 12) /\ c.PTP \in Between(5, 22)
           /\ c.PPL \in Between(5, 65535) /\ c.PCR \in Between(0, 3)
           /\ c = [n \in DOMAIN DefaultConfig |-> c[n]]
<1>1. c.PSF = 7 /\ c.PTP = 14 /\ c.PPL = 8 /\ c.PCR = 0
  BY SMT DEF DefaultConfig
<1>2. 7 \in Between(5, 12) /\ 14 \in Between(5, 22) /\ 8 \in Between(5, 65535) /\ 0 \in Between(0, 3)
  BY IsBetween, SMT
<1>3. c = [n \in DOMAIN DefaultConfig |-> c[n]]
  BY SMT DEF DefaultConfig
<1> QED BY <1>1, <1>2, <1>3

LEMMA FieldStep ==
    ASSUME ConfigInv, NEW name, NEW value, WriteField(name, value)
    PROVE  ConfigInv'
<1>1. value \in write_range[name] /\ config' = [config EXCEPT ![name] = value]
  BY DEF WriteField
<1>2. config' = [n \in DOMAIN DefaultConfig |-> config'[n]]
  BY <1>1 DEF ConfigInv
<1>3. \A n \in DOMAIN DefaultConfig : config'[n] = IF n = name THEN value ELSE config[n]
  BY <1>1 DEF ConfigInv
<1>4. /\ config'["PSF"] \in Between(5, 12) /\ config'["PTP"] \in Between(5, 22)
      /\ config'["PPL"] \in Between(5, 65535) /\ config'["PCR"] \in Between(0, 3)
  BY <1>1, <1>3, Fields, SMT DEF ConfigInv, ConfigInRange
<1> QED BY <1>2, <1>4, SMT DEF ConfigInv, ConfigInRange

LEMMA P2pStep ==
    ASSUME ConfigInv, NEW v \in [1..6 -> Nat], HandleP2p(v)
    PROVE  ConfigInv'
<1>1. config' = p2p_config(config, v) /\ set_config_ok(config')
  BY DEF HandleP2p
<1>2. config' = [n \in DOMAIN DefaultConfig |-> config'[n]]
  BY <1>1 DEF ConfigInv, p2p_config
<1>3. config'.PPL = u16(v[5]) /\ config'.PCR = u8(v[4])
  BY <1>1, Fields, SMT DEF p2p_config, ConfigInv
<1>4. v[5] \in Nat /\ v[4] \in Nat
  OBVIOUS
<1>5. config'.PPL \in Between(5, 65535) /\ config'.PCR \in Between(0, 3)
  <2>1. config'.PPL >= 5 /\ config'.PCR <= 3
    BY <1>1 DEF set_config_ok
  <2>2. /\ config'.PPL \in Int /\ config'.PPL <= 65535
        /\ config'.PCR \in Int /\ 0 <= config'.PCR
    BY <1>3, <1>4, Cut, SMT
  <2>3. config'.PPL \in Between(5, 65535)
    BY <2>1, <2>2, IsBetween, SMT
  <2>4. config'.PCR \in Between(0, 3)
    BY <2>1, <2>2, IsBetween, SMT
  <2> QED BY <2>3, <2>4
<1>6. config'.PSF \in Between(5, 12) /\ config'.PTP \in Between(5, 22)
  BY <1>1, SMT DEF set_config_ok, Between
<1> QED BY <1>2, <1>5, <1>6 DEF ConfigInv, ConfigInRange

LEMMA ConfigNext ==
    ASSUME TypeOK, RadioInv, ConfigInv, [Next]_vars
    PROVE  ConfigInv'
<1>1. ASSUME UNCHANGED config PROVE ConfigInv'
  BY <1>1, SMT DEF ConfigInv, ConfigInRange
<1>2. ASSUME config' = DefaultConfig PROVE ConfigInv'
  BY <1>2, DefaultInv DEF ConfigInv, ConfigInRange
<1>3. ASSUME Lose PROVE ConfigInv'
  BY <1>2, <1>3 DEF Lose
<1>4. ASSUME NEW on \in BOOLEAN, NEW test, Psend \/ Precv(on) \/ Test(test) PROVE ConfigInv'
  <2>1. Lose \/ UNCHANGED config
    BY <1>4, CommandRadio
  <2> QED BY <1>1, <1>3, <2>1
<1>5. CASE Host
  BY <1>1, <1>3, <1>4, <1>5, FieldStep, P2pStep, ModeAssumption DEF Host, HandleNwm, FactoryReset
<1>6. CASE ModeThread
  BY <1>1, <1>3, <1>6 DEF ModeThread, extension_process, notify_listeners, save_mode, Rollback, Poll
<1>7. CASE UNCHANGED vars \/ TxDone \/ RxDone \/ PowerLoss \/ \E readable \in BOOLEAN : Boot(readable)
  BY <1>1, <1>3, <1>7 DEF vars, TxDone, RxDone, PowerLoss, Boot
<1> QED BY <1>5, <1>6, <1>7 DEF Next

-----------------------------------------------------------------------------
(* Types, and all of it together *)

\* TypeOK without the radio and the configuration.
RestTypes ==
    /\ build \in Builds /\ faulty \in BOOLEAN
    /\ mode \in Modes /\ previous \in Modes /\ nvm \in Modes \cup {NoKey}
    /\ pending \in BOOLEAN /\ adrift \in BOOLEAN /\ thread \in Threads
    /\ handled \in 0..MaxCommands /\ boots \in 0..MaxBoots

LEMMA TypeNext ==
    ASSUME TypeOK, RadioInv, RadioInv', ConfigInv', [Next]_vars
    PROVE  TypeOK'
<1>0. /\ RestTypes /\ Default \in Modes /\ Loaded(nvm) \in Modes
      /\ MaxCommands \in Nat /\ MaxBoots \in Nat
  BY ModeAssumption, LoadedMode DEF TypeOK, RestTypes, Threads
<1>1. radio' \in RadioState /\ DOMAIN config' = DOMAIN DefaultConfig
  BY DEF RadioInv, Sound, ConfigInv
<1> SUFFICES RestTypes'
  BY <1>1 DEF TypeOK, RestTypes, RadioState, Threads
<1>2. Command => handled' \in 0..MaxCommands
  BY <1>0 DEF Command, RestTypes
<1>3. ASSUME Lose, nvm' \in Modes \cup {NoKey}, adrift' \in BOOLEAN, Command \/ UNCHANGED handled, UNCHANGED boots
      PROVE  RestTypes'
  BY <1>0, <1>2, <1>3 DEF Lose, RestTypes, Threads
<1>4. ASSUME UNCHANGED <<build, faulty, mode, nvm, pending, thread, previous, adrift, boots>>, Command \/ UNCHANGED handled
      PROVE  RestTypes'
  BY <1>0, <1>2, <1>4 DEF RestTypes
<1>5. ASSUME NEW readable \in BOOLEAN, Boot(readable) PROVE RestTypes'
  <2>1. mode' \in Modes /\ thread' \in Threads /\ adrift' \in BOOLEAN
        /\ UNCHANGED <<build, faulty, nvm, previous, handled>>
    BY <1>0, <1>5 DEF Boot, Threads
  <2>2. pending' \in BOOLEAN
    BY <1>5 DEF Boot
  <2>3. boots' \in 0..MaxBoots
    BY <1>0, <1>5 DEF Boot, RestTypes
  <2> QED BY <1>0, <2>1, <2>2, <2>3 DEF RestTypes
<1>6. CASE PowerLoss
  BY <1>0, <1>3, <1>6 DEF PowerLoss, RestTypes
<1>7. ASSUME NEW deleted \in BOOLEAN, extension_process(deleted) PROVE RestTypes'
  <2>1. /\ UNCHANGED <<handled, boots>>
        /\ \/ Lose /\ UNCHANGED <<nvm, adrift>>
           \/ /\ UNCHANGED <<build, faulty, thread, previous>> /\ pending' = FALSE
              /\ UNCHANGED <<mode, nvm, adrift>> \/ restore_default(deleted)
    BY <1>7 DEF extension_process
  <2>2. restore_default(deleted) => mode' \in Modes /\ nvm' \in Modes \cup {NoKey} /\ adrift' \in BOOLEAN
    BY <1>0 DEF restore_default, RestTypes
  <2> QED BY <1>0, <1>3, <2>1, <2>2 DEF RestTypes
<1>8. CASE notify_listeners
  <2>1. /\ UNCHANGED <<nvm, adrift, handled, boots>>
        /\ Lose \/ (thread' \in Threads /\ UNCHANGED <<build, faulty, mode, pending, previous>>)
    BY <1>8 DEF notify_listeners, Threads
  <2> QED BY <1>0, <1>3, <2>1 DEF RestTypes
<1>9. ASSUME NEW ok \in BOOLEAN, save_mode(ok) PROVE RestTypes'
  <2>1. /\ UNCHANGED <<handled, boots>> /\ nvm' \in Modes \cup {NoKey} /\ adrift' \in BOOLEAN
        /\ Lose \/ (thread' \in Threads /\ UNCHANGED <<build, faulty, mode, pending, previous>>)
    BY <1>0, <1>9 DEF save_mode, Threads, RestTypes
  <2> QED BY <1>0, <1>3, <2>1 DEF RestTypes
<1>10. CASE Rollback
  <2>1. /\ UNCHANGED <<nvm, adrift, handled, boots>>
        /\ Lose \/ (thread' \in Threads /\ mode' = previous /\ UNCHANGED <<build, faulty, pending, previous>>)
    BY <1>10 DEF Rollback, Threads
  <2> QED BY <1>0, <1>3, <2>1 DEF RestTypes
<1>11. ASSUME NEW m \in Modes, HandleNwm(m) PROVE RestTypes'
  <2>1. /\ Command /\ previous' = mode /\ mode' = m /\ thread' \in Threads
        /\ UNCHANGED <<build, faulty, nvm, pending, adrift, boots>>
    BY <1>11 DEF HandleNwm, Threads
  <2> QED BY <1>0, <1>2, <2>1 DEF RestTypes
<1>12. ASSUME NEW deleted \in BOOLEAN, NEW others \in BOOLEAN, FactoryReset(deleted, others) PROVE RestTypes'
  <2>1. /\ Command /\ UNCHANGED boots /\ nvm' \in Modes \cup {NoKey} /\ adrift' \in BOOLEAN
        /\ Lose \/ UNCHANGED <<build, faulty, mode, pending, thread, previous>>
    BY <1>0, <1>12 DEF FactoryReset, RestTypes
  <2> QED BY <1>0, <1>2, <1>3, <2>1 DEF RestTypes
<1>13. ASSUME NEW on \in BOOLEAN, NEW test, Psend \/ Precv(on) \/ Test(test) PROVE RestTypes'
  <2>1. Command /\ UNCHANGED <<nvm, adrift, boots>>
    BY <1>13 DEF Psend, Precv, Test, WithRadio
  <2>2. Lose \/ UNCHANGED <<build, faulty, mode, pending, thread, previous>>
    BY <1>13, CommandRadio
  <2> QED BY <1>0, <1>3, <1>4, <2>1, <2>2 DEF RestTypes
<1>14. CASE Host
  BY <1>4, <1>11, <1>12, <1>13, <1>14 DEF Host, WriteField, HandleP2p
<1>15. CASE ModeThread
  BY <1>4, <1>7, <1>8, <1>9, <1>10, <1>15 DEF ModeThread, Poll
<1>16. CASE UNCHANGED vars \/ TxDone \/ RxDone
  BY <1>4, <1>16 DEF vars, TxDone, RxDone
<1> QED BY <1>5, <1>6, <1>14, <1>15, <1>16 DEF Next

LEMMA ModeAlways == Spec => [](TypeOK /\ RadioInv /\ ModeInv /\ ConfigInv)
<1>1. Init => TypeOK /\ RadioInv /\ ModeInv /\ ConfigInv
  <2> SUFFICES ASSUME Init PROVE TypeOK /\ RadioInv /\ ModeInv /\ ConfigInv
    OBVIOUS
  <2>0. /\ build \in Builds /\ faulty \in BOOLEAN /\ (faulty => build.lorawan) /\ nvm = NoKey /\ mode = Default
        /\ previous = Default /\ pending = FALSE /\ thread = "off" /\ radio = RadioOff /\ config = DefaultConfig
        /\ adrift = FALSE /\ handled = 0 /\ boots = 0
    BY DEF Init
  <2>1. RadioOff \in RadioState /\ ~Active(RadioOff) /\ ~RadioOff.opened
    BY DEF RadioOff, RadioState, Active, P2pModes, Modes, P2P_LORA, P2P_FSK, LORAWAN
  <2>2. RadioInv
    BY <2>0, <2>1 DEF RadioInv, Sound
  <2>3. NoKey \notin P2pModes
    BY DEF NoKey, P2pModes, Modes, P2P_LORA, LORAWAN, P2P_FSK
  <2>4. ModeInv
    BY <2>0, <2>3, LoadedMode DEF ModeInv
  <2>5. ConfigInv
    BY <2>0, DefaultInv DEF ConfigInv, ConfigInRange
  <2>6. TypeOK
    <3>1. handled \in 0..MaxCommands /\ boots \in 0..MaxBoots
      BY <2>0, ModeAssumption
    <3>2. mode \in Modes /\ previous \in Modes /\ DOMAIN config = DOMAIN DefaultConfig
      BY <2>0, LoadedMode
    <3>3. radio \in RadioState
      BY <2>0, <2>1
    <3> QED BY <2>0, <3>1, <3>2, <3>3 DEF TypeOK, RadioState
  <2> QED BY <2>2, <2>4, <2>5, <2>6
<1>2. TypeOK /\ RadioInv /\ ModeInv /\ ConfigInv /\ [Next]_vars => TypeOK' /\ RadioInv' /\ ModeInv' /\ ConfigInv'
  BY RadioNext, ModeNext, ConfigNext, TypeNext
<1> QED BY <1>1, <1>2, PTL DEF Spec

-----------------------------------------------------------------------------
(* Theorems *)

(* However commands, failing starts, failing saves, factory resets and     *)
(* power losses fall: in no build does flash hold a P2P mode whose radio   *)
(* faults at every boot, and in every image with LoRaWAN and AT storage    *)
(* the mode in RAM is, between commands, the one the next boot loads.      *)
THEOREM ModeIsKept == Spec => []ModeKept
<1>1. TypeOK /\ ModeInv => ModeKept
  BY DEF ModeInv, ModeKept, FlashModeStarts, ModeSurvives
<1> QED BY <1>1, ModeAlways, PTL

(* Between commands the raw radio and the modem's test mode run only in a  *)
(* P2P mode and with its modulation, whatever failed inside a switch.      *)
THEOREM RadioIsInMode == Spec => []RadioFollowsMode
<1>1. RadioInv => RadioFollowsMode
  BY DEF RadioInv, RadioFollowsMode, Fits, Active
<1> QED BY <1>1, ModeAlways, PTL

(* No command puts the radio's configuration out of its limits, for every  *)
(* number a host can type, those the C types cut included.                 *)
THEOREM ConfigIsInRange == Spec => []ConfigInRange
<1>1. ConfigInv => ConfigInRange
  BY DEF ConfigInv
<1> QED BY <1>1, ModeAlways, PTL

-----------------------------------------------------------------------------
(* AtLorawan: joins, uplinks and downlinks *)

Statuses == {"CONFIRMED", "SENT", "NOT_SENT"}
PlainEvent ==
    [type : {"READY", "STATE_READY", "STATE_JOINING", "ERROR", "JOINED", "JOIN_FAILED", "DOWNDATA"}]
TxDoneEvent == [type : {"TXDONE"}, confirmed : BOOLEAN, status : Statuses]
Event == PlainEvent \cup TxDoneEvent
Context ==
    [service_started : BOOLEAN, join_pending : BOOLEAN, device_class : Classes,
     confirmed_ok : BOOLEAN, tx_confirmed : BOOLEAN, downlink : Nat]
Service ==
    [started : BOOLEAN, ready : BOOLEAN, joining : BOOLEAN, retries : 0..Attempts,
     attempting : BOOLEAN, joined : BOOLEAN, tx : {"none", "confirmed", "unconfirmed"},
     class : Classes]

-----------------------------------------------------------------------------
(* The queue of events *)

Queued(q, type) == {i \in DOMAIN q : q[i].type = type}
Downs(q) == Cardinality(Queued(q, "DOWNDATA"))
NoTxDone(q) == \A i \in DOMAIN q : q[i].type # "TXDONE"
TxDoneSays(q, c) == \A i \in DOMAIN q : q[i].type = "TXDONE" => q[i].confirmed = c

\* Nothing was added to q that speaks of an uplink or a downlink.
Quieter(q, r) ==
    /\ r \in Seq(Event)
    /\ NoTxDone(q) => NoTxDone(r)
    /\ \A c \in BOOLEAN : TxDoneSays(q, c) => TxDoneSays(r, c)
    /\ Downs(r) <= Downs(q)

LEMMA DownsType ==
    ASSUME NEW q \in Seq(Event)
    PROVE  IsFiniteSet(Queued(q, "DOWNDATA")) /\ Downs(q) \in Nat
<1>1. IsFiniteSet(1..Len(q))
  BY FS_Interval
<1>2. Queued(q, "DOWNDATA") \subseteq 1..Len(q)
  BY DEF Queued
<1>3. IsFiniteSet(Queued(q, "DOWNDATA"))
  BY <1>1, <1>2, FS_Subset
<1> QED BY <1>3, FS_CardinalityType DEF Downs

\* An event added at the end adds itself and changes nothing before it.
LEMMA AppendQueued ==
    ASSUME NEW q \in Seq(Event), NEW e \in Event
    PROVE  /\ Append(q, e) \in Seq(Event)
           /\ e.type # "DOWNDATA" => Downs(Append(q, e)) = Downs(q)
           /\ e.type = "DOWNDATA" => Downs(Append(q, e)) = Downs(q) + 1
           /\ NoTxDone(q) /\ e.type # "TXDONE" => NoTxDone(Append(q, e))
           /\ \A c : TxDoneSays(q, c) /\ (e.type = "TXDONE" => e.confirmed = c) => TxDoneSays(Append(q, e), c)
<1> DEFINE r == Append(q, e)
           n == Len(q) + 1
<1>1. /\ r \in Seq(Event) /\ Len(r) = n /\ n \in Nat
      /\ DOMAIN r = 1..n /\ DOMAIN q = 1..Len(q)
      /\ r[n] = e
      /\ \A i \in 1..Len(q) : r[i] = q[i]
  OBVIOUS
<1>2. n \notin Queued(q, "DOWNDATA")
  BY <1>1 DEF Queued
<1>3. Queued(r, "DOWNDATA") = IF e.type = "DOWNDATA" THEN Queued(q, "DOWNDATA") \cup {n}
                              ELSE Queued(q, "DOWNDATA")
  BY <1>1 DEF Queued
<1>4. Cardinality(Queued(q, "DOWNDATA") \cup {n}) = Downs(q) + 1
  BY <1>2, DownsType, FS_AddElement DEF Downs
<1>5. NoTxDone(q) /\ e.type # "TXDONE" => NoTxDone(r)
  BY <1>1 DEF NoTxDone
<1>6. ASSUME NEW c, TxDoneSays(q, c), e.type = "TXDONE" => e.confirmed = c
      PROVE  TxDoneSays(r, c)
  BY <1>1, <1>6 DEF TxDoneSays
<1> QED BY <1>1, <1>3, <1>4, <1>5, <1>6 DEF Downs

\* Taking the head takes it away and changes nothing after it.
LEMMA TailQueued ==
    ASSUME NEW q \in Seq(Event), q # <<>>
    PROVE  /\ Tail(q) \in Seq(Event) /\ Head(q) \in Event
           /\ Head(q).type # "DOWNDATA" => Downs(Tail(q)) = Downs(q)
           /\ Head(q).type = "DOWNDATA" => Downs(Tail(q)) = Downs(q) - 1
           /\ NoTxDone(q) => NoTxDone(Tail(q)) /\ Head(q).type # "TXDONE"
           /\ \A c : TxDoneSays(q, c) =>
                 TxDoneSays(Tail(q), c) /\ (Head(q).type = "TXDONE" => Head(q).confirmed = c)
<1> DEFINE r == Tail(q)
           n == Len(q)
           A == Queued(r, "DOWNDATA")
           B == Queued(q, "DOWNDATA") \ {1}
           f == [i \in A |-> i + 1]
<1>1. /\ r \in Seq(Event) /\ Head(q) \in Event /\ n \in Nat /\ n > 0
      /\ DOMAIN r = 1..(n - 1) /\ DOMAIN q = 1..n
      /\ q[1] = Head(q)
      /\ \A i \in 1..(n - 1) : r[i] = q[i + 1]
  OBVIOUS
<1>2. NoTxDone(q) => NoTxDone(r) /\ Head(q).type # "TXDONE"
  BY <1>1 DEF NoTxDone
<1>3. ASSUME NEW c, TxDoneSays(q, c)
      PROVE  TxDoneSays(r, c) /\ (Head(q).type = "TXDONE" => Head(q).confirmed = c)
  BY <1>1, <1>3 DEF TxDoneSays
<1>4. Cardinality(A) = Cardinality(B)
  <2>1. \A i \in A : i \in Int /\ i >= 1 /\ i + 1 \in B
    BY <1>1 DEF Queued
  <2>2. \A j \in B : j \in Int /\ j - 1 \in A /\ j = (j - 1) + 1
    BY <1>1 DEF Queued
  <2>3. f \in Bijection(A, B)
    <3>1. f \in [A -> B]
      BY <2>1
    <3>2. \A a, b \in A : f[a] = f[b] => a = b
      BY <2>1
    <3>3. \A b \in B : \E a \in A : f[a] = b
      BY <2>2
    <3> QED BY <3>1, <3>2, <3>3, Fun_IsBij
  <2>4. IsFiniteSet(A)
    BY <1>1, DownsType
  <2>5. ExistsBijection(A, B)
    BY <2>3 DEF ExistsBijection
  <2> QED BY <2>4, <2>5, FS_Bijection
<1>5. Head(q).type # "DOWNDATA" => B = Queued(q, "DOWNDATA")
  BY <1>1 DEF Queued
<1>6. Head(q).type = "DOWNDATA" => 1 \in Queued(q, "DOWNDATA")
  BY <1>1 DEF Queued
<1>7. Head(q).type = "DOWNDATA" => Cardinality(B) = Cardinality(Queued(q, "DOWNDATA")) - 1
  BY <1>6, DownsType, FS_RemoveElement
<1> HIDE DEF A, B, r
<1> QED BY <1>1, <1>2, <1>3, <1>4, <1>5, <1>7 DEF Downs, A, r

LEMMA QuietAppend ==
    ASSUME NEW q \in Seq(Event), NEW e \in Event, e.type \notin {"TXDONE", "DOWNDATA"}
    PROVE  Quieter(q, Append(q, e))
<1>1. Downs(q) \in Nat
  BY DownsType
<1> QED BY <1>1, AppendQueued DEF Quieter

LEMMA QuietTail ==
    ASSUME NEW q \in Seq(Event), q # <<>>
    PROVE  Quieter(q, Tail(q))
<1>1. Downs(q) \in Nat
  BY DownsType
<1> QED BY <1>1, TailQueued DEF Quieter

LEMMA QuietSame ==
    ASSUME NEW q \in Seq(Event)
    PROVE  Quieter(q, q)
<1>1. Downs(q) \in Nat
  BY DownsType
<1> QED BY <1>1 DEF Quieter

LEMMA QuietThen ==
    ASSUME NEW q \in Seq(Event), NEW r, NEW s, Quieter(q, r), Quieter(r, s)
    PROVE  Quieter(q, s)
<1>1. r \in Seq(Event) /\ s \in Seq(Event)
  BY DEF Quieter
<1>2. Downs(q) \in Nat /\ Downs(r) \in Nat /\ Downs(s) \in Nat
  BY <1>1, DownsType
<1> QED BY <1>2 DEF Quieter

LEMMA StateEvents ==
    /\ StateReady \in Event /\ StateReady.type = "STATE_READY"
    /\ StateJoining \in Event /\ StateJoining.type = "STATE_JOINING"
BY DEF StateReady, StateJoining, Event, PlainEvent

LEMMA QuietPublish ==
    ASSUME NEW q \in Seq(Event), NEW e \in Event, e.type \notin {"TXDONE", "DOWNDATA"}
    PROVE  Quieter(q, publish(q, e)) /\ publish(q, e) \in Seq(Event)
<1>1. publish(q, e) = q \/ publish(q, e) = Append(q, e)
  BY DEF publish
<1> QED BY <1>1, QuietSame, QuietAppend DEF Quieter

\* What a call may publish.
Outs == {<<>>, <<StateReady>>, <<StateJoining>>, <<StateJoining, StateReady>>}

LEMMA PublishCases ==
    ASSUME NEW q, NEW out \in Outs
    PROVE  \/ PublishAll(q, out) = q
           \/ PublishAll(q, out) = publish(q, StateReady)
           \/ PublishAll(q, out) = publish(q, StateJoining)
           \/ PublishAll(q, out) = publish(publish(q, StateJoining), StateReady)
BY DEF Outs, PublishAll

LEMMA QuietPublishAll ==
    ASSUME NEW q \in Seq(Event), NEW out \in Outs
    PROVE  Quieter(q, PublishAll(q, out)) /\ PublishAll(q, out) \in Seq(Event)
<1> DEFINE j == publish(q, StateJoining)
<1>1. Quieter(q, j) /\ j \in Seq(Event) /\ Quieter(q, publish(q, StateReady))
  BY QuietPublish, StateEvents
<1>2. Quieter(j, publish(j, StateReady))
  BY <1>1, QuietPublish, StateEvents
<1>3. Quieter(q, publish(j, StateReady))
  BY <1>1, <1>2, QuietThen
<1>4. Quieter(q, PublishAll(q, out))
  BY <1>1, <1>3, QuietSame, PublishCases
<1> QED BY <1>4 DEF Quieter

-----------------------------------------------------------------------------
(* The invariant *)

LwTypes ==
    /\ ctx \in Context /\ svc \in Service /\ cfm \in BOOLEAN /\ arg \in BOOLEAN
    /\ events \in Seq(Event)
    /\ at \in {"boot", "idle", "join_start", "started", "stop", "send"}
    /\ disp \in {"idle", "class", "join"}
    /\ asked \in Nat /\ begun \in Nat /\ heard \in Nat /\ lines \in 0..MaxLines
    /\ read \subseteq Nat \X Nat

\* A join the dispatcher has been left to begin.
Deferred == ctx.join_pending \/ disp # "idle"
Once == ctx.join_pending => disp = "idle"

\* Joins asked for that have neither begun nor been given up.
Waiting == IF at = "join_start" THEN 1 ELSE 0
Left == IF Deferred THEN 1 ELSE 0

LwJoins ==
    /\ begun + Waiting + Left <= asked
    /\ svc.started <=> (ctx.service_started \/ at = "started")
    /\ Deferred => svc.started
    /\ Once

LwUplinks ==
    HostWaits =>
        /\ (svc.tx # "none" \/ at = "send") => NoTxDone(events)
        /\ svc.tx # "none" => svc.tx = Mode(ctx.tx_confirmed) /\ at # "send"
        /\ at = "send" => arg = ctx.tx_confirmed
        /\ TxDoneSays(events, ctx.tx_confirmed)
        /\ label.event \in {"none", TxEvent(label.confirmed, label.status)}

LwDownlinks ==
    /\ heard + Downs(events) <= MaxDownlinks
    /\ ctx.downlink <= heard
    /\ \A x \in read : x[1] <= heard /\ x[2] < lines /\ (ctx.downlink = 0 \/ x[1] < ctx.downlink)
    /\ \A x, y \in read : x[2] < y[2] => x[1] < y[1]

LwInv == LwTypes /\ LwJoins /\ LwUplinks /\ LwDownlinks

\* A step that neither sends, ends an uplink, nor brings or reads a downlink.
LwFrame ==
    /\ Quieter(events, events')
    /\ svc'.tx = svc.tx
    /\ ctx'.tx_confirmed = ctx.tx_confirmed /\ ctx'.downlink = ctx.downlink
    /\ at' = "send" => at = "send" /\ arg' = arg
    /\ label' = label /\ heard' = heard /\ read' = read
    /\ lines' >= lines

LEMMA UplinkFrame ==
    ASSUME LwTypes, LwUplinks, Quieter(events, events'), svc'.tx = svc.tx,
           ctx'.tx_confirmed = ctx.tx_confirmed, at' = "send" => at = "send" /\ arg' = arg,
           label' = label
    PROVE  LwUplinks'
<1> SUFFICES ASSUME HostWaits PROVE LwUplinks'
  BY DEF LwUplinks
<1>1. ctx.tx_confirmed \in BOOLEAN
  BY DEF LwTypes, Context
<1> QED BY <1>1 DEF LwUplinks, Quieter

LEMMA DownlinkFrame ==
    ASSUME LwTypes, LwTypes', LwDownlinks, Quieter(events, events'), ctx'.downlink = ctx.downlink,
           heard' = heard, read' = read, lines' >= lines, MaxDownlinks \in Nat, MaxLines \in Nat
    PROVE  LwDownlinks'
<1>1. Downs(events) \in Nat /\ Downs(events') \in Nat /\ Downs(events') <= Downs(events)
  BY DownsType DEF Quieter, LwTypes
<1>2. \A x \in read : x[2] \in Nat
  BY DEF LwTypes
<1>3. lines \in Nat /\ lines' \in Nat /\ heard \in Nat
  BY DEF LwTypes
<1> QED BY <1>1, <1>2, <1>3 DEF LwDownlinks

LEMMA Framed ==
    ASSUME LwInv, LwTypes', LwJoins', LwFrame, LwConstants
    PROVE  LwInv'
<1>1. LwUplinks'
  BY UplinkFrame DEF LwInv, LwFrame
<1>2. LwDownlinks'
  BY DownlinkFrame DEF LwInv, LwFrame, LwConstants
<1> QED BY <1>1, <1>2 DEF LwInv

\* Outside start_service() no join is deferred: what begins or starts to wait was asked for.
JoinsFrame ==
    /\ begun' + Waiting' + asked <= begun + Waiting + asked'
    /\ Deferred' => Deferred
    /\ Once => Once'
    /\ svc'.started = svc.started
    /\ (ctx'.service_started \/ at' = "started") <=> (ctx.service_started \/ at = "started")

\* The arithmetic of the next steps.
LEMMA Settle ==
    ASSUME NEW b \in Int, NEW b2 \in Int, NEW a \in Int, NEW a2 \in Int, NEW w \in Int, NEW w2 \in Int,
           NEW l \in Int, NEW l2 \in Int, l2 <= l, b + w + l <= a, b2 + w2 + a <= b + w + a2
    PROVE  b2 + w2 + l2 <= a2
OBVIOUS

LEMMA Ask ==
    ASSUME NEW b \in Int, NEW b2 \in Int, NEW w, NEW w2 \in Int, NEW a \in Int, NEW a2,
           b2 + w2 <= b + 1, w = 0, a2 = a + 1
    PROVE  b2 + w2 + a <= b + w + a2
OBVIOUS

LEMMA Begin ==
    ASSUME NEW b \in Int, NEW b2 \in Int, NEW w, NEW w2, NEW a \in Int, NEW a2,
           b2 <= b + 1, w = 1, w2 = 0, a2 = a
    PROVE  b2 + w2 + a <= b + w + a2
OBVIOUS

LEMMA Leave ==
    ASSUME NEW b \in Int, NEW b2, NEW w, NEW w2, NEW l, NEW l2, NEW a \in Int, NEW a2,
           b + w + l <= a, b2 = b, a2 = a, w = 1, w2 = 0, l = 0, l2 \in {0, 1}
    PROVE  b2 + w2 + l2 <= a2
OBVIOUS

LEMMA Begun ==
    ASSUME NEW b \in Int, NEW b2 \in Int, NEW w2, b2 <= b + 1, w2 = 0
    PROVE  b2 + w2 <= b + 1
OBVIOUS

LEMMA JoinsStep ==
    ASSUME LwTypes, LwTypes', LwJoins, JoinsFrame
    PROVE  LwJoins'
<1>1. Left' <= Left /\ Left \in Int /\ Left' \in Int
  BY DEF JoinsFrame, Left
<1>2. Waiting \in Int /\ Waiting' \in Int
  BY DEF Waiting
<1>3. begun \in Int /\ begun' \in Int /\ asked \in Int /\ asked' \in Int
  BY DEF LwTypes
<1>4. begun + Waiting + Left <= asked
  BY DEF LwJoins
<1>5. begun' + Waiting' + asked <= begun + Waiting + asked'
  BY DEF JoinsFrame
<1>6. begun' + Waiting' + Left' <= asked'
  BY <1>1, <1>2, <1>3, <1>4, <1>5, Settle
<1>7. svc'.started <=> (ctx'.service_started \/ at' = "started")
  BY Zenon DEF LwJoins, JoinsFrame
<1>8. Deferred' => svc'.started
  BY Zenon DEF LwJoins, JoinsFrame
<1>9. Once'
  BY DEF LwJoins, JoinsFrame
<1> QED BY <1>6, <1>7, <1>8, <1>9 DEF LwJoins

LEMMA Idle ==
    ASSUME NEW b \in Int, NEW b2, NEW w \in Int, NEW w2 \in Int, NEW a \in Int, NEW a2,
           b2 = b, a2 = a, w2 <= w
    PROVE  b2 + w2 + a <= b + w + a2
OBVIOUS

LEMMA JoinsQuiet ==
    ASSUME LwTypes, LwTypes', LwJoins, UNCHANGED <<asked, begun>>,
           at' = "join_start" => at = "join_start",
           Deferred' => Deferred, Once => Once', svc'.started = svc.started,
           (ctx'.service_started \/ at' = "started") <=> (ctx.service_started \/ at = "started")
    PROVE  LwJoins'
<1>1. Waiting' <= Waiting /\ Waiting \in Int /\ Waiting' \in Int
  BY DEF Waiting
<1>2. begun \in Int /\ asked \in Int /\ begun' = begun /\ asked' = asked
  BY DEF LwTypes
<1>3. begun' + Waiting' + asked <= begun + Waiting + asked'
  BY <1>1, <1>2, Idle
<1>4. JoinsFrame
  BY <1>3 DEF JoinsFrame
<1> QED BY <1>4, JoinsStep

-----------------------------------------------------------------------------
(* The calls of the service *)

\* What a call may do to the service, and what it publishes.
CallOK(s, r) ==
    /\ r.svc \in Service
    /\ r.out \in Outs
    /\ r.svc.started = s.started

LEMMA CallFields ==
    \A s, out, rc : /\ Call(s, out, rc).svc = s
                    /\ Call(s, out, rc).out = out
                    /\ Call(s, out, rc).rc = rc
BY DEF Call

LEMMA JoinCall ==
    ASSUME NEW s \in Service, NEW r \in rzi_lorawan_join(s), LwConstants
    PROVE  /\ CallOK(s, r) /\ r.svc.tx = s.tx
           /\ r.rc = "NOT_READY" => r.svc = s
<1> DEFINE begins == [s EXCEPT !.joining = TRUE, !.retries = Attempts, !.attempting = TRUE]
<1>0. Attempts \in 0..Attempts
  BY DEF LwConstants
<1>1. begins \in Service /\ begins.tx = s.tx /\ begins.started = s.started
  BY <1>0 DEF Service
<1> HIDE DEF begins
<1>2. \/ \E out \in {<<>>, <<StateJoining, StateReady>>},
             rc \in {"AT_BUSY_ERROR", "NOT_READY", "AT_ERROR"} : r = Call(s, out, rc)
      \/ r = Call(begins, <<StateJoining>>, "OK")
  BY DEF rzi_lorawan_join, begins
<1> QED BY <1>1, <1>2, CallFields DEF CallOK, Outs

LEMMA StopCall ==
    ASSUME NEW s \in Service, NEW r \in stop_join(s)
    PROVE  CallOK(s, r) /\ r.svc.tx = s.tx /\ ~r.svc.joining
<1> DEFINE stopped == [s EXCEPT !.joining = FALSE]
           quiet == [stopped EXCEPT !.attempting = FALSE]
<1>1. stopped \in Service /\ stopped.tx = s.tx /\ stopped.started = s.started /\ ~stopped.joining
  BY DEF Service
<1>2. quiet \in Service /\ quiet.tx = s.tx /\ quiet.started = s.started /\ ~quiet.joining
  BY DEF Service
<1> HIDE DEF stopped, quiet
<1>3. \/ r = Call(stopped, <<>>, "OK")
      \/ r = Call(quiet, <<StateReady>>, "OK")
      \/ r = Call(stopped, <<>>, "AT_ERROR")
  BY DEF stop_join, stopped, quiet
<1> QED BY <1>1, <1>2, <1>3, CallFields DEF CallOK, Outs

LEMMA LeaveCall ==
    ASSUME NEW s \in Service, NEW r \in rzi_lorawan_leave(s)
    PROVE  CallOK(s, r) /\ r.svc.tx = s.tx /\ r.svc.joining = s.joining
<1> DEFINE left == [s EXCEPT !.joined = FALSE, !.attempting = FALSE]
<1>1. left \in Service /\ left.tx = s.tx /\ left.started = s.started /\ left.joining = s.joining
  BY DEF Service
<1> HIDE DEF left
<1>2. \/ r = Call(s, <<>>, "AT_ERROR")
      \/ r = Call(left, <<StateReady>>, "OK")
  BY DEF rzi_lorawan_leave, left
<1> QED BY <1>1, <1>2, CallFields DEF CallOK, Outs

LEMMA ClassCall ==
    ASSUME NEW s \in Service, NEW c \in Classes, NEW r \in rzi_lorawan_set_class(s, c)
    PROVE  CallOK(s, r) /\ r.svc.tx = s.tx /\ r.svc.joining = s.joining
<1> DEFINE set == [s EXCEPT !.class = c]
<1>1. set \in Service /\ set.tx = s.tx /\ set.started = s.started /\ set.joining = s.joining
  BY DEF Service
<1> HIDE DEF set
<1>2. r = Call(s, <<>>, "AT_ERROR") \/ r = Call(set, <<>>, "OK")
  BY DEF rzi_lorawan_set_class, set
<1> QED BY <1>1, <1>2, CallFields DEF CallOK, Outs

LEMMA SendCall ==
    ASSUME NEW s \in Service, NEW confirmed \in BOOLEAN, NEW r \in rzi_lorawan_send(s, confirmed)
    PROVE  /\ CallOK(s, r) /\ r.svc.joining = s.joining /\ r.out = <<>>
           /\ r.svc.tx = s.tx \/ (s.tx = "none" /\ r.svc.tx = Mode(confirmed))
<1> DEFINE sent == [s EXCEPT !.tx = Mode(confirmed)]
<1>1. sent \in Service /\ sent.tx = Mode(confirmed) /\ sent.started = s.started /\ sent.joining = s.joining
  BY DEF Service, Mode
<1> HIDE DEF sent
<1>2. \/ \E rc \in {"AT_ERROR", "AT_BUSY_ERROR"} : r = Call(s, <<>>, rc)
      \/ s.tx = "none" /\ r = Call(sent, <<>>, "OK")
  BY DEF rzi_lorawan_send, NoTx, sent
<1> QED BY <1>1, <1>2, CallFields DEF CallOK, Outs

\* The step that a call is part of.
LEMMA DoStep ==
    ASSUME LwTypes, NEW r, CallOK(svc, r), Do(r)
    PROVE  /\ svc' \in Service /\ svc' = r.svc /\ svc'.started = svc.started
           /\ Quieter(events, events') /\ events' \in Seq(Event)
           /\ begun' \in Nat /\ begun' <= begun + 1
           /\ (svc'.joining => svc.joining) => begun' = begun
<1>1. svc' = r.svc /\ events' = PublishAll(events, r.out) /\ events \in Seq(Event) /\ begun \in Nat
  BY DEF Do, LwTypes
<1>3. Quieter(events, events')
  BY <1>1, QuietPublishAll DEF CallOK
<1>4. begun' \in Nat /\ begun' <= begun + 1 /\ ((svc'.joining => svc.joining) => begun' = begun)
  BY <1>1 DEF Do
<1> QED BY <1>1, <1>3, <1>4 DEF CallOK, Quieter

LEMMA CommandStep ==
    ASSUME LwTypes, NEW c, Input(c), LwConstants
    PROVE  at = "idle" /\ lines' \in 0..MaxLines /\ lines' >= lines
<1>1. at = "idle" /\ lines < MaxLines /\ lines' = lines + 1 /\ lines \in 0..MaxLines
  BY DEF Input, LwTypes
<1>2. MaxLines \in Nat
  BY DEF LwConstants
<1> QED BY <1>1, <1>2

\* What the context and the service are made of.
LEMMA LwFields ==
    ASSUME LwTypes
    PROVE  /\ ctx.service_started \in BOOLEAN /\ ctx.join_pending \in BOOLEAN /\ ctx.downlink \in Nat
           /\ ctx.tx_confirmed \in BOOLEAN /\ ctx.device_class \in Classes
           /\ svc.started \in BOOLEAN /\ svc.joining \in BOOLEAN /\ svc.class \in Classes
           /\ svc.tx \in {"none", "confirmed", "unconfirmed"}
           /\ lines \in Int /\ lines >= lines
           /\ Quieter(events, events)
BY QuietSame DEF LwTypes, Context, Service

-----------------------------------------------------------------------------
(* The AT thread *)

\* A join asked for once more.
LEMMA LwExtensionStart ==
    ASSUME LwInv, LwConstants, NEW auto_join \in BOOLEAN, ExtensionStart(auto_join)
    PROVE  LwInv'
<1> USE DEF ExtensionStart, Goto, history
<1>1. LwTypes'
  BY DEF LwInv, LwTypes
<1>2. LwJoins'
  <2>1. begun' + Waiting' + asked <= begun + Waiting + asked'
    BY DEF LwInv, LwTypes, Waiting
  <2>2. JoinsFrame
    BY <2>1, LwFields DEF LwInv, JoinsFrame, Deferred, Once
  <2> QED BY <1>1, <2>2, JoinsStep DEF LwInv
<1>3. LwFrame
  BY LwFields DEF LwInv, LwFrame
<1> QED BY <1>1, <1>2, <1>3, Framed

LEMMA LwHandleJoinRun ==
    ASSUME LwInv, LwConstants, HandleJoinRun
    PROVE  LwInv'
<1> USE DEF HandleJoinRun, Goto, history
<1>0. at = "idle" /\ lines' \in 0..MaxLines /\ lines' >= lines
  BY CommandStep DEF LwInv
<1>1. LwTypes'
  BY <1>0 DEF LwInv, LwTypes
<1>2. LwJoins'
  <2>1. begun' + Waiting' + asked <= begun + Waiting + asked'
    BY <1>0 DEF LwInv, LwTypes, Waiting
  <2>2. JoinsFrame
    BY <1>0, <2>1, LwFields DEF LwInv, JoinsFrame, Deferred, Once
  <2> QED BY <1>1, <2>2, JoinsStep DEF LwInv
<1>3. LwFrame
  BY <1>0, LwFields DEF LwInv, LwFrame
<1> QED BY <1>1, <1>2, <1>3, Framed

\* A join that begins settles what was asked, one that has to wait owes it.
LEMMA LwHandleJoinStart ==
    ASSUME LwInv, LwConstants, HandleJoinStart
    PROVE  LwInv'
<1>0. /\ at = "idle" /\ lines' \in 0..MaxLines /\ lines' >= lines /\ asked' = asked + 1
      /\ UNCHANGED <<ctx, cfm, disp, label, heard, read>>
      /\ asked \in Nat /\ begun \in Nat /\ svc \in Service
  BY CommandStep DEF LwInv, LwTypes, HandleJoinStart, history
<1>1. /\ svc' \in Service /\ svc'.tx = svc.tx /\ svc'.started = svc.started
      /\ begun' \in Nat /\ at' \in {"idle", "join_start"} /\ arg' = arg
      /\ begun' + Waiting' <= begun + 1
      /\ events' \in Seq(Event) /\ Quieter(events, events')
  <2>1. CASE ctx.service_started /\ svc.joined
    <3>1. UNCHANGED <<svc, events, begun>> /\ at' = "idle" /\ arg' = arg
      BY <2>1 DEF HandleJoinStart, Answer, Goto
    <3> QED BY <1>0, <3>1, LwFields DEF LwInv, LwTypes, Waiting
  <2>2. CASE ~(ctx.service_started /\ svc.joined)
    <3>1. PICK r \in rzi_lorawan_join(svc) :
            Do(r) /\ Goto(IF r.rc = "NOT_READY" THEN "join_start" ELSE "idle")
      BY <2>2 DEF HandleJoinStart
    <3>2. CallOK(svc, r) /\ r.svc.tx = svc.tx /\ (r.rc = "NOT_READY" => r.svc = svc)
      BY <1>0, JoinCall
    <3>3. /\ svc' \in Service /\ svc' = r.svc /\ svc'.started = svc.started
          /\ Quieter(events, events') /\ events' \in Seq(Event)
          /\ begun' \in Nat /\ begun' <= begun + 1
          /\ (svc'.joining => svc.joining) => begun' = begun
      BY <3>1, <3>2, DoStep DEF LwInv
    <3>4. at' = (IF r.rc = "NOT_READY" THEN "join_start" ELSE "idle") /\ arg' = arg
      BY <3>1 DEF Goto
    <3>5. r.rc = "NOT_READY" => begun' = begun
      BY <3>2, <3>3
    <3>6. begun' + Waiting' <= begun + 1
      <4>1. CASE r.rc = "NOT_READY"
        BY <1>0, <3>4, <3>5, <4>1 DEF Waiting
      <4>2. CASE r.rc # "NOT_READY"
        <5>1. Waiting' = 0
          BY <3>4, <4>2 DEF Waiting
        <5>2. begun \in Int /\ begun' \in Int /\ begun' <= begun + 1
          BY <1>0, <3>3
        <5> QED BY <5>1, <5>2, Begun
      <4> QED BY <4>1, <4>2
    <3> QED BY <3>2, <3>3, <3>4, <3>6
  <2> QED BY <2>1, <2>2
<1>2. LwTypes'
  BY <1>0, <1>1 DEF LwInv, LwTypes
<1>3. LwJoins'
  <2>1. begun' + Waiting' + asked <= begun + Waiting + asked'
    <3>1. Waiting = 0 /\ Waiting' \in Int
      BY <1>0 DEF Waiting
    <3>2. begun \in Int /\ begun' \in Int /\ asked \in Int /\ begun' + Waiting' <= begun + 1 /\ asked' = asked + 1
      BY <1>0, <1>1
    <3> QED BY <3>1, <3>2, Ask
  <2>2. JoinsFrame
    BY <1>0, <1>1, <2>1, LwFields DEF LwInv, JoinsFrame, Deferred, Once
  <2> QED BY <1>2, <2>2, JoinsStep DEF LwInv
<1>4. LwFrame
  BY <1>0, <1>1, LwFields DEF LwInv, LwFrame
<1> QED BY <1>2, <1>3, <1>4, Framed

LEMMA LwJoinStart ==
    ASSUME LwInv, LwConstants, JoinStart
    PROVE  LwInv'
<1>0. /\ at = "join_start" /\ at' = "idle" /\ arg' = arg
      /\ UNCHANGED <<ctx, cfm, disp, asked, label, heard, read, lines>>
      /\ asked \in Nat /\ begun \in Nat /\ svc \in Service
  BY DEF LwInv, LwTypes, JoinStart, history, Answer, Goto
<1>1. /\ svc' \in Service /\ svc'.tx = svc.tx /\ svc'.started = svc.started
      /\ begun' \in Nat /\ begun' <= begun + 1
      /\ events' \in Seq(Event) /\ Quieter(events, events')
  <2>1. CASE svc.joined
    <3>1. UNCHANGED <<svc, events, begun>>
      BY <2>1 DEF JoinStart
    <3> QED BY <1>0, <3>1, LwFields DEF LwInv, LwTypes
  <2>2. CASE ~svc.joined
    <3>1. PICK r \in rzi_lorawan_join(svc) : Do(r)
      BY <2>2 DEF JoinStart
    <3> QED BY <1>0, <3>1, JoinCall, DoStep DEF LwInv
  <2> QED BY <2>1, <2>2
<1>2. LwTypes'
  BY <1>0, <1>1 DEF LwInv, LwTypes
<1>3. LwJoins'
  <2>1. begun' + Waiting' + asked <= begun + Waiting + asked'
    <3>1. Waiting = 1 /\ Waiting' = 0
      BY <1>0 DEF Waiting
    <3>2. begun \in Int /\ begun' \in Int /\ asked \in Int /\ begun' <= begun + 1 /\ asked' = asked
      BY <1>0, <1>1
    <3> QED BY <3>1, <3>2, Begin
  <2>2. JoinsFrame
    BY <1>0, <1>1, <2>1, LwFields DEF LwInv, JoinsFrame, Deferred, Once
  <2> QED BY <1>2, <2>2, JoinsStep DEF LwInv
<1>4. LwFrame
  BY <1>0, <1>1, LwFields DEF LwInv, LwFrame
<1> QED BY <1>2, <1>3, <1>4, Framed

\* The first join is left to the dispatcher, which has none yet: the service was not started.
LEMMA LwStartService ==
    ASSUME LwInv, LwConstants, NEW ok \in BOOLEAN, StartService(ok)
    PROVE  LwInv'
<1>0. /\ at = "join_start" /\ ~ctx.service_started /\ arg' = arg
      /\ UNCHANGED <<cfm, events, disp, asked, begun, label, heard, read, lines>>
      /\ asked \in Nat /\ begun \in Nat /\ svc \in Service /\ ctx \in Context
  BY DEF LwInv, LwTypes, StartService, history, Answer, Goto
<1>1. ~Deferred /\ ~svc.started
  BY <1>0 DEF LwInv, LwJoins
<1>2. \/ at' = "idle" /\ UNCHANGED <<ctx, svc>>
      \/ /\ at' = "started"
         /\ ctx' = [ctx EXCEPT !.join_pending = TRUE]
         /\ svc' = [svc EXCEPT !.started = TRUE]
  BY DEF StartService, Answer, Goto
<1>3. /\ svc' \in Service /\ svc'.tx = svc.tx /\ ctx' \in Context
      /\ ctx'.tx_confirmed = ctx.tx_confirmed /\ ctx'.downlink = ctx.downlink
      /\ ~ctx'.service_started
      /\ svc'.started <=> at' = "started"
      /\ ctx'.join_pending => at' = "started"
  BY <1>0, <1>1, <1>2 DEF Service, Context, Deferred
<1>4. LwTypes'
  BY <1>0, <1>2, <1>3 DEF LwInv, LwTypes
<1>5. LwJoins'
  <2>1. begun + Waiting + Left <= asked
    BY DEF LwInv, LwJoins
  <2>2. Waiting = 1 /\ Left = 0
    BY <1>0, <1>1 DEF Waiting, Left
  <2>3. Deferred' => at' = "started"
    BY <1>0, <1>1, <1>3 DEF Deferred
  <2>4. Waiting' = 0 /\ Left' \in {0, 1}
    BY <1>2 DEF Waiting, Left
  <2>5. begun' + Waiting' + Left' <= asked'
    <3>1. begun \in Int /\ asked \in Int /\ begun' = begun /\ asked' = asked
      BY <1>0
    <3> QED BY <2>1, <2>2, <2>4, <3>1, Leave
  <2>6. Once'
    BY <1>0, <1>1 DEF Deferred, Once
  <2> QED BY <1>3, <2>3, <2>5, <2>6 DEF LwJoins
<1>6. LwFrame
  BY <1>0, <1>2, <1>3, LwFields DEF LwInv, LwFrame
<1> QED BY <1>4, <1>5, <1>6, Framed

LEMMA LwServiceStarted ==
    ASSUME LwInv, LwConstants, ServiceStarted
    PROVE  LwInv'
<1>0. /\ at = "started" /\ at' = "idle" /\ arg' = arg
      /\ ctx' = [ctx EXCEPT !.service_started = TRUE]
      /\ UNCHANGED <<svc, cfm, events, disp, asked, begun, label, heard, read, lines>>
      /\ ctx \in Context
  BY DEF LwInv, LwTypes, ServiceStarted, history, joins, Answer, Goto
<1>1. /\ ctx' \in Context /\ ctx'.service_started /\ ctx'.join_pending = ctx.join_pending
      /\ ctx'.tx_confirmed = ctx.tx_confirmed /\ ctx'.downlink = ctx.downlink
  BY <1>0 DEF Context
<1>2. LwTypes'
  BY <1>0, <1>1 DEF LwInv, LwTypes
<1>3. LwJoins'
  <2>1. begun' + Waiting' + asked <= begun + Waiting + asked'
    BY <1>0, <1>1 DEF LwInv, LwTypes, Waiting
  <2>2. JoinsFrame
    BY <1>0, <1>1, <2>1, LwFields DEF LwInv, JoinsFrame, Deferred, Once
  <2> QED BY <1>2, <2>2, JoinsStep DEF LwInv
<1>4. LwFrame
  BY <1>0, <1>1, LwFields DEF LwInv, LwFrame
<1> QED BY <1>2, <1>3, <1>4, Framed

LEMMA LwHandleJoinStop ==
    ASSUME LwInv, LwConstants, HandleJoinStop
    PROVE  LwInv'
<1>0. /\ at = "idle" /\ lines' \in 0..MaxLines /\ lines' >= lines
      /\ UNCHANGED <<ctx, cfm, disp, asked, label, heard, read>>
      /\ svc \in Service
  BY CommandStep DEF LwInv, LwTypes, HandleJoinStop, history
<1>1. PICK r \in stop_join(svc) : Do(r) /\ Goto(IF r.rc = "OK" THEN "stop" ELSE "idle")
  BY DEF HandleJoinStop
<1>2. at' \in {"stop", "idle"} /\ arg' = arg
  BY <1>1 DEF Goto
<1>3. /\ svc' \in Service /\ svc'.tx = svc.tx /\ svc'.started = svc.started
      /\ begun' = begun /\ events' \in Seq(Event) /\ Quieter(events, events')
  BY <1>0, <1>1, StopCall, DoStep DEF LwInv
<1>4. LwTypes'
  BY <1>0, <1>2, <1>3 DEF LwInv, LwTypes
<1>5. LwJoins'
  <2>1. begun' + Waiting' + asked <= begun + Waiting + asked'
    BY <1>0, <1>2, <1>3 DEF LwInv, LwTypes, Waiting
  <2>2. JoinsFrame
    BY <1>0, <1>2, <1>3, <2>1, LwFields DEF LwInv, JoinsFrame, Deferred, Once
  <2> QED BY <1>4, <2>2, JoinsStep DEF LwInv
<1>6. LwFrame
  BY <1>0, <1>2, <1>3, LwFields DEF LwInv, LwFrame
<1> QED BY <1>4, <1>5, <1>6, Framed

LEMMA LwJoinStop ==
    ASSUME LwInv, LwConstants, JoinStop
    PROVE  LwInv'
<1>0. /\ at = "stop" /\ at' = "idle" /\ arg' = arg
      /\ ctx' = [ctx EXCEPT !.join_pending = FALSE]
      /\ UNCHANGED <<cfm, disp, asked, label, heard, read, lines>>
      /\ ctx \in Context /\ svc \in Service
  BY DEF LwInv, LwTypes, JoinStop, history, Answer, Goto
<1>1. /\ ctx' \in Context /\ ctx'.service_started = ctx.service_started /\ ~ctx'.join_pending
      /\ ctx'.tx_confirmed = ctx.tx_confirmed /\ ctx'.downlink = ctx.downlink
  BY <1>0 DEF Context
<1>2. /\ svc' \in Service /\ svc'.tx = svc.tx /\ svc'.started = svc.started
      /\ begun' = begun /\ events' \in Seq(Event) /\ Quieter(events, events')
  <2>1. CASE ctx.service_started
    <3>1. PICK r \in rzi_lorawan_leave(svc) : Do(r)
      BY <2>1 DEF JoinStop
    <3> QED BY <1>0, <3>1, LeaveCall, DoStep DEF LwInv
  <2>2. CASE ~ctx.service_started
    <3>1. UNCHANGED <<svc, events, begun>>
      BY <2>2 DEF JoinStop
    <3> QED BY <1>0, <3>1, LwFields DEF LwInv, LwTypes
  <2> QED BY <2>1, <2>2
<1>3. LwTypes'
  BY <1>0, <1>1, <1>2 DEF LwInv, LwTypes
<1>4. LwJoins'
  <2>1. begun' + Waiting' + asked <= begun + Waiting + asked'
    BY <1>0, <1>1, <1>2 DEF LwInv, LwTypes, Waiting
  <2>2. JoinsFrame
    BY <1>0, <1>1, <1>2, <2>1, LwFields DEF LwInv, JoinsFrame, Deferred, Once
  <2> QED BY <1>3, <2>2, JoinsStep DEF LwInv
<1>5. LwFrame
  BY <1>0, <1>1, <1>2, LwFields DEF LwInv, LwFrame
<1> QED BY <1>3, <1>4, <1>5, Framed

-----------------------------------------------------------------------------
(* The commands of the host *)

LEMMA LwHandleSend ==
    ASSUME LwInv, LwConstants, NEW confirmed \in BOOLEAN, HandleSend(confirmed)
    PROVE  LwInv'
<1>0. /\ at' = "send" /\ arg' = confirmed
      /\ ctx' = [ctx EXCEPT !.tx_confirmed = confirmed]
      /\ UNCHANGED <<svc, cfm, events, disp, asked, begun, label, heard, read>>
      /\ ctx \in Context
  BY DEF LwInv, LwTypes, HandleSend, history, joins
<1>1. at = "idle" /\ lines' \in 0..MaxLines /\ lines' >= lines
  BY CommandStep DEF LwInv, HandleSend
<1>2. HostWaits => svc.tx = "none" /\ NoTxDone(events)
  BY DEF HandleSend, MayWrite, NoTx, NoTxDone
<1>3. /\ ctx' \in Context /\ ctx'.service_started = ctx.service_started
      /\ ctx'.join_pending = ctx.join_pending
      /\ ctx'.tx_confirmed = confirmed /\ ctx'.downlink = ctx.downlink
  BY <1>0 DEF Context
<1>4. LwTypes'
  BY <1>0, <1>1, <1>3 DEF LwInv, LwTypes
<1>5. LwJoins'
  BY <1>0, <1>1, <1>3, <1>4, JoinsQuiet DEF LwInv, Deferred, Once
<1>6. LwUplinks'
  <2>1. NoTxDone(events) => TxDoneSays(events, confirmed)
    BY DEF NoTxDone, TxDoneSays
  <2> QED BY <1>0, <1>2, <1>3, <2>1 DEF LwInv, LwUplinks
<1>7. LwDownlinks'
  BY <1>0, <1>1, <1>3, <1>4, LwFields, DownlinkFrame DEF LwInv, LwConstants
<1> QED BY <1>4, <1>5, <1>6, <1>7 DEF LwInv

LEMMA LwSend ==
    ASSUME LwInv, LwConstants, Send
    PROVE  LwInv'
<1>0. /\ at = "send" /\ at' = "idle" /\ arg' = arg
      /\ UNCHANGED <<ctx, cfm, disp, asked, label, heard, read, lines>>
      /\ svc \in Service /\ arg \in BOOLEAN /\ events \in Seq(Event)
  BY DEF LwInv, LwTypes, Send, history, Answer, Goto
<1>1. PICK r \in rzi_lorawan_send(svc, arg) : Do(r)
  BY DEF Send
<1>2. /\ CallOK(svc, r) /\ r.svc.joining = svc.joining /\ r.out = <<>>
      /\ r.svc.tx = svc.tx \/ (svc.tx = "none" /\ r.svc.tx = Mode(arg))
  BY <1>0, SendCall
<1>3. /\ svc' \in Service /\ svc' = r.svc /\ svc'.started = svc.started /\ begun' = begun
  BY <1>1, <1>2, DoStep DEF LwInv
<1>4. events' = events
  BY <1>0, <1>1, <1>2 DEF Do, PublishAll
<1>5. LwTypes'
  BY <1>0, <1>3, <1>4 DEF LwInv, LwTypes
<1>6. LwJoins'
  BY <1>0, <1>3, <1>4, <1>5, JoinsQuiet DEF LwInv, Deferred, Once
<1>7. LwUplinks'
  BY <1>0, <1>2, <1>3, <1>4 DEF LwInv, LwUplinks
<1>8. LwDownlinks'
  BY <1>0, <1>4, <1>5, LwFields, DownlinkFrame DEF LwInv, LwConstants
<1> QED BY <1>5, <1>6, <1>7, <1>8 DEF LwInv

\* The downlink that is read is newer than every one read before, and is read no more.
LEMMA LwHandleRecv ==
    ASSUME LwInv, LwConstants, HandleRecv
    PROVE  LwInv'
<1>0. /\ ctx.downlink # 0
      /\ ctx' = [ctx EXCEPT !.downlink = 0]
      /\ read' = read \cup {<<ctx.downlink, lines>>}
      /\ UNCHANGED <<svc, cfm, events, at, arg, disp, asked, begun, label, heard>>
      /\ ctx \in Context
  BY DEF LwInv, LwTypes, HandleRecv, joins
<1>1. at = "idle" /\ lines' \in 0..MaxLines /\ lines' >= lines
  BY CommandStep DEF LwInv, HandleRecv
<1>2. lines \in Nat /\ heard \in Nat /\ ctx.downlink \in Nat /\ lines' = lines + 1 /\ read \subseteq Nat \X Nat
  BY LwFields DEF LwInv, LwTypes, HandleRecv, Input, LwConstants
<1>3. /\ ctx' \in Context /\ ctx'.service_started = ctx.service_started
      /\ ctx'.join_pending = ctx.join_pending
      /\ ctx'.tx_confirmed = ctx.tx_confirmed /\ ctx'.downlink = 0
  BY <1>0 DEF Context
<1>4. LwTypes'
  <2>1. read' \subseteq Nat \X Nat
    BY <1>0, <1>2
  <2> QED BY <1>0, <1>1, <1>3, <2>1 DEF LwInv, LwTypes
<1>5. LwJoins'
  BY <1>0, <1>1, <1>3, <1>4, JoinsQuiet DEF LwInv, Deferred, Once
<1>6. LwUplinks'
  BY <1>0, <1>3, LwFields, UplinkFrame DEF LwInv
<1>7. LwDownlinks'
  <2> DEFINE d == ctx.downlink
             n == lines
  <2>1. /\ d <= heard /\ \A x \in read : x[1] \in Nat /\ x[2] \in Nat /\ x[1] <= heard /\ x[2] < n /\ x[1] < d
        /\ \A x, y \in read : x[2] < y[2] => x[1] < y[1]
    BY <1>0, <1>2 DEF LwInv, LwDownlinks
  <2>2. d \in Nat /\ n \in Nat /\ read' = read \cup {<<d, n>>}
    BY <1>0, <1>2
  <2>3. \A x \in read' : x[1] <= heard /\ x[2] < n + 1
    BY <2>1, <2>2
  <2>4. \A x, y \in read' : x[2] < y[2] => x[1] < y[1]
    BY <2>1, <2>2
  <2> HIDE DEF d, n
  <2>5. heard' + Downs(events') <= MaxDownlinks /\ ctx'.downlink = 0 /\ heard' = heard /\ ctx'.downlink <= heard'
    BY <1>0, <1>2, <1>3 DEF LwInv, LwDownlinks
  <2>6. lines' = n + 1
    BY <1>2 DEF n
  <2> QED BY <2>3, <2>4, <2>5, <2>6 DEF LwDownlinks
<1> QED BY <1>4, <1>5, <1>6, <1>7 DEF LwInv

LEMMA LwHandleCfm ==
    ASSUME LwInv, LwConstants, HandleCfm
    PROVE  LwInv'
<1>0. /\ cfm' = ~cfm
      /\ UNCHANGED <<ctx, svc, events, at, arg, disp, asked, begun, label, heard, read>>
  BY DEF HandleCfm, joins, history
<1>1. at = "idle" /\ lines' \in 0..MaxLines /\ lines' >= lines
  BY CommandStep DEF LwInv, HandleCfm
<1>2. LwTypes'
  <2>1. cfm' \in BOOLEAN
    BY <1>0
  <2> QED BY <1>0, <1>1, <2>1 DEF LwInv, LwTypes
<1>3. LwJoins'
  BY <1>0, <1>1, <1>2, JoinsQuiet DEF LwInv, Deferred, Once
<1>4. LwFrame
  BY <1>0, <1>1, LwFields DEF LwInv, LwFrame
<1> QED BY <1>2, <1>3, <1>4, Framed

LEMMA LwHandleClass ==
    ASSUME LwInv, LwConstants, NEW c \in Classes, HandleClass(c)
    PROVE  LwInv'
<1>0. /\ UNCHANGED <<cfm, at, arg, disp, asked, label, heard, read>>
      /\ ctx \in Context /\ svc \in Service
  BY DEF LwInv, LwTypes, HandleClass, history
<1>1. at = "idle" /\ lines' \in 0..MaxLines /\ lines' >= lines
  BY CommandStep DEF LwInv, HandleClass
<1>2. /\ svc' \in Service /\ svc'.tx = svc.tx /\ svc'.started = svc.started
      /\ begun' = begun /\ events' \in Seq(Event) /\ Quieter(events, events')
      /\ ctx' = ctx \/ ctx' = [ctx EXCEPT !.device_class = c]
  <2>1. CASE ~ctx.service_started
    <3>1. ctx' = [ctx EXCEPT !.device_class = c] /\ UNCHANGED <<svc, events, begun>>
      BY <2>1 DEF HandleClass
    <3> QED BY <1>0, <3>1, LwFields DEF LwInv, LwTypes
  <2>2. CASE ctx.service_started
    <3>1. PICK r \in rzi_lorawan_set_class(svc, c) :
            Do(r) /\ ctx' = IF r.rc = "OK" THEN [ctx EXCEPT !.device_class = c] ELSE ctx
      BY <2>2 DEF HandleClass
    <3>2. CallOK(svc, r) /\ r.svc.tx = svc.tx /\ r.svc.joining = svc.joining
      BY <1>0, ClassCall
    <3> QED BY <3>1, <3>2, DoStep DEF LwInv
  <2> QED BY <2>1, <2>2
<1>3. /\ ctx' \in Context /\ ctx'.service_started = ctx.service_started
      /\ ctx'.join_pending = ctx.join_pending
      /\ ctx'.tx_confirmed = ctx.tx_confirmed /\ ctx'.downlink = ctx.downlink
  BY <1>0, <1>2 DEF Context
<1>4. LwTypes'
  BY <1>0, <1>1, <1>2, <1>3 DEF LwInv, LwTypes
<1>5. LwJoins'
  BY <1>0, <1>1, <1>2, <1>3, <1>4, JoinsQuiet DEF LwInv, Deferred, Once
<1>6. LwFrame
  BY <1>0, <1>1, <1>2, <1>3 DEF LwInv, LwFrame
<1> QED BY <1>4, <1>5, <1>6, Framed

LEMMA LwHandleClassRead ==
    ASSUME LwInv, LwConstants, HandleClassRead
    PROVE  LwInv'
<1>0. /\ ctx' = [ctx EXCEPT !.device_class = svc.class]
      /\ UNCHANGED <<svc, cfm, events, at, arg, disp, asked, begun, label, heard, read>>
      /\ ctx \in Context
  BY DEF LwInv, LwTypes, HandleClassRead, joins, history
<1>1. at = "idle" /\ lines' \in 0..MaxLines /\ lines' >= lines
  BY CommandStep DEF LwInv, HandleClassRead
<1>2. /\ ctx' \in Context /\ ctx'.service_started = ctx.service_started
      /\ ctx'.join_pending = ctx.join_pending
      /\ ctx'.tx_confirmed = ctx.tx_confirmed /\ ctx'.downlink = ctx.downlink
  BY <1>0, LwFields DEF LwInv, Context
<1>3. LwTypes'
  BY <1>0, <1>1, <1>2 DEF LwInv, LwTypes
<1>4. LwJoins'
  BY <1>0, <1>1, <1>2, <1>3, JoinsQuiet DEF LwInv, Deferred, Once
<1>5. LwFrame
  BY <1>0, <1>1, <1>2, LwFields DEF LwInv, LwFrame
<1> QED BY <1>3, <1>4, <1>5, Framed

-----------------------------------------------------------------------------
(* The dispatcher *)

\* The pending join is taken once: it is no longer pending when the dispatcher has it.
LEMMA LwOnReady ==
    ASSUME LwInv, LwConstants, OnReady
    PROVE  LwInv'
<1>0. /\ disp = "idle" /\ events # <<>>
      /\ disp' = IF ctx.join_pending THEN "class" ELSE "idle"
      /\ ctx' = [ctx EXCEPT !.join_pending = FALSE]
      /\ events' = Tail(events)
      /\ UNCHANGED <<svc, cfm, at, arg, asked, begun, label, heard, read, lines>>
      /\ ctx \in Context /\ events \in Seq(Event)
  BY DEF LwInv, LwTypes, OnReady, Take, joins, history
<1>1. /\ ctx' \in Context /\ ctx'.service_started = ctx.service_started /\ ~ctx'.join_pending
      /\ ctx'.tx_confirmed = ctx.tx_confirmed /\ ctx'.downlink = ctx.downlink
  BY <1>0 DEF Context
<1>2. Quieter(events, events') /\ events' \in Seq(Event)
  BY <1>0, QuietTail DEF Quieter
<1>3. LwTypes'
  BY <1>0, <1>1, <1>2 DEF LwInv, LwTypes
<1>4. LwJoins'
  <2>1. Deferred' => Deferred
    BY <1>0, <1>1 DEF Deferred
  <2>2. Once'
    BY <1>1 DEF Once
  <2> QED BY <1>0, <1>1, <1>3, <2>1, <2>2, JoinsQuiet DEF LwInv
<1>5. LwFrame
  BY <1>0, <1>1, <1>2, LwFields DEF LwInv, LwFrame
<1> QED BY <1>3, <1>4, <1>5, Framed

LEMMA LwApplyClass ==
    ASSUME LwInv, LwConstants, ApplyClass
    PROVE  LwInv'
<1>0. /\ disp = "class"
      /\ UNCHANGED <<ctx, cfm, at, arg, asked, label, heard, read, lines>>
      /\ svc \in Service /\ ctx.device_class \in Classes
  BY LwFields DEF LwInv, LwTypes, ApplyClass, history
<1>1. /\ svc' \in Service /\ svc'.tx = svc.tx /\ svc'.started = svc.started
      /\ begun' = begun /\ events' \in Seq(Event) /\ Quieter(events, events')
      /\ disp' \in {"join", "idle"}
  <2>1. CASE ~ctx.service_started \/ ctx.device_class = "A"
    <3>1. disp' = "join" /\ UNCHANGED <<svc, events, begun>>
      BY <2>1 DEF ApplyClass
    <3> QED BY <1>0, <3>1, LwFields DEF LwInv, LwTypes
  <2>2. CASE ~(~ctx.service_started \/ ctx.device_class = "A")
    <3>1. PICK r \in rzi_lorawan_set_class(svc, ctx.device_class) :
            Do(r) /\ disp' = IF r.rc = "OK" THEN "join" ELSE "idle"
      BY <2>2 DEF ApplyClass
    <3>2. CallOK(svc, r) /\ r.svc.tx = svc.tx /\ r.svc.joining = svc.joining
      BY <1>0, ClassCall
    <3> QED BY <3>1, <3>2, DoStep DEF LwInv
  <2> QED BY <2>1, <2>2
<1>2. LwTypes'
  BY <1>0, <1>1 DEF LwInv, LwTypes
<1>3. LwJoins'
  <2>1. Deferred /\ (Once => Once')
    BY <1>0 DEF Deferred, Once
  <2> QED BY <1>0, <1>1, <1>2, <2>1, JoinsQuiet DEF LwInv
<1>4. LwFrame
  BY <1>0, <1>1, LwFields DEF LwInv, LwFrame
<1> QED BY <1>2, <1>3, <1>4, Framed

LEMMA BeginDeferred ==
    ASSUME NEW b \in Int, NEW b2 \in Int, NEW w \in Int, NEW w2, NEW l, NEW l2, NEW a \in Int, NEW a2,
           b + w + l <= a, b2 <= b + 1, a2 = a, w2 = w, l = 1, l2 = 0
    PROVE  b2 + w2 + l2 <= a2
OBVIOUS

\* The join that was left to the dispatcher begins, and is owed no more.
LEMMA LwBeginPendingJoin ==
    ASSUME LwInv, LwConstants, BeginPendingJoin
    PROVE  LwInv'
<1>0. /\ disp = "join" /\ disp' = "idle"
      /\ UNCHANGED <<ctx, cfm, at, arg, asked, label, heard, read, lines>>
      /\ svc \in Service
  BY DEF LwInv, LwTypes, BeginPendingJoin, history
<1>1. PICK r \in rzi_lorawan_join(svc) : Do(r)
  BY DEF BeginPendingJoin
<1>2. CallOK(svc, r) /\ r.svc.tx = svc.tx
  BY <1>0, JoinCall
<1>3. /\ svc' \in Service /\ svc'.tx = svc.tx /\ svc'.started = svc.started
      /\ begun' \in Nat /\ begun' <= begun + 1 /\ events' \in Seq(Event) /\ Quieter(events, events')
  BY <1>1, <1>2, DoStep DEF LwInv
<1>4. LwTypes'
  BY <1>0, <1>3 DEF LwInv, LwTypes
<1>5. LwJoins'
  <2>1. begun + Waiting + Left <= asked /\ ~ctx.join_pending
    BY <1>0 DEF LwInv, LwJoins, Once
  <2>2. ~Deferred' /\ Once'
    BY <1>0, <2>1 DEF Deferred, Once
  <2>3. Left = 1 /\ Left' = 0 /\ Waiting \in Int /\ Waiting' = Waiting
    BY <1>0, <2>2 DEF Left, Deferred, Waiting
  <2>4. begun \in Int /\ begun' \in Int /\ asked \in Int /\ asked' = asked /\ begun' <= begun + 1
    BY <1>0, <1>3 DEF LwInv, LwTypes
  <2>5. begun' + Waiting' + Left' <= asked'
    BY <2>1, <2>3, <2>4, BeginDeferred
  <2> QED BY <1>0, <1>3, <2>2, <2>5 DEF LwInv, LwJoins
<1>6. LwFrame
  BY <1>0, <1>3, LwFields DEF LwInv, LwFrame
<1> QED BY <1>4, <1>5, <1>6, Framed

LEMMA LwOnJoined ==
    ASSUME LwInv, LwConstants, OnJoined
    PROVE  LwInv'
<1>0. /\ events # <<>> /\ events' = Tail(events)
      /\ svc' = [svc EXCEPT !.joining = FALSE]
      /\ UNCHANGED <<ctx, cfm, at, arg, disp, asked, begun, label, heard, read, lines>>
      /\ svc \in Service /\ events \in Seq(Event)
  BY DEF LwInv, LwTypes, OnJoined, Take, history
<1>1. svc' \in Service /\ svc'.tx = svc.tx /\ svc'.started = svc.started
  BY <1>0 DEF Service
<1>2. Quieter(events, events') /\ events' \in Seq(Event)
  BY <1>0, QuietTail DEF Quieter
<1>3. LwTypes'
  BY <1>0, <1>1, <1>2 DEF LwInv, LwTypes
<1>4. LwJoins'
  BY <1>0, <1>1, <1>3, JoinsQuiet DEF LwInv, Deferred, Once
<1>5. LwFrame
  BY <1>0, <1>1, <1>2, LwFields DEF LwInv, LwFrame
<1> QED BY <1>3, <1>4, <1>5, Framed

LEMMA LwOnJoinFailed ==
    ASSUME LwInv, LwConstants, OnJoinFailed
    PROVE  LwInv'
<1>0. /\ events # <<>>
      /\ UNCHANGED <<ctx, cfm, at, arg, disp, asked, begun, label, heard, read, lines>>
      /\ svc \in Service /\ events \in Seq(Event)
  BY DEF LwInv, LwTypes, OnJoinFailed, Take, history
<1>1. \/ events' = Tail(events)
      \/ events' = publish(Tail(events), StateReady)
  BY DEF OnJoinFailed
<1>2. svc' \in Service /\ svc'.tx = svc.tx /\ svc'.started = svc.started
  <2>1. CASE svc.joining /\ svc.retries > 0
    <3>1. svc' = [svc EXCEPT !.retries = svc.retries - 1]
      BY <2>1 DEF OnJoinFailed
    <3>2. svc.retries - 1 \in 0..Attempts
      BY <1>0, <2>1 DEF Service, LwConstants
    <3> QED BY <1>0, <3>1, <3>2 DEF Service
  <2>2. CASE ~(svc.joining /\ svc.retries > 0)
    <3> DEFINE ended == svc.joining /\ svc.ready /\ svc.tx = "none"
    <3>1. svc' = [svc EXCEPT !.joining = FALSE, !.attempting = svc.attempting /\ ~ended,
                             !.joined = svc.joined /\ ~ended]
      BY <2>2 DEF OnJoinFailed, NoTx
    <3>2. (svc.attempting /\ ~ended) \in BOOLEAN /\ (svc.joined /\ ~ended) \in BOOLEAN
      OBVIOUS
    <3> HIDE DEF ended
    <3> QED BY <1>0, <3>1, <3>2 DEF Service
  <2> QED BY <2>1, <2>2
<1>3. Quieter(events, events') /\ events' \in Seq(Event)
  <2>1. Quieter(events, Tail(events)) /\ Tail(events) \in Seq(Event)
    BY <1>0, QuietTail DEF Quieter
  <2>2. Quieter(Tail(events), publish(Tail(events), StateReady))
    BY <2>1, QuietPublish, StateEvents
  <2>3. Quieter(events, publish(Tail(events), StateReady))
    BY <1>0, <2>1, <2>2, QuietThen
  <2> QED BY <1>1, <2>1, <2>3 DEF Quieter
<1>4. LwTypes'
  BY <1>0, <1>2, <1>3 DEF LwInv, LwTypes
<1>5. LwJoins'
  BY <1>0, <1>2, <1>4, JoinsQuiet DEF LwInv, Deferred, Once
<1>6. LwFrame
  BY <1>0, <1>2, <1>3, LwFields DEF LwInv, LwFrame
<1> QED BY <1>4, <1>5, <1>6, Framed

LEMMA LwOnOther ==
    ASSUME LwInv, LwConstants, OnOther
    PROVE  LwInv'
<1>0. /\ events # <<>> /\ events' = Tail(events)
      /\ UNCHANGED <<ctx, svc, cfm, at, arg, disp, asked, begun, label, heard, read, lines>>
      /\ events \in Seq(Event)
  BY DEF LwInv, LwTypes, OnOther, Take, joins, history
<1>1. Quieter(events, events') /\ events' \in Seq(Event)
  BY <1>0, QuietTail DEF Quieter
<1>2. LwTypes'
  BY <1>0, <1>1 DEF LwInv, LwTypes
<1>3. LwJoins'
  BY <1>0, <1>2, JoinsQuiet DEF LwInv, Deferred, Once
<1>4. LwFrame
  BY <1>0, <1>1, LwFields DEF LwInv, LwFrame
<1> QED BY <1>2, <1>3, <1>4, Framed

\* The event is worded by the mode of the only uplink it can be about.
LEMMA LwOnTxDone ==
    ASSUME LwInv, LwConstants, OnTxDone
    PROVE  LwInv'
<1> DEFINE e == Head(events)
           ok == IF ~ctx.tx_confirmed \/ e.status = "SENT" THEN ctx.confirmed_ok
                 ELSE e.status = "CONFIRMED"
<1>0. /\ events # <<>> /\ e.type = "TXDONE" /\ events' = Tail(events)
      /\ label' = [event |-> TxEvent(ctx.tx_confirmed, e.status), confirmed |-> e.confirmed,
                   status |-> e.status]
      /\ ctx' = [ctx EXCEPT !.confirmed_ok = ok]
      /\ UNCHANGED <<svc, cfm, at, arg, disp, asked, begun, heard, read, lines>>
      /\ ctx \in Context /\ events \in Seq(Event)
  BY DEF LwInv, LwTypes, OnTxDone, Take, joins
<1>1. ok \in BOOLEAN
  BY <1>0 DEF Context
<1> HIDE DEF ok
<1>2. /\ ctx' \in Context /\ ctx'.service_started = ctx.service_started
      /\ ctx'.join_pending = ctx.join_pending
      /\ ctx'.tx_confirmed = ctx.tx_confirmed /\ ctx'.downlink = ctx.downlink
  BY <1>0, <1>1 DEF Context
<1>3. Quieter(events, events') /\ events' \in Seq(Event)
  BY <1>0, QuietTail DEF Quieter
<1>4. LwTypes'
  BY <1>0, <1>2, <1>3 DEF LwInv, LwTypes
<1>5. LwJoins'
  BY <1>0, <1>2, <1>4, JoinsQuiet DEF LwInv, Deferred, Once
<1>6. LwUplinks'
  <2> SUFFICES ASSUME HostWaits PROVE LwUplinks'
    BY DEF LwUplinks
  <2>1. TxDoneSays(events, ctx.tx_confirmed)
    BY DEF LwInv, LwUplinks
  <2>2. TxDoneSays(events', ctx.tx_confirmed) /\ e.confirmed = ctx.tx_confirmed
    BY <1>0, <2>1, TailQueued
  <2>3. label'.event = TxEvent(label'.confirmed, label'.status)
    BY <1>0, <2>2
  <2>4. NoTxDone(events) => NoTxDone(events')
    BY <1>3 DEF Quieter
  <2> QED BY <1>0, <1>2, <2>2, <2>3, <2>4 DEF LwInv, LwUplinks
<1>7. LwDownlinks'
  BY <1>0, <1>2, <1>3, <1>4, LwFields, DownlinkFrame DEF LwInv, LwConstants
<1> QED BY <1>4, <1>5, <1>6, <1>7 DEF LwInv

LEMMA LwOnDownlink ==
    ASSUME LwInv, LwConstants, OnDownlink
    PROVE  LwInv'
<1>0. /\ events # <<>> /\ Head(events).type = "DOWNDATA" /\ events' = Tail(events)
      /\ heard' = heard + 1 /\ ctx' = [ctx EXCEPT !.downlink = heard + 1]
      /\ UNCHANGED <<svc, cfm, at, arg, disp, asked, begun, label, read, lines>>
      /\ ctx \in Context /\ events \in Seq(Event) /\ heard \in Nat
  BY DEF LwInv, LwTypes, OnDownlink, Take, joins
<1>1. heard + 1 \in Nat
  BY <1>0
<1>2. /\ ctx' \in Context /\ ctx'.service_started = ctx.service_started
      /\ ctx'.join_pending = ctx.join_pending
      /\ ctx'.tx_confirmed = ctx.tx_confirmed /\ ctx'.downlink = heard + 1
  BY <1>0, <1>1 DEF Context
<1>3. Quieter(events, events') /\ events' \in Seq(Event)
  BY <1>0, QuietTail DEF Quieter
<1>4. LwTypes'
  BY <1>0, <1>1, <1>2, <1>3 DEF LwInv, LwTypes
<1>5. LwJoins'
  BY <1>0, <1>2, <1>4, JoinsQuiet DEF LwInv, Deferred, Once
<1>6. LwUplinks'
  BY <1>0, <1>2, <1>3, UplinkFrame DEF LwInv
<1>7. LwDownlinks'
  <2> DEFINE h == heard
             q == Tail(events)
  <2>1. Downs(q) = Downs(events) - 1 /\ Downs(events) \in Nat
    BY <1>0, TailQueued, DownsType
  <2>2. h + Downs(events) <= MaxDownlinks /\ MaxDownlinks \in Nat
    BY DEF LwInv, LwDownlinks, LwConstants
  <2>3. (h + 1) + Downs(q) <= MaxDownlinks
    BY <1>0, <2>1, <2>2
  <2>4. \A x \in read : x[1] \in Nat /\ x[1] <= h /\ x[2] < lines
    BY DEF LwInv, LwTypes, LwDownlinks
  <2>5. \A x \in read : x[1] <= h + 1 /\ x[2] < lines /\ x[1] < h + 1
    BY <1>0, <2>4
  <2>6. \A x, y \in read : x[2] < y[2] => x[1] < y[1]
    BY DEF LwInv, LwDownlinks
  <2>7. h + 1 <= h + 1
    BY <1>0
  <2>8. heard' = h + 1 /\ events' = q /\ ctx'.downlink = h + 1 /\ read' = read /\ lines' = lines
    BY <1>0, <1>2
  <2> HIDE DEF h, q
  <2> QED BY <2>3, <2>5, <2>6, <2>7, <2>8 DEF LwDownlinks
<1> QED BY <1>4, <1>5, <1>6, <1>7 DEF LwInv

-----------------------------------------------------------------------------
(* The modem *)

\* An event of the modem that is neither of an uplink nor a downlink; it may end an uplink unheard.
LEMMA LwReport ==
    ASSUME LwInv, LwConstants, NEW s \in Service, NEW e \in Event, Report(s, e),
           s.tx \in {svc.tx, "none"}, s.started = svc.started, e.type \notin {"TXDONE", "DOWNDATA"}
    PROVE  LwInv'
<1>0. /\ svc' = s /\ events' = publish(events, e)
      /\ UNCHANGED <<ctx, cfm, at, arg, disp, asked, begun, label, heard, read, lines>>
      /\ events \in Seq(Event)
  BY DEF LwInv, LwTypes, Report
<1>1. Quieter(events, events') /\ events' \in Seq(Event)
  BY <1>0, QuietPublish
<1>2. LwTypes'
  BY <1>0, <1>1 DEF LwInv, LwTypes
<1>3. LwJoins'
  BY <1>0, <1>2, JoinsQuiet DEF LwInv, Deferred, Once
<1>4. LwUplinks'
  <2> SUFFICES ASSUME HostWaits PROVE LwUplinks'
    BY DEF LwUplinks
  <2>1. ctx.tx_confirmed \in BOOLEAN
    BY LwFields DEF LwInv
  <2> QED BY <1>0, <1>1, <2>1 DEF LwInv, LwUplinks, Quieter
<1>5. LwDownlinks'
  BY <1>0, <1>1, <1>2, LwFields, DownlinkFrame DEF LwInv, LwConstants
<1> QED BY <1>2, <1>3, <1>4, <1>5 DEF LwInv

LEMMA LwModemReset ==
    ASSUME LwInv, LwConstants, NEW ok \in BOOLEAN, ModemReset(ok)
    PROVE  LwInv'
<1> DEFINE s == [svc EXCEPT !.ready = ok, !.attempting = FALSE, !.joined = FALSE, !.tx = NoTx,
                            !.class = "A"]
           e == IF ok THEN Ready ELSE Error
<1>0. svc \in Service
  BY DEF LwInv, LwTypes
<1>1. s \in Service /\ s.tx = "none" /\ s.started = svc.started
  BY <1>0 DEF Service, NoTx, Classes
<1>2. e \in Event /\ e.type \in {"READY", "ERROR"}
  BY DEF Ready, Error, Event, PlainEvent
<1>3. Report(s, e)
  BY DEF ModemReset
<1> HIDE DEF s, e
<1> QED BY <1>1, <1>2, <1>3, LwReport

LEMMA LwModemEvents ==
    ASSUME LwInv, LwConstants, JoinAccept \/ JoinReject
    PROVE  LwInv'
<1>0. svc \in Service
  BY DEF LwInv, LwTypes
<1>2. CASE JoinAccept
  <2> DEFINE s == [svc EXCEPT !.attempting = FALSE, !.joined = TRUE]
             e == [type |-> "JOINED"]
  <2>1. s \in Service /\ s.tx = svc.tx /\ s.started = svc.started
    BY <1>0 DEF Service
  <2>2. e \in Event /\ e.type = "JOINED"
    BY DEF Event, PlainEvent
  <2>3. Report(s, e)
    BY <1>2 DEF JoinAccept
  <2> HIDE DEF s, e
  <2> QED BY <2>1, <2>2, <2>3, LwReport
<1>3. CASE JoinReject
  <2> DEFINE e == [type |-> "JOIN_FAILED"]
  <2>1. e \in Event /\ e.type = "JOIN_FAILED"
    BY DEF Event, PlainEvent
  <2>2. Report(svc, e)
    BY <1>3 DEF JoinReject
  <2> HIDE DEF e
  <2> QED BY <1>0, <2>1, <2>2, LwReport
<1> QED BY <1>2, <1>3

LEMMA LwTxEnd ==
    ASSUME LwInv, LwConstants, NEW status \in Statuses, TxEnd(status)
    PROVE  LwInv'
<1> DEFINE e == [type |-> "TXDONE", confirmed |-> (svc.tx = "confirmed"), status |-> status]
<1>0. /\ svc.tx # "none" /\ svc' = [svc EXCEPT !.tx = "none"]
      /\ events' = events \/ events' = Append(events, e)
      /\ UNCHANGED <<ctx, cfm, at, arg, disp, asked, begun, label, heard, read, lines>>
      /\ svc \in Service /\ events \in Seq(Event) /\ ctx.tx_confirmed \in BOOLEAN
  BY LwFields DEF LwInv, LwTypes, TxEnd, Report, publish, NoTx
<1>1. svc' \in Service /\ svc'.tx = "none" /\ svc'.started = svc.started
  BY <1>0 DEF Service
<1>2. e \in Event /\ e.type = "TXDONE" /\ e.confirmed = (svc.tx = "confirmed")
  BY DEF Event, TxDoneEvent
<1> HIDE DEF e
<1>3. events' \in Seq(Event) /\ Downs(events') = Downs(events)
  BY <1>0, <1>2, AppendQueued
<1>4. LwTypes'
  BY <1>0, <1>1, <1>3 DEF LwInv, LwTypes
<1>5. LwJoins'
  BY <1>0, <1>1, <1>4, JoinsQuiet DEF LwInv, Deferred, Once
<1>6. LwUplinks'
  <2> SUFFICES ASSUME HostWaits PROVE LwUplinks'
    BY DEF LwUplinks
  <2>1. svc.tx = Mode(ctx.tx_confirmed) /\ at # "send" /\ TxDoneSays(events, ctx.tx_confirmed)
    BY <1>0 DEF LwInv, LwUplinks
  <2>2. e.confirmed = ctx.tx_confirmed
    BY <1>0, <1>2, <2>1 DEF Mode
  <2>3. TxDoneSays(events', ctx.tx_confirmed)
    BY <1>0, <1>2, <2>1, <2>2, AppendQueued
  <2> QED BY <1>0, <1>1, <2>1, <2>3 DEF LwInv, LwUplinks
<1>7. LwDownlinks'
  BY <1>0, <1>3 DEF LwInv, LwDownlinks
<1> QED BY <1>4, <1>5, <1>6, <1>7 DEF LwInv

LEMMA LwDownlink ==
    ASSUME LwInv, LwConstants, Downlink
    PROVE  LwInv'
<1> DEFINE e == [type |-> "DOWNDATA"]
<1>0. /\ UNCHANGED <<svc, ctx, cfm, at, arg, disp, asked, begun, label, heard, read, lines>>
      /\ events' = events \/ events' = Append(events, e)
      /\ events \in Seq(Event)
  BY DEF LwInv, LwTypes, Downlink, Report, publish
<1>1. e \in Event /\ e.type = "DOWNDATA"
  BY DEF Event, PlainEvent
<1> HIDE DEF e
<1>2. /\ events' \in Seq(Event)
      /\ Downs(events') = Downs(events) \/ Downs(events') = Downs(events) + 1
      /\ NoTxDone(events) => NoTxDone(events')
      /\ \A c : TxDoneSays(events, c) => TxDoneSays(events', c)
  BY <1>0, <1>1, AppendQueued
<1>3. LwTypes'
  BY <1>0, <1>2 DEF LwInv, LwTypes
<1>4. LwJoins'
  BY <1>0, <1>3, JoinsQuiet DEF LwInv, Deferred, Once
<1>5. LwUplinks'
  BY <1>0, <1>2 DEF LwInv, LwUplinks
<1>6. LwDownlinks'
  <2>1. Downs(events) \in Nat /\ heard \in Nat /\ MaxDownlinks \in Nat
    BY <1>0, DownsType DEF LwInv, LwTypes, LwConstants
  <2>2. heard + Downs(events) < MaxDownlinks
    BY Zenon DEF Downlink, Downs, Queued, Cardinality, Cardinality, IsFiniteSet, IsFiniteSet
  <2>3. heard + Downs(events) <= MaxDownlinks /\ heard + (Downs(events) + 1) <= MaxDownlinks
    BY <2>1, <2>2
  <2> QED BY <1>0, <1>2, <2>3 DEF LwInv, LwDownlinks
<1> QED BY <1>3, <1>4, <1>5, <1>6 DEF LwInv

-----------------------------------------------------------------------------
(* The theorems about AtLorawan *)

LEMMA LwBegins ==
    ASSUME LwConstants, LwInit
    PROVE  LwInv
<1>0. /\ ctx = [service_started |-> FALSE, join_pending |-> FALSE, device_class |-> "A",
                confirmed_ok |-> FALSE, tx_confirmed |-> FALSE, downlink |-> 0]
      /\ svc = [started |-> FALSE, ready |-> FALSE, joining |-> FALSE, retries |-> 0,
                attempting |-> FALSE, joined |-> FALSE, tx |-> "none", class |-> "A"]
      /\ cfm \in BOOLEAN /\ events = <<>> /\ at = "boot" /\ arg = FALSE /\ disp = "idle"
      /\ asked = 0 /\ begun = 0 /\ heard = 0 /\ read = {} /\ lines = 0
      /\ label.event = "none"
  BY DEF LwInit, NoTx
<1>1. Attempts \in Nat /\ MaxLines \in Nat /\ MaxDownlinks \in Nat
  BY DEF LwConstants
<1>2. ctx \in Context
  BY <1>0 DEF Context, Classes
<1>3. svc \in Service
  BY <1>0, <1>1 DEF Service, Classes
<1>4. LwTypes
  <2>1. events \in Seq(Event) /\ read \subseteq Nat \X Nat
    BY <1>0
  <2>2. lines \in 0..MaxLines /\ asked \in Nat /\ begun \in Nat /\ heard \in Nat
    BY <1>0, <1>1
  <2>3. cfm \in BOOLEAN /\ arg \in BOOLEAN
    BY <1>0
  <2> QED BY <1>0, <1>2, <1>3, <2>1, <2>2, <2>3 DEF LwTypes
<1>5. LwJoins
  BY <1>0 DEF LwJoins, Waiting, Left, Deferred, Once
<1>6. NoTxDone(events) /\ TxDoneSays(events, FALSE)
  BY <1>0 DEF NoTxDone, TxDoneSays
<1>7. LwUplinks
  BY <1>0, <1>6 DEF LwUplinks
<1>8. Downs(events) = 0
  <2>1. Queued(events, "DOWNDATA") = {}
    BY <1>0 DEF Queued
  <2> QED BY <2>1, FS_EmptySet DEF Downs
<1>9. LwDownlinks
  BY <1>0, <1>1, <1>8 DEF LwDownlinks
<1> QED BY <1>4, <1>5, <1>7, <1>9 DEF LwInv

LEMMA LwGoes ==
    ASSUME LwInv, LwConstants, [LwNext]_lw_vars
    PROVE  LwInv'
<1>1. CASE LwThread
  BY <1>1, LwExtensionStart, LwJoinStart, LwServiceStarted, LwJoinStop, LwSend, LwStartService
     DEF LwThread
<1>2. CASE LwHost
  BY <1>2, LwHandleJoinRun, LwHandleJoinStart, LwHandleJoinStop, LwHandleRecv, LwHandleCfm,
     LwHandleClassRead, LwHandleSend, LwHandleClass DEF LwHost
<1>3. CASE Dispatcher
  BY <1>3, LwOnReady, LwApplyClass, LwBeginPendingJoin, LwOnJoined, LwOnJoinFailed, LwOnOther,
     LwOnTxDone, LwOnDownlink DEF Dispatcher
<1>4. CASE Modem \/ ModemResets
  BY <1>4, LwModemReset, LwModemEvents, LwTxEnd DEF Modem, ModemResets, Statuses
<1>5. CASE Downlink
  BY <1>5, LwDownlink
<1>6. CASE UNCHANGED lw_vars
  <2>1. UNCHANGED <<ctx, svc, cfm, events, at, arg, disp, asked, begun, label, heard, read, lines>>
    BY <1>6 DEF lw_vars
  <2>2. LwTypes'
    BY <2>1 DEF LwInv, LwTypes
  <2>3. LwJoins'
    BY <2>1, <2>2, JoinsQuiet DEF LwInv, Deferred, Once
  <2>4. LwFrame
    BY <2>1, LwFields DEF LwInv, LwFrame
  <2> QED BY <2>2, <2>3, <2>4, Framed
<1> QED BY <1>1, <1>2, <1>3, <1>4, <1>5, <1>6 DEF LwNext

\* The bounds of the type invariant that the rest does not need.
LwRest ==
    /\ resets \in 0..(MaxResets + 1) /\ awaiting \in {"no", "yes", "cut"}
    /\ Len(events) <= QueueSize

\* An event is published only where there is room.
LEMMA PublishFits ==
    ASSUME NEW q \in Seq(Event), NEW e \in Event, Len(q) <= QueueSize, LwConstants
    PROVE  publish(q, e) \in Seq(Event) /\ Len(publish(q, e)) <= QueueSize
<1>1. CASE Len(q) < QueueSize
  BY <1>1 DEF publish, LwConstants
<1>2. CASE ~(Len(q) < QueueSize)
  BY <1>2 DEF publish
<1> QED BY <1>1, <1>2

LEMMA PublishAllFits ==
    ASSUME NEW q \in Seq(Event), NEW out \in Outs, Len(q) <= QueueSize, LwConstants
    PROVE  Len(PublishAll(q, out)) <= QueueSize
<1>1. /\ Len(publish(q, StateReady)) <= QueueSize
      /\ publish(q, StateJoining) \in Seq(Event) /\ Len(publish(q, StateJoining)) <= QueueSize
  BY PublishFits, StateEvents
<1>2. Len(publish(publish(q, StateJoining), StateReady)) <= QueueSize
  BY <1>1, PublishFits, StateEvents
<1> QED BY <1>1, <1>2, PublishCases

LEMMA TailFits ==
    ASSUME NEW q \in Seq(Event), q # <<>>, Len(q) <= QueueSize, LwConstants
    PROVE  Tail(q) \in Seq(Event) /\ Len(Tail(q)) <= QueueSize
BY DEF LwConstants

\* What a call of the service publishes fits.
LEMMA DoFits ==
    ASSUME LwTypes, LwRest, LwConstants, NEW r,
           \/ r \in rzi_lorawan_join(svc) \/ r \in stop_join(svc) \/ r \in rzi_lorawan_leave(svc)
           \/ \E c \in Classes : r \in rzi_lorawan_set_class(svc, c)
           \/ \E confirmed \in BOOLEAN : r \in rzi_lorawan_send(svc, confirmed),
           Do(r)
    PROVE  Len(events') <= QueueSize
<1>1. svc \in Service /\ events \in Seq(Event) /\ Len(events) <= QueueSize
  BY DEF LwTypes, LwRest
<1>2. CallOK(svc, r)
  BY <1>1, JoinCall, StopCall, LeaveCall, ClassCall, SendCall
<1> QED BY <1>1, <1>2, PublishAllFits DEF CallOK, Do

LEMMA LwRestGoes ==
    ASSUME LwInv, LwRest, LwConstants, [LwNext]_lw_vars
    PROVE  LwRest'
<1> USE DEF LwRest
<1>0. /\ LwTypes /\ events \in Seq(Event) /\ arg \in BOOLEAN /\ ctx.device_class \in Classes
  BY LwFields DEF LwInv, LwTypes
<1>1. CASE LwThread
  <2>1. UNCHANGED resets /\ awaiting' \in {awaiting, "yes"}
    BY <1>1 DEF LwThread, ExtensionStart, JoinStart, ServiceStarted, JoinStop, Send, StartService,
                history, joins
  <2>2. CASE JoinStart
    BY <1>0, <2>1, <2>2, DoFits DEF JoinStart
  <2>3. CASE JoinStop
    BY <1>0, <2>1, <2>3, DoFits DEF JoinStop
  <2>4. CASE Send
    BY <1>0, <2>1, <2>4, DoFits DEF Send
  <2>5. CASE ServiceStarted \/ (\E ok \in BOOLEAN : StartService(ok) \/ ExtensionStart(ok))
    BY <2>1, <2>5 DEF ExtensionStart, ServiceStarted, StartService
  <2> QED BY <1>1, <2>2, <2>3, <2>4, <2>5 DEF LwThread
<1>2. CASE LwHost
  <2>1. UNCHANGED resets /\ awaiting' \in {awaiting, "yes", "no"}
    BY <1>2 DEF LwHost, HandleJoinRun, HandleJoinStart, HandleJoinStop, HandleRecv, HandleCfm,
                HandleClassRead, HandleSend, HandleClass, history, joins
  <2>2. CASE HandleJoinStart
    BY <1>0, <2>1, <2>2, DoFits DEF HandleJoinStart
  <2>3. CASE HandleJoinStop
    BY <1>0, <2>1, <2>3, DoFits DEF HandleJoinStop
  <2>4. ASSUME NEW c \in Classes, HandleClass(c) PROVE LwRest'
    BY <1>0, <2>1, <2>4, DoFits DEF HandleClass
  <2>5. CASE UNCHANGED events
    BY <2>1, <2>5
  <2> QED BY <1>2, <2>2, <2>3, <2>4, <2>5
      DEF LwHost, HandleJoinRun, HandleRecv, HandleCfm, HandleClassRead, HandleSend
<1>3. CASE Dispatcher
  <2>1. UNCHANGED resets /\ awaiting' \in {awaiting, "no"}
    BY <1>3 DEF Dispatcher, OnReady, ApplyClass, BeginPendingJoin, OnJoined, OnJoinFailed, OnOther,
                OnTxDone, OnDownlink, history, joins
  <2>2. CASE ApplyClass
    BY <1>0, <2>1, <2>2, DoFits DEF ApplyClass
  <2>3. CASE BeginPendingJoin
    BY <1>0, <2>1, <2>3, DoFits DEF BeginPendingJoin
  <2>4. CASE OnJoinFailed
    <3>1. Tail(events) \in Seq(Event) /\ Len(Tail(events)) <= QueueSize
      BY <1>0, <2>4, TailFits DEF OnJoinFailed, Take
    <3>2. Len(publish(Tail(events), StateReady)) <= QueueSize
      BY <3>1, PublishFits, StateEvents
    <3>3. events' \in {Tail(events), publish(Tail(events), StateReady)}
      BY <2>4 DEF OnJoinFailed
    <3> QED BY <2>1, <3>1, <3>2, <3>3
  <2>5. CASE OnReady \/ OnJoined \/ OnOther \/ OnTxDone \/ OnDownlink
    <3>1. events # <<>> /\ events' = Tail(events)
      BY <2>5 DEF OnReady, OnJoined, OnOther, OnTxDone, OnDownlink, Take
    <3> QED BY <1>0, <2>1, <3>1, TailFits
  <2> QED BY <1>3, <2>2, <2>3, <2>4, <2>5 DEF Dispatcher
<1>4. ASSUME NEW s, NEW e \in Event, Report(s, e) PROVE Len(events') <= QueueSize
  BY <1>0, <1>4, PublishFits DEF Report
<1>5. ASSUME NEW ok \in BOOLEAN, ModemReset(ok) PROVE LwRest'
  <2>1. resets' \in 0..(MaxResets + 1)
    BY <1>5 DEF ModemReset, LwConstants
  <2>2. awaiting' \in {awaiting, "cut"}
    BY <1>5 DEF ModemReset, CutOff
  <2>3. Ready \in Event /\ Error \in Event
    BY DEF Ready, Error, Event, PlainEvent
  <2>4. Len(events') <= QueueSize
    BY <1>4, <1>5, <2>3 DEF ModemReset
  <2> QED BY <2>1, <2>2, <2>4
<1>6. ASSUME JoinAccept \/ JoinReject \/ Downlink \/ \E status \in Statuses : TxEnd(status)
      PROVE  LwRest'
  <2>1. UNCHANGED resets /\ awaiting' \in {awaiting, "cut"}
    BY <1>6 DEF JoinAccept, JoinReject, Downlink, TxEnd, CutOff
  <2>2. \A type \in {"JOINED", "JOIN_FAILED", "DOWNDATA"} : [type |-> type] \in Event
    BY DEF Event, PlainEvent
  <2>3. \A status \in Statuses :
           [type |-> "TXDONE", confirmed |-> (svc.tx = "confirmed"), status |-> status] \in Event
    BY DEF Event, TxDoneEvent
  <2>4. \E s : \E e \in Event : Report(s, e)
    <3>1. CASE JoinAccept
      BY <2>2, <3>1 DEF JoinAccept
    <3>2. CASE JoinReject
      BY <2>2, <3>2 DEF JoinReject
    <3>3. CASE Downlink
      BY <2>2, <3>3 DEF Downlink
    <3>4. ASSUME NEW status \in Statuses, TxEnd(status) PROVE \E s : \E e \in Event : Report(s, e)
      BY <2>3, <3>4 DEF TxEnd
    <3> QED BY <1>6, <3>1, <3>2, <3>3, <3>4
  <2> QED BY <1>4, <2>1, <2>4
<1>7. CASE UNCHANGED lw_vars
  BY <1>7 DEF lw_vars
<1> QED BY <1>1, <1>2, <1>3, <1>5, <1>6, <1>7 DEF LwNext, Modem, ModemResets, Statuses

LEMMA LwInvariant == LwSpec => [](LwInv /\ LwRest)
<1>1. LwInit => LwInv /\ LwRest
  <2>1. LwInit => LwRest
    BY AtLorawanAssumption DEF LwInit, LwRest, LwConstants
  <2> QED BY <2>1, AtLorawanAssumption, LwBegins
<1>2. LwInv /\ LwRest /\ [LwNext]_lw_vars => (LwInv /\ LwRest)'
  BY AtLorawanAssumption, LwGoes, LwRestGoes
<1> QED BY <1>1, <1>2, PTL DEF LwSpec

\* A join begins at most once for each AT+JOIN, for every number of attempts and length of the
\* queue: a join the AT thread leaves to the dispatcher is begun by it or by the AT thread,
\* never by both, and the READY states after a failed, stopped or left session begin none.
\* Each join that may still begin is counted in the invariant: one the host waits for, one
\* left pending in the context, one the dispatcher has taken from it.
THEOREM JoinsAreBegunOnce == LwSpec => []JoinsAreAskedFor
<1>1. LwInv => JoinsAreAskedFor
  <2> SUFFICES ASSUME LwInv PROVE begun <= asked
    BY DEF JoinsAreAskedFor
  <2>1. Waiting \in Nat /\ Left \in Nat
    BY DEF Waiting, Left
  <2> QED BY <2>1 DEF LwInv, LwTypes, LwJoins
<1> QED BY <1>1, LwInvariant, PTL

\* on_event() reports an uplink with the confirmation mode the host sent it with, when the
\* host waits for that report, and AT+RECV hands out each downlink once and in order: at most
\* one uplink is on its way or reported, and the mode is noted before it can complete.
THEOREM HostAnswersAreRight == LwSpec => []HostAnswersMatch
<1>1. LwInv /\ LwRest => HostAnswersMatch
  <2> SUFFICES ASSUME LwInv, LwRest PROVE HostAnswersMatch
    OBVIOUS
  <2>1. UplinkLabelled
    BY DEF LwInv, LwUplinks, UplinkLabelled
  <2>2. DownlinkReadOnce
    BY DEF LwInv, LwDownlinks, DownlinkReadOnce
  <2>3. ctx.downlink \in 0..MaxDownlinks
    <3>1. Downs(events) \in Nat /\ heard \in Nat /\ MaxDownlinks \in Nat /\ ctx.downlink \in Nat
      BY AtLorawanAssumption, DownsType, LwFields DEF LwInv, LwTypes, LwConstants
    <3> QED BY <3>1 DEF LwInv, LwDownlinks
  <2>4. LwTypeOK
    BY <2>3, LwFields DEF LwInv, LwRest, LwTypes, LwTypeOK, Service, NoTx
  <2> QED BY <2>1, <2>2, <2>4 DEF HostAnswersMatch
<1> QED BY <1>1, LwInvariant, PTL

-----------------------------------------------------------------------------
(* AtService: the system settings *)

Text == Seq(STRING)
Byte == [key : STRING, means : Text, gen : Nat]
Flash == [alias : Text, pword : Text]
ExtStates == [1..Extensions -> {"set", "default"}]
Device ==
    [storage : BOOLEAN, locked : BOOLEAN, password : Text, alias : Text, sn : Text \cup {<<"hwinfo">>},
     echo : BOOLEAN, baud : Text, lpm : Text, lpm_level : Text, loaded : SUBSET Keys, nvm : Flash,
     ext : ExtStates]

-----------------------------------------------------------------------------
(* The handlers *)

InFlash(d) ==
    /\ d.storage = TRUE \/ d.loaded = {}
    /\ "alias" \in d.loaded => d.alias = d.nvm.alias
    /\ "pword" \in d.loaded => d.password = d.nvm.pword

\* What no handler may do to the device.
DevKept(d, e) == e \in Device /\ (InFlash(d) => InFlash(e))

\* A handler keeps the device and answers for itself, or leaves it to its error code.
Good(d, r) ==
    /\ DevKept(d, r.dev)
    /\ r.reboot \in BOOLEAN
    /\ \/ r.rc = "OK" /\ \E status : r.said = <<status>>
       \/ r.rc # "OK" /\ r.said = <<>>

LEMMA KeptSame ==
    ASSUME NEW d \in Device
    PROVE  DevKept(d, d)
BY DEF DevKept

LEMMA RespondFields ==
    ASSUME NEW e, NEW status
    PROVE  /\ respond(e, status).dev = e
           /\ respond(e, status).said = <<status>> /\ respond(e, status).rc = "OK"
           /\ [respond(e, status) EXCEPT !.reboot = TRUE].dev = e
BY DEF respond, OK

LEMMA ErrorFields ==
    ASSUME NEW e, NEW rc
    PROVE  error(e, rc).dev = e /\ error(e, rc).said = <<>> /\ error(e, rc).rc = rc
BY DEF error

LEMMA GoodRespond ==
    ASSUME NEW d, NEW e, DevKept(d, e), NEW status
    PROVE  /\ Good(d, respond(e, status))
           /\ Good(d, [respond(e, status) EXCEPT !.reboot = TRUE])
BY DEF Good, respond, OK

LEMMA GoodError ==
    ASSUME NEW d, NEW e, DevKept(d, e), NEW rc, rc # "OK"
    PROVE  Good(d, error(e, rc))
BY DEF Good, error

LEMMA GoodValue ==
    ASSUME NEW d, NEW e, DevKept(d, e), NEW fits \in BOOLEAN
    PROVE  Good(d, respond_value(e, fits))
BY GoodRespond, GoodError DEF respond_value

\* The answers to a line are one.
LEMMA OneAnswer ==
    ASSUME NEW d, NEW r, Good(d, r)
    PROVE  \E status : respond_for_error(r) = <<status>>
<1>1. CASE r.rc = "OK"
  BY <1>1 DEF Good, respond_for_error, OK
<1>2. CASE r.rc # "OK"
  <2>1. r.said = <<>>
    BY <1>2 DEF Good
  <2>2. \E status : respond_for_error(r) = Append(<<>>, status)
    BY <1>2, <2>1 DEF respond_for_error, OK
  <2> QED BY <2>2
<1> QED BY <1>1, <1>2

\* A setting that is saved before it is published.
LEMMA GoodHandlers ==
    ASSUME NEW d \in Device, NEW op, NEW a \in Text, NEW ok \in BOOLEAN
    PROVE  /\ Good(d, handle_version(d, ok)) /\ Good(d, handle_sn(d, ok))
           /\ Good(d, handle_alias(d, op, a, ok)) /\ Good(d, handle_buildtime(d, ok))
           /\ Good(d, handle_debug(d, ok)) /\ Good(d, handle_boot(d))
           /\ Good(d, handle_lock(d, op, ok)) /\ Good(d, handle_pword(d, op, a, ok))
           /\ Good(d, handle_baud(d, op, a, ok)) /\ Good(d, handle_atm(d))
           /\ Good(d, handle_sleep(d, a)) /\ Good(d, handle_lpm(d, op, a, ok))
           /\ Good(d, handle_lpmlvl(d, op, a, ok)) /\ Good(d, handle_bat(d))
<1>0. DevKept(d, d)
  BY KeptSame
<1>1. Good(d, handle_version(d, ok)) /\ Good(d, handle_buildtime(d, ok)) /\ Good(d, handle_debug(d, ok))
  BY <1>0, GoodValue DEF handle_version, handle_buildtime, handle_debug
<1>2. Good(d, handle_sn(d, ok))
  <2> DEFINE e == [d EXCEPT !.sn = IF d.sn = Empty THEN <<"hwinfo">> ELSE d.sn]
  <2>1. (IF d.sn = Empty THEN <<"hwinfo">> ELSE d.sn) \in Text \cup {<<"hwinfo">>}
    BY DEF Device
  <2>2. DevKept(d, e)
    BY <2>1 DEF DevKept, Device, InFlash
  <2> HIDE DEF e
  <2>3. Good(d, respond_value(e, ok))
    BY <2>2, GoodValue
  <2> QED BY <2>3 DEF e, handle_sn
<1>3. Good(d, handle_alias(d, op, a, ok))
  <2> DEFINE e == [save_string(d, "alias", a) EXCEPT !.alias = a]
  <2>1. DevKept(d, e)
    BY DEF DevKept, Device, Flash, InFlash, save_string
  <2> HIDE DEF e
  <2>2. Good(d, respond_value(d, ok)) /\ Good(d, error(d, "INVALID")) /\ Good(d, error(d, "IO"))
        /\ Good(d, respond(e, OK))
    BY <1>0, <2>1, GoodValue, GoodError, GoodRespond
  <2> QED BY <2>2 DEF e, handle_alias
<1>4. Good(d, handle_boot(d)) /\ Good(d, handle_atm(d)) /\ Good(d, handle_bat(d))
  BY <1>0, GoodRespond, GoodError DEF handle_boot, handle_atm, handle_bat
<1>5. Good(d, handle_lock(d, op, ok))
  <2>1. DevKept(d, [d EXCEPT !.locked = TRUE])
    BY DEF DevKept, Device, InFlash
  <2> QED BY <1>0, <2>1, GoodValue, GoodRespond DEF handle_lock
<1>6. Good(d, handle_pword(d, op, a, ok))
  <2> DEFINE e == [save_string(d, "pword", a) EXCEPT !.password = a]
             f == [d EXCEPT !.locked = FALSE]
  <2>1. DevKept(d, e)
    BY DEF DevKept, Device, Flash, InFlash, save_string
  <2>2. DevKept(d, f)
    BY DEF DevKept, Device, InFlash
  <2> HIDE DEF e, f
  <2>3. Good(d, respond_value(d, ok)) /\ Good(d, error(d, "INVALID")) /\ Good(d, error(d, "IO"))
        /\ Good(d, respond(e, OK)) /\ Good(d, respond(f, OK))
    BY <1>0, <2>1, <2>2, GoodValue, GoodError, GoodRespond
  <2> QED BY <2>3 DEF e, f, handle_pword
<1>7. Good(d, handle_baud(d, op, a, ok))
  <2>1. DevKept(d, [d EXCEPT !.baud = a])
    BY DEF DevKept, Device, InFlash
  <2> QED BY <1>0, <2>1, GoodValue, GoodError, GoodRespond DEF handle_baud
<1>8. Good(d, handle_sleep(d, a))
  BY <1>0, GoodError, GoodRespond DEF handle_sleep
<1>9. Good(d, handle_lpm(d, op, a, ok))
  <2>1. DevKept(d, [d EXCEPT !.lpm = a])
    BY DEF DevKept, Device, InFlash
  <2> QED BY <1>0, <2>1, GoodValue, GoodError, GoodRespond DEF handle_lpm
<1>10. Good(d, handle_lpmlvl(d, op, a, ok))
  <2>1. DevKept(d, [d EXCEPT !.lpm_level = a])
    BY DEF DevKept, Device, InFlash
  <2> QED BY <1>0, <2>1, GoodValue, GoodError, GoodRespond DEF handle_lpmlvl
<1> QED BY <1>1, <1>2, <1>3, <1>4, <1>5, <1>6, <1>7, <1>8, <1>9, <1>10

\* Every extension is reset, and OK says that every one was.
LEMMA Reset ==
    ASSUME NEW d \in Device, NEW oks \in [1..Extensions -> BOOLEAN]
    PROVE  /\ DevKept(d, factory_reset(d, oks).dev)
           /\ factory_reset(d, oks).rc \in {"OK", "IO"}
           /\ factory_reset(d, oks).rc = "OK" =>
                 \A e \in 1..Extensions : factory_reset(d, oks).dev.ext[e] = "default"
<1> DEFINE x == [e \in DOMAIN d.ext |-> IF oks[e] THEN "default" ELSE d.ext[e]]
           n == [d EXCEPT !.ext = x]
           rc == IF \A e \in DOMAIN oks : oks[e] THEN "OK" ELSE "IO"
<1>1. x \in ExtStates
  BY DEF Device, ExtStates
<1>2. rc = "OK" => \A e \in 1..Extensions : x[e] = "default"
  BY DEF Device, ExtStates
<1>3. factory_reset(d, oks).dev = n /\ factory_reset(d, oks).rc = rc
  BY DEF factory_reset, OK
<1> HIDE DEF x
<1>4. DevKept(d, n) /\ n.ext = x
  BY <1>1 DEF DevKept, Device, InFlash
<1> QED BY <1>2, <1>3, <1>4

LEMMA GoodFactory ==
    ASSUME NEW d \in Device, NEW oks \in [1..Extensions -> BOOLEAN]
    PROVE  /\ Good(d, handle_factory(d, oks))
           /\ respond_for_error(handle_factory(d, oks)) = <<"OK">> =>
                 \A e \in 1..Extensions : handle_factory(d, oks).dev.ext[e] = "default"
<1> DEFINE r == factory_reset(d, oks)
<1>1. CASE r.rc = "OK"
  <2>1. handle_factory(d, oks) = [respond(r.dev, OK) EXCEPT !.reboot = TRUE]
    BY <1>1 DEF handle_factory, OK
  <2> QED BY <1>1, <2>1, Reset, GoodRespond, RespondFields
<1>2. CASE r.rc = "IO"
  <2>1. handle_factory(d, oks) = error(r.dev, "IO")
    BY <1>2 DEF handle_factory, OK
  <2>2. Good(d, error(r.dev, "IO")) /\ error(r.dev, "IO").rc = "IO" /\ error(r.dev, "IO").said = <<>>
    BY Reset, GoodError, ErrorFields
  <2>3. respond_for_error(error(r.dev, "IO")) = Append(<<>>, "AT_ERROR")
    BY <2>2 DEF respond_for_error, OK
  <2>4. Append(<<>>, "AT_ERROR") # <<"OK">>
    OBVIOUS
  <2> QED BY <2>1, <2>2, <2>3, <2>4
<1> QED BY <1>1, <1>2, Reset

\* A command of the registry.
LEMMA GoodDispatch ==
    ASSUME NEW d \in Device, NEW name, NEW op, NEW a \in Text, NEW ok \in BOOLEAN,
           NEW oks \in [1..Extensions -> BOOLEAN]
    PROVE  Good(d, dispatch(d, name, op, a, ok, oks))
<1>0. DevKept(d, d)
  BY KeptSame
<1>1. Good(d, handler(d, name, op, a, ok, oks))
  BY GoodHandlers, GoodFactory DEF handler
<1>2. /\ Good(d, error(d, "NOT_FOUND")) /\ Good(d, error(d, "NOT_SUPPORTED"))
      /\ Good(d, respond_value(d, ok))
  BY <1>0, GoodError, GoodValue
<1> QED BY <1>1, <1>2 DEF dispatch

LEMMA GoodCommand ==
    ASSUME NEW d \in Device, NEW line \in Text, line # <<>>, NEW ok \in BOOLEAN,
           NEW oks \in [1..Extensions -> BOOLEAN]
    PROVE  Good(d, execute_command(d, line, ok, oks))
<1>1. Tail(line) \in Text
  BY DEF Text
<1>2. Good(d, respond(d, "AT_ERROR"))
  BY KeptSame, GoodRespond
<1>3. Good(d, dispatch(d, line[1], operation(line), Tail(line), ok, oks))
  BY <1>1, GoodDispatch
<1> QED BY <1>2, <1>3 DEF execute_command

\* The line that resets answers OK only when the reset is whole.
Whole(r) == respond_for_error(r) = <<"OK">> => \A e \in 1..Extensions : r.dev.ext[e] = "default"

LEMMA GoodAtr ==
    ASSUME NEW d \in Device, NEW oks \in [1..Extensions -> BOOLEAN], NEW r,
           r = LET f == factory_reset(d, oks)
               IN  IF f.rc = "OK" THEN [respond(f.dev, "OK") EXCEPT !.reboot = TRUE]
                   ELSE respond(f.dev, "AT_ERROR")
    PROVE  Good(d, r) /\ Whole(r)
<1> DEFINE f == factory_reset(d, oks)
<1>1. CASE f.rc = "OK"
  <2>1. r = [respond(f.dev, "OK") EXCEPT !.reboot = TRUE]
    BY <1>1
  <2> QED BY <1>1, <2>1, Reset, GoodRespond, RespondFields DEF Whole
<1>2. CASE f.rc # "OK"
  <2>1. r = respond(f.dev, "AT_ERROR")
    BY <1>2
  <2>2. Good(d, r) /\ r.said = <<"AT_ERROR">> /\ r.rc = "OK"
    <3>1. DevKept(d, f.dev)
      BY Reset
    <3>2. Good(d, respond(f.dev, "AT_ERROR"))
      BY <3>1, GoodRespond
    <3>3. respond(f.dev, "AT_ERROR").said = <<"AT_ERROR">> /\ respond(f.dev, "AT_ERROR").rc = "OK"
      BY RespondFields
    <3> HIDE DEF f
    <3> QED BY <2>1, <3>2, <3>3
  <2>3. respond_for_error(r) = <<"AT_ERROR">>
    BY <2>2 DEF respond_for_error, OK
  <2>4. <<"AT_ERROR">> # <<"OK">>
    OBVIOUS
  <2> QED BY <2>2, <2>3, <2>4 DEF Whole
<1> QED BY <1>1, <1>2

LEMMA WholeFactory ==
    ASSUME NEW d \in Device, NEW ok \in BOOLEAN, NEW oks \in [1..Extensions -> BOOLEAN]
    PROVE  Whole(execute_command(d, <<"FACTORY">>, ok, oks))
<1> DEFINE line == <<"FACTORY">>
<1>1. line[1] = "FACTORY" /\ operation(line) = "RUN"
  BY DEF operation
<1>2. CASE d.locked
  <2>1. execute_command(d, line, ok, oks) = respond(d, "AT_ERROR")
    BY <1>1, <1>2 DEF execute_command
  <2>2. respond(d, "AT_ERROR").said = <<"AT_ERROR">> /\ respond(d, "AT_ERROR").rc = "OK"
    BY RespondFields
  <2>3. respond_for_error(respond(d, "AT_ERROR")) = <<"AT_ERROR">>
    BY <2>2 DEF respond_for_error, OK
  <2>4. <<"AT_ERROR">> # <<"OK">>
    OBVIOUS
  <2> QED BY <2>1, <2>3, <2>4 DEF Whole
<1>3. CASE ~d.locked
  <2>1. execute_command(d, line, ok, oks) = dispatch(d, "FACTORY", "RUN", Tail(line), ok, oks)
    BY <1>1, <1>3 DEF execute_command
  <2>2. "FACTORY" \in DOMAIN commands /\ commands["FACTORY"] = {"RUN"}
    BY DEF commands
  <2>3. \A a : dispatch(d, "FACTORY", "RUN", a, ok, oks) = handler(d, "FACTORY", "RUN", a, ok, oks)
    BY <2>2 DEF dispatch
  <2>4. \A a : handler(d, "FACTORY", "RUN", a, ok, oks) = handle_factory(d, oks)
    BY DEF handler
  <2>5. execute_command(d, line, ok, oks) = handle_factory(d, oks)
    BY <2>1, <2>3, <2>4
  <2> QED BY <2>5, GoodFactory DEF Whole
<1> QED BY <1>2, <1>3 DEF Device

LEMMA HelpLines ==
    /\ \A name : <<name>> \notin PlainHelp
    /\ \A line \in PlainHelp : line[1] \in Plain
BY DEF PlainHelp

\* The lines that may go without an answer.
Unanswered(line, answers) == answers = <<>> /\ (line = <<"ATZ">> \/ line \in PlainHelp)

\* One line: the device is kept, a reset that answers OK is whole, and every line but ATZ
\* and the plain help has one answer.
LEMMA Execute ==
    ASSUME NEW d \in Device, NEW line \in Text, line # <<>>, NEW ok \in BOOLEAN,
           NEW oks \in [1..Extensions -> BOOLEAN], NEW r, r = execute(d, line, ok, oks)
    PROVE  /\ DevKept(d, r.dev) /\ r.reboot \in BOOLEAN
           /\ Good(d, r) \/ Unanswered(line, respond_for_error(r))
           /\ line \in {<<"ATR">>, <<"FACTORY">>} => Whole(r)
<1>0. DevKept(d, d)
  BY KeptSame
<1>1. CASE line = <<"AT">>
  <2>1. r = respond(d, OK)
    BY <1>1, HelpLines DEF execute
  <2>2. line \notin {<<"ATR">>, <<"FACTORY">>}
    BY <1>1
  <2> QED BY <1>0, <2>1, <2>2, GoodRespond DEF Good
<1>2. CASE line = <<"ATE">>
  <2> DEFINE e == [d EXCEPT !.echo = ~d.echo]
  <2>1. r = respond(e, OK)
    BY <1>2, HelpLines DEF execute
  <2>2. line \notin {<<"ATR">>, <<"FACTORY">>}
    BY <1>2
  <2>3. (~d.echo) \in BOOLEAN
    OBVIOUS
  <2>4. DevKept(d, e)
    BY <2>3 DEF DevKept, Device, InFlash
  <2> HIDE DEF e
  <2> QED BY <2>1, <2>2, <2>4, GoodRespond DEF Good
<1>3. CASE line = <<"ATZ">>
  <2>1. r = [dev |-> d, rc |-> OK, said |-> <<>>, reboot |-> TRUE]
    BY <1>3, HelpLines DEF execute
  <2>2. line \notin {<<"ATR">>, <<"FACTORY">>}
    BY <1>3
  <2>3. r.dev = d /\ r.reboot = TRUE /\ r.rc = OK /\ r.said = <<>>
    BY <2>1
  <2>4. DevKept(d, r.dev) /\ r.reboot \in BOOLEAN
    BY <1>0, <2>3
  <2>5. Unanswered(line, respond_for_error(r))
    BY <1>3, <2>3 DEF Unanswered, respond_for_error, OK
  <2> QED BY <2>2, <2>4, <2>5
<1>4. CASE line = <<"ATR">>
  <2>1. r = LET f == factory_reset(d, oks)
            IN  IF f.rc = "OK" THEN [respond(f.dev, "OK") EXCEPT !.reboot = TRUE]
                ELSE respond(f.dev, "AT_ERROR")
    BY <1>4, HelpLines DEF execute, OK
  <2>2. Good(d, r) /\ Whole(r)
    BY <2>1, GoodAtr
  <2> QED BY <2>2 DEF Good
<1>5. CASE line \notin {<<"AT">>, <<"ATE">>, <<"ATZ">>, <<"ATR">>}
  <2>0. line \in PlainHelp => line[1] \in Plain /\ line # <<"FACTORY">>
    BY HelpLines
  <2>1. \/ r = ignore_result(respond_value(d, ok)) /\ line \in PlainHelp /\ line[1] \in Plain
        \/ r = respond(d, "AT_ERROR") /\ line[1] \in Plain
        \/ r = execute_command(d, line, ok, oks)
    BY <1>5, <2>0 DEF execute
  <2>2. DevKept(d, r.dev) /\ r.reboot \in BOOLEAN /\ (Good(d, r) \/ Unanswered(line, respond_for_error(r)))
    <3>1. Good(d, respond(d, "AT_ERROR")) /\ Good(d, execute_command(d, line, ok, oks))
      BY <1>0, GoodRespond, GoodCommand
    <3>2. CASE r = ignore_result(respond_value(d, ok)) /\ line \in PlainHelp
      <4>1. CASE ok
        <5>1. r = respond(d, OK)
          BY <3>2, <4>1 DEF ignore_result, respond_value, respond
        <5> QED BY <1>0, <5>1, GoodRespond DEF Good
      <4>2. CASE ~ok
        <5>1. r.dev = d /\ r.reboot = FALSE /\ r.rc = OK /\ r.said = <<>>
          BY <3>2, <4>2 DEF ignore_result, respond_value, error
        <5>2. Unanswered(line, respond_for_error(r))
          BY <3>2, <5>1 DEF Unanswered, respond_for_error, OK
        <5> QED BY <1>0, <5>1, <5>2
      <4> QED BY <4>1, <4>2
    <3> QED BY <2>1, <3>1, <3>2 DEF Good
  <2>3. line = <<"FACTORY">> => Whole(r)
    <3> SUFFICES ASSUME line = <<"FACTORY">> PROVE Whole(r)
      OBVIOUS
    <3>1. line[1] \notin Plain
      BY DEF Plain
    <3> QED BY <2>1, <3>1, WholeFactory
  <2> QED BY <1>5, <2>2, <2>3
<1> QED BY <1>1, <1>2, <1>3, <1>4, <1>5

-----------------------------------------------------------------------------
(* The types, and the settings *)

StTypes ==
    /\ rx_ring \in Seq(Byte) /\ Len(rx_ring) <= RingSize
    /\ buffer \in Seq(Byte) /\ Len(buffer) <= BufferSize
    /\ typing \in Seq(Byte)
    /\ parser \in ParserState /\ Len(parser.line) <= LineMax
    /\ rx_overflow \in BOOLEAN /\ at_thread \in {"idle", "loop"}
    /\ started \in {"off", "started", "failed"}
    /\ dev \in Device
    /\ typed \in 0..MaxScripts /\ losses \in Nat
    /\ damage \in {"none", "lost", "answered"}

StSettings ==
    /\ started = "started" => InFlash(dev)
    /\ ResetIsWhole
    /\ Unanswered(last.line, last.answers) \/ \E status : last.answers = <<status>>

\* Bytes: a part of a sequence of them, and what the ring stamps on it.
LEMMA Part ==
    ASSUME NEW q \in Seq(Byte), NEW m \in 1..(Len(q) + 1), NEW n \in 0..Len(q)
    PROVE  SubSeq(q, m, n) \in Seq(Byte) /\ Len(SubSeq(q, m, n)) = IF m <= n THEN n - m + 1 ELSE 0
BY SubSeqProperties

LEMMA Stamped ==
    ASSUME NEW q \in Seq(Byte), losses \in Nat
    PROVE  /\ Stamp(q) \in Seq(Byte) /\ Len(Stamp(q)) = Len(q)
           /\ \A i \in 1..Len(q) : /\ Stamp(q)[i].key = q[i].key
                                   /\ Stamp(q)[i].means = q[i].means
                                   /\ Stamp(q)[i].gen = losses
<1> DEFINE f == [i \in 1..Len(q) |-> [q[i] EXCEPT !.gen = losses]]
<1>1. Stamp(q) = f
  BY DEF Stamp
<1>2. \A i \in 1..Len(q) : q[i] \in Byte
  OBVIOUS
<1>3. \A i \in 1..Len(q) : /\ f[i] \in Byte /\ f[i].key = q[i].key /\ f[i].means = q[i].means
                           /\ f[i].gen = losses
  BY <1>2 DEF Byte
<1>4. f \in Seq(Byte) /\ Len(f) = Len(q)
  <2>1. Len(q) \in Nat
    OBVIOUS
  <2>2. f \in [1..Len(q) -> Byte]
    BY <1>3
  <2> QED BY <2>1, <2>2
<1> HIDE DEF f
<1> QED BY <1>1, <1>3, <1>4

\* One byte through the line editor.
LEMMA Fed ==
    ASSUME NEW p \in ParserState, Len(p.line) <= LineMax, NEW key \in STRING, AtConstants
    PROVE  /\ parser_feed(p, key) \in ParserState /\ Len(parser_feed(p, key).line) <= LineMax
           /\ line_ended(p, key) \in Text \cup {Overflow}
<1>0. LineMax \in Nat \ {0} /\ p.line \in Seq(STRING) /\ Len(p.line) \in Nat
  BY DEF AtConstants, ParserState, Text
<1>1. <<>> \in Text /\ Len(<<>>) <= LineMax
  BY <1>0 DEF Text
<1>2. NewParser \in ParserState /\ NewParser.line = <<>>
  BY <1>1 DEF NewParser, NoLine, ParserState
<1> DEFINE quiet == [p EXCEPT !.ignore_lf = FALSE]
           cut == [p EXCEPT !.ignore_lf = FALSE, !.line = SubSeq(p.line, 1, Len(p.line) - 1)]
           fresh == [NewParser EXCEPT !.ignore_lf = (key = "cr")]
           full == [p EXCEPT !.overflow = TRUE, !.ignore_lf = FALSE]
           more == [p EXCEPT !.line = Append(p.line, key), !.ignore_lf = FALSE]
<1>3. quiet \in ParserState /\ quiet.line = p.line
  BY DEF ParserState
<1>4. cut \in ParserState /\ Len(cut.line) <= LineMax
  <2>1. SubSeq(p.line, 1, Len(p.line) - 1) \in Text /\ Len(SubSeq(p.line, 1, Len(p.line) - 1)) <= LineMax
    BY <1>0, SubSeqProperties DEF Text
  <2> QED BY <2>1 DEF ParserState, Text
<1>5. fresh \in ParserState /\ fresh.line = <<>>
  BY <1>2 DEF ParserState
<1>6. full \in ParserState /\ full.line = p.line
  BY DEF ParserState
<1>7. Len(p.line) < LineMax => more \in ParserState /\ Len(more.line) <= LineMax
  <2>1. Append(p.line, key) \in Text /\ Len(Append(p.line, key)) = Len(p.line) + 1
    BY <1>0 DEF Text
  <2>2. more \in ParserState /\ more.line = Append(p.line, key)
    BY <2>1 DEF ParserState, Text
  <2> QED BY <1>0, <2>1, <2>2
<1>8. put_key(p, key) = full \/ (Len(p.line) < LineMax /\ put_key(p, key) = more)
  BY <1>0 DEF put_key
<1>9. parser_feed(p, key) \in {quiet, cut, fresh, put_key(p, key)}
  BY DEF parser_feed
<1>10. line_ended(p, key) \in Text \cup {Overflow}
  BY <1>1 DEF line_ended, NoLine, ParserState, Text
<1> HIDE DEF quiet, cut, fresh, full, more
<1>11. \A x \in {quiet, cut, fresh, put_key(p, key)} : x \in ParserState /\ Len(x.line) <= LineMax
  BY <1>1, <1>3, <1>4, <1>5, <1>6, <1>7, <1>8
<1> QED BY <1>9, <1>10, <1>11

StInv == StTypes /\ StSettings

\* A step that leaves the settings and the last answer alone, and does not start the service.
LEMMA SettingsFrame ==
    ASSUME StSettings, UNCHANGED <<dev, last>>, started' = "started" => started = "started"
    PROVE  StSettings'
BY DEF StSettings, ResetIsWhole, InFlash, Unanswered, OK

LEMMA StStart ==
    ASSUME StInv, AtConstants, NEW readable \in SUBSET Keys, Start(readable)
    PROVE  StInv'
<1> DEFINE a == load_string(dev.nvm.alias, "alias" \in readable)
           p == load_string(dev.nvm.pword, "pword" \in readable)
<1>0. /\ started' = "started" /\ dev \in Device /\ (dev.storage = TRUE \/ readable = {})
      /\ UNCHANGED <<rx_ring, rx_overflow, buffer, at_thread, parser, typing, typed, losses, damage, last>>
      /\ dev' = [dev EXCEPT !.locked = FALSE, !.echo = TRUE, !.sn = Empty, !.baud = Empty,
                            !.lpm = Empty, !.lpm_level = Empty, !.loaded = readable,
                            !.alias = a, !.password = p]
  BY DEF StInv, StTypes, Start, input
<1>1. Empty \in Text
  BY DEF Empty, Text
<1>2. dev.nvm \in Flash /\ dev.nvm.alias \in Text /\ dev.nvm.pword \in Text
  BY <1>0 DEF Device, Flash
<1>3. a \in Text /\ p \in Text
  BY <1>1, <1>2 DEF load_string
<1>4. /\ "alias" \in readable => a = dev.nvm.alias
      /\ "pword" \in readable => p = dev.nvm.pword
  BY DEF load_string
<1> HIDE DEF a, p
<1>5. /\ dev' \in Device /\ dev'.loaded = readable /\ dev'.nvm = dev.nvm /\ dev'.ext = dev.ext
      /\ dev'.storage = dev.storage /\ dev'.alias = a /\ dev'.password = p
  BY <1>0, <1>1, <1>3 DEF Device
<1>6. StTypes'
  BY <1>0, <1>5 DEF StInv, StTypes
<1>7. StSettings'
  <2>1. InFlash(dev')
    BY <1>0, <1>4, <1>5 DEF InFlash
  <2>2. ResetIsWhole'
    BY <1>0, <1>5 DEF StInv, StSettings, ResetIsWhole
  <2> QED BY <1>0, <2>1, <2>2 DEF StInv, StSettings
<1> QED BY <1>6, <1>7 DEF StInv

LEMMA Fresh ==
    ASSUME AtConstants
    PROVE  NewParser \in ParserState /\ Len(NewParser.line) <= LineMax /\ NewParser.line = <<>>
<1>1. <<>> \in Text /\ Len(<<>>) = 0
  BY DEF Text
<1>2. LineMax \in Nat
  BY DEF AtConstants
<1> QED BY <1>1, <1>2 DEF NewParser, NoLine, ParserState

LEMMA StLose ==
    ASSUME StTypes, AtConstants, LoseRam, dev' \in Device
    PROVE  StTypes' /\ started' = "off"
<1>0. /\ started' = "off" /\ at_thread' = "idle"
      /\ rx_ring' = <<>> /\ rx_overflow' = FALSE /\ buffer' = <<>> /\ parser' = NewParser
      /\ typing' = <<>> /\ damage' = "none" /\ UNCHANGED <<typed, losses>>
  BY DEF LoseRam
<1>1. <<>> \in Seq(Byte) /\ Len(<<>>) = 0 /\ RingSize \in Nat /\ BufferSize \in Nat
  BY DEF AtConstants
<1>2. rx_overflow' \in BOOLEAN
  BY <1>0
<1> QED BY <1>0, <1>1, <1>2, Fresh DEF StTypes

LEMMA StPowerCycle ==
    ASSUME StInv, AtConstants, PowerCycle
    PROVE  StInv'
<1>0. LoseRam /\ UNCHANGED <<dev, last>> /\ dev' \in Device
  BY DEF PowerCycle, StInv, StTypes
<1>1. StTypes' /\ started' = "off"
  BY <1>0, StLose DEF StInv
<1> QED BY <1>0, <1>1, SettingsFrame DEF StInv

LEMMA StStartFails ==
    ASSUME StInv, StartFails
    PROVE  StInv'
<1>0. /\ started' = "failed"
      /\ UNCHANGED <<rx_ring, rx_overflow, buffer, parser, typing, typed, losses, damage, at_thread, dev, last>>
  BY DEF StartFails, input
<1>1. StTypes'
  BY <1>0 DEF StInv, StTypes
<1> QED BY <1>0, <1>1, SettingsFrame DEF StInv

\* The bytes of a script.
LEMMA ScriptBytes ==
    ASSUME AtConstants, NEW script \in Scripts, NEW q,
           q = [i \in DOMAIN script.keys |-> [key |-> script.keys[i], means |-> script.means, gen |-> 0]]
    PROVE  /\ q \in Seq(Byte) /\ Len(q) = Len(script.keys)
           /\ \A i \in 1..Len(script.keys) : q[i].key = script.keys[i] /\ q[i].means = script.means
<1>0. script.keys \in Seq(STRING) /\ script.means \in Text
  BY DEF AtConstants, Text
<1>1. Len(script.keys) \in Nat /\ DOMAIN script.keys = 1..Len(script.keys)
  BY <1>0
<1>2. \A i \in 1..Len(script.keys) : script.keys[i] \in STRING
  BY <1>0
<1>3. \A i \in 1..Len(script.keys) : [key |-> script.keys[i], means |-> script.means, gen |-> 0] \in Byte
  BY <1>0, <1>2 DEF Byte
<1>4. q \in [1..Len(script.keys) -> Byte]
  BY <1>1, <1>3
<1>5. q \in Seq(Byte) /\ Len(q) = Len(script.keys)
  BY <1>1, <1>4
<1>6. \A i \in 1..Len(script.keys) : q[i].key = script.keys[i] /\ q[i].means = script.means
  BY <1>1
<1> QED BY <1>5, <1>6

LEMMA StHostType ==
    ASSUME StInv, AtConstants, NEW script \in Scripts, HostType(script)
    PROVE  StInv'
<1>0. /\ typed < MaxScripts /\ typed' = typed + 1 /\ typed \in 0..MaxScripts /\ MaxScripts \in Nat
      /\ typing' = [i \in DOMAIN script.keys |-> [key |-> script.keys[i], means |-> script.means,
                                                  gen |-> 0]]
      /\ UNCHANGED <<rx_ring, rx_overflow, buffer, at_thread, started, parser, dev, losses, damage, last>>
  BY DEF HostType, StInv, StTypes, AtConstants
<1>1. typing' \in Seq(Byte)
  BY <1>0, ScriptBytes
<1>2. typed' \in 0..MaxScripts
  BY <1>0
<1>3. StTypes'
  BY <1>0, <1>1, <1>2 DEF StInv, StTypes
<1> QED BY <1>0, <1>3, SettingsFrame DEF StInv

\* The ring takes what it has room for.
LEMMA StReceive ==
    ASSUME StInv, AtConstants, NEW n \in 1..ChunkSize, at_receive(n)
    PROVE  StInv'
<1> DEFINE w == IF n <= RingSize - Len(rx_ring) THEN n ELSE RingSize - Len(rx_ring)
           q == Stamp(SubSeq(typing, 1, w))
<1>0. /\ n <= Len(typing)
      /\ rx_ring' = rx_ring \o q
      /\ typing' = SubSeq(typing, n + 1, Len(typing))
      /\ \/ losses' = losses + 1 /\ damage' = "lost" /\ rx_overflow' = TRUE
         \/ UNCHANGED <<losses, damage, rx_overflow>>
      /\ UNCHANGED <<buffer, at_thread, started, parser, dev, typed, last>>
  BY DEF at_receive
<1>1. /\ rx_ring \in Seq(Byte) /\ Len(rx_ring) <= RingSize /\ typing \in Seq(Byte) /\ losses \in Nat
      /\ Len(rx_ring) \in Nat /\ Len(typing) \in Nat /\ n \in Nat /\ n >= 1 /\ RingSize \in Nat
  BY DEF StInv, StTypes, AtConstants
<1>2. w \in 0..Len(typing) /\ Len(rx_ring) + w <= RingSize
  BY <1>0, <1>1
<1> HIDE DEF w
<1>3. SubSeq(typing, 1, w) \in Seq(Byte) /\ Len(SubSeq(typing, 1, w)) = w
  BY <1>1, <1>2, Part
<1>4. q \in Seq(Byte) /\ Len(q) = w
  BY <1>1, <1>3, Stamped
<1> HIDE DEF q
<1>5. rx_ring' \in Seq(Byte) /\ Len(rx_ring') = Len(rx_ring) + w
  <2>1. (rx_ring \o q) \in Seq(Byte) /\ Len(rx_ring \o q) = Len(rx_ring) + Len(q)
    BY <1>1, <1>4, ConcatProperties
  <2>2. rx_ring' = rx_ring \o q
    BY <1>0
  <2> QED BY <1>4, <2>1, <2>2
<1>6. Len(rx_ring') <= RingSize
  BY <1>2, <1>5
<1>7. typing' \in Seq(Byte)
  <2>1. n + 1 \in 1..(Len(typing) + 1) /\ Len(typing) \in 0..Len(typing)
    BY <1>0, <1>1
  <2> QED BY <1>0, <1>1, <2>1, Part
<1>8. losses' \in Nat /\ damage' \in {"none", "lost", "answered"} /\ rx_overflow' \in BOOLEAN
  <2>1. losses + 1 \in Nat
    BY <1>1
  <2>2. losses' \in Nat
    <3>1. losses' = losses + 1 \/ losses' = losses
      BY <1>0
    <3> QED BY <1>1, <2>1, <3>1
  <2>3. damage' \in {"none", "lost", "answered"}
    BY <1>0 DEF StInv, StTypes
  <2>4. rx_overflow' \in BOOLEAN
    <3>1. rx_overflow' = TRUE \/ rx_overflow' = rx_overflow
      BY <1>0
    <3>2. rx_overflow \in BOOLEAN
      BY DEF StInv, StTypes
    <3> QED BY <3>1, <3>2, Zenon
  <2> QED BY <2>2, <2>3, <2>4
<1>9. StTypes'
  BY <1>0, <1>5, <1>6, <1>7, <1>8 DEF StInv, StTypes
<1> QED BY <1>0, <1>9, SettingsFrame DEF StInv

LEMMA StProcessInput ==
    ASSUME StInv, AtConstants, ProcessInput
    PROVE  StInv'
<1>0. /\ at_thread' = "loop" /\ rx_overflow' = FALSE
      /\ parser' = IF rx_overflow THEN NewParser ELSE parser
      /\ damage' = IF rx_overflow /\ damage = "lost" THEN "answered" ELSE damage
      /\ UNCHANGED <<rx_ring, buffer, started, dev, typing, typed, losses, last>>
  BY DEF ProcessInput, parser_reset
<1>1. parser' \in ParserState /\ Len(parser'.line) <= LineMax
  BY <1>0, Fresh DEF StInv, StTypes
<1>2. damage' \in {"none", "lost", "answered"} /\ rx_overflow' \in BOOLEAN
  BY <1>0 DEF StInv, StTypes
<1>3. StTypes'
  BY <1>0, <1>1, <1>2 DEF StInv, StTypes
<1> QED BY <1>0, <1>3, SettingsFrame DEF StInv

LEMMA StRingGet ==
    ASSUME StInv, AtConstants, RingGet
    PROVE  StInv'
<1> DEFINE count == IF Len(rx_ring) <= BufferSize THEN Len(rx_ring) ELSE BufferSize
<1>0. /\ buffer' = SubSeq(rx_ring, 1, count)
      /\ rx_ring' = SubSeq(rx_ring, count + 1, Len(rx_ring))
      /\ UNCHANGED <<rx_overflow, at_thread, started, parser, dev, typing, typed, losses, damage, last>>
  BY DEF RingGet
<1>1. /\ rx_ring \in Seq(Byte) /\ Len(rx_ring) <= RingSize /\ Len(rx_ring) \in Nat
      /\ RingSize \in Nat /\ BufferSize \in Nat
  BY DEF StInv, StTypes, AtConstants
<1>2. count \in 0..Len(rx_ring) /\ count <= BufferSize
  BY <1>1
<1> HIDE DEF count
<1>3. buffer' \in Seq(Byte) /\ Len(buffer') = count
  BY <1>0, <1>1, <1>2, Part
<1>4. rx_ring' \in Seq(Byte) /\ Len(rx_ring') <= RingSize
  <2>1. count + 1 \in 1..(Len(rx_ring) + 1) /\ Len(rx_ring) \in 0..Len(rx_ring)
    BY <1>1, <1>2
  <2> DEFINE k == IF count + 1 <= Len(rx_ring) THEN Len(rx_ring) - (count + 1) + 1 ELSE 0
  <2>2. rx_ring' \in Seq(Byte) /\ Len(rx_ring') = k
    BY <1>0, <1>1, <2>1, Part
  <2>3. k <= RingSize
    BY <1>1, <1>2
  <2> HIDE DEF k
  <2> QED BY <2>2, <2>3
<1>5. StTypes'
  BY <1>0, <1>2, <1>3, <1>4 DEF StInv, StTypes
<1> QED BY <1>0, <1>5, SettingsFrame DEF StInv

LEMMA StInputDone ==
    ASSUME StInv, InputDone
    PROVE  StInv'
<1>0. /\ at_thread' = "idle"
      /\ UNCHANGED <<rx_ring, rx_overflow, buffer, parser, typing, typed, losses, damage, started, dev, last>>
  BY DEF InputDone, input
<1>1. StTypes'
  BY <1>0 DEF StInv, StTypes
<1> QED BY <1>0, <1>1, SettingsFrame DEF StInv

\* The byte that is fed.
LEMMA FedByte ==
    ASSUME StTypes, AtConstants, buffer # <<>>
    PROVE  LET byte == Head(buffer)
           IN  /\ byte \in Byte /\ byte.key \in STRING
               /\ Tail(buffer) \in Seq(Byte) /\ Len(Tail(buffer)) <= BufferSize
               /\ parser_feed(parser, byte.key) \in ParserState
               /\ Len(parser_feed(parser, byte.key).line) <= LineMax
               /\ line_ended(parser, byte.key) \in Text \cup {Overflow}
<1>1. buffer \in Seq(Byte) /\ Len(buffer) <= BufferSize /\ Len(buffer) \in Nat /\ BufferSize \in Nat
  BY DEF StTypes, AtConstants
<1>2. Head(buffer) \in Byte /\ Tail(buffer) \in Seq(Byte) /\ Len(Tail(buffer)) = Len(buffer) - 1
  BY <1>1, HeadTailProperties
<1>3. Head(buffer).key \in STRING
  BY <1>2 DEF Byte
<1>4. parser \in ParserState /\ Len(parser.line) <= LineMax
  BY DEF StTypes
<1>5. Len(Tail(buffer)) <= BufferSize
  BY <1>1, <1>2
<1> QED BY <1>2, <1>3, <1>4, <1>5, Fed

LEMMA StFeedKey ==
    ASSUME StInv, AtConstants, FeedKey
    PROVE  StInv'
<1> DEFINE byte == Head(buffer)
           line == line_ended(parser, byte.key)
<1>0. /\ buffer # <<>> /\ line \in {NoLine, Overflow}
      /\ parser' = parser_feed(parser, byte.key)
      /\ last' = IF line = NoLine THEN last
                 ELSE Handled(byte, line, <<"AT_TEST_PARAM_OVERFLOW">>)
      /\ damage' = "none" \/ damage' = damage
      /\ buffer' = Tail(buffer)
      /\ UNCHANGED <<rx_ring, rx_overflow, at_thread, started, dev, typing, typed, losses>>
  BY DEF FeedKey, Repair
<1>1. StTypes'
  <2>1. damage' \in {"none", "lost", "answered"}
    BY <1>0 DEF StInv, StTypes
  <2>2. /\ buffer' \in Seq(Byte) /\ Len(buffer') <= BufferSize
        /\ parser' \in ParserState /\ Len(parser'.line) <= LineMax
    BY <1>0, FedByte DEF StInv
  <2> QED BY <1>0, <2>1, <2>2 DEF StInv, StTypes
<1>2. StSettings'
  <2>1. CASE last' = last
    BY <1>0, <2>1, SettingsFrame DEF StInv
  <2>2. CASE line = Overflow /\ last' = Handled(byte, line, <<"AT_TEST_PARAM_OVERFLOW">>)
    <3>1. last'.line = <<"overflow">> /\ last'.answers = <<"AT_TEST_PARAM_OVERFLOW">>
      BY <2>2 DEF Handled, Overflow
    <3>2. <<"overflow">> \notin {<<"ATR">>, <<"FACTORY">>}
      OBVIOUS
    <3>3. ResetIsWhole'
      BY <3>1, <3>2 DEF ResetIsWhole
    <3>4. \E status : last'.answers = <<status>>
      BY <3>1
    <3> QED BY <1>0, <3>3, <3>4 DEF StInv, StSettings
  <2> QED BY <1>0, <2>1, <2>2
<1> QED BY <1>1, <1>2 DEF StInv

LEMMA StFeedLine ==
    ASSUME StInv, AtConstants, NEW ok \in BOOLEAN, NEW oks \in [1..Extensions -> BOOLEAN],
           FeedLine(ok, oks)
    PROVE  StInv'
<1> DEFINE byte == Head(buffer)
           line == line_ended(parser, byte.key)
           r == execute(dev, line, ok, oks)
<1>0. /\ buffer # <<>> /\ line \notin {NoLine, Overflow}
      /\ dev' = r.dev
      /\ last' = Handled(byte, line, respond_for_error(r))
      /\ \/ LoseRam
         \/ /\ parser' = parser_feed(parser, byte.key)
            /\ damage' = "none" \/ damage' = damage
            /\ buffer' = Tail(buffer)
            /\ UNCHANGED <<rx_ring, rx_overflow, at_thread, started, typing, typed, losses>>
  BY DEF FeedLine, Repair
<1>1. line \in Text /\ line # <<>> /\ dev \in Device
  BY <1>0, FedByte DEF StInv, StTypes, NoLine
<1>2. /\ DevKept(dev, dev')
      /\ Good(dev, r) \/ Unanswered(line, respond_for_error(r))
      /\ line \in {<<"ATR">>, <<"FACTORY">>} => Whole(r)
  BY <1>0, <1>1, Execute
<1> HIDE DEF r, line
<1>3. dev' \in Device
  BY <1>2 DEF DevKept
<1>4. (started' = "started" => started = "started") /\ StTypes'
  <2>1. CASE LoseRam
    <3>1. StTypes' /\ started' = "off"
      BY <1>3, <2>1, StLose DEF StInv
    <3> QED BY <3>1
  <2>2. CASE /\ parser' = parser_feed(parser, byte.key)
             /\ damage' = "none" \/ damage' = damage
             /\ buffer' = Tail(buffer)
             /\ UNCHANGED <<rx_ring, rx_overflow, at_thread, started, typing, typed, losses>>
    <3>1. damage' \in {"none", "lost", "answered"}
      BY <2>2 DEF StInv, StTypes
    <3>2. /\ buffer' \in Seq(Byte) /\ Len(buffer') <= BufferSize
          /\ parser' \in ParserState /\ Len(parser'.line) <= LineMax
      BY <1>0, <2>2, FedByte DEF StInv
    <3> QED BY <1>3, <2>2, <3>1, <3>2 DEF StInv, StTypes
  <2> QED BY <1>0, <2>1, <2>2
<1>5. last'.line = line /\ last'.answers = respond_for_error(r)
  BY <1>0 DEF Handled
<1>6. StSettings'
  <2>1. started' = "started" => InFlash(dev')
    BY <1>2, <1>4 DEF DevKept, StInv, StSettings
  <2>2. ResetIsWhole'
    BY <1>0, <1>2, <1>5 DEF Whole, ResetIsWhole, OK
  <2>3. Unanswered(last'.line, last'.answers) \/ \E status : last'.answers = <<status>>
    BY <1>2, <1>5, OneAnswer
  <2> QED BY <2>1, <2>2, <2>3 DEF StSettings
<1> QED BY <1>4, <1>6 DEF StInv

LEMMA StInit ==
    ASSUME AtInit, AtConstants
    PROVE  StInv
<1>0. <<>> \in Seq(Byte) /\ Len(<<>>) = 0 /\ RingSize \in Nat /\ BufferSize \in Nat /\ MaxScripts \in Nat
  BY DEF AtConstants
<1>1. Empty \in Text
  BY DEF Empty, Text
<1>2. [e \in 1..Extensions |-> "set"] \in ExtStates
  BY DEF ExtStates
<1>3. dev \in Device
  BY <1>1, <1>2 DEF AtInit, Device, Flash
<1>4. rx_overflow \in BOOLEAN
  BY DEF AtInit
<1>5. StTypes
  BY <1>0, <1>3, <1>4, Fresh DEF AtInit, StTypes
<1>6. StSettings
  <2>1. started = "off" /\ last.line = <<>> /\ last.answers = <<"OK">>
    BY DEF AtInit, NoLine, OK
  <2>2. <<>> \notin {<<"ATR">>, <<"FACTORY">>}
    OBVIOUS
  <2>3. ResetIsWhole
    BY <2>1, <2>2 DEF ResetIsWhole
  <2> QED BY <2>1, <2>3 DEF StSettings
<1> QED BY <1>5, <1>6 DEF StInv

LEMMA StNext ==
    ASSUME StInv, AtConstants, [AtNext]_at_vars
    PROVE  StInv'
<1>1. CASE UNCHANGED at_vars
  <2>1. UNCHANGED <<rx_ring, rx_overflow, buffer, at_thread, started, parser, dev, typing, typed, losses,
                    damage, last>>
    BY <1>1 DEF at_vars
  <2>2. StTypes'
    BY <2>1 DEF StInv, StTypes
  <2> QED BY <2>1, <2>2, SettingsFrame DEF StInv
<1>2. CASE AtNext
  BY <1>2, StStart, StStartFails, StPowerCycle, StHostType, StReceive, StProcessInput, StRingGet,
     StInputDone, StFeedKey, StFeedLine DEF AtNext, AtThread
<1> QED BY <1>1, <1>2

\* The alias and the password in RAM are those in flash, each whenever this boot could read it,
\* and ATR or AT+FACTORY answers OK only when every extension was reset, for every number of
\* extensions and wherever storage fails or power is lost: no handler publishes a setting
\* that it has not saved, and the first error of a reset is not overwritten.
THEOREM SettingsAreKept == AtSpec => []SettingsKept
<1>1. StInv => SettingsKept
  BY DEF StInv, StTypes, StSettings, InFlash, SettingsKept, AtTypeOK, RamIsFlash, ParserState,
         Device, ExtStates
<1>2. AtInit => StInv
  BY AtAssumption, StInit
<1>3. StInv /\ [AtNext]_at_vars => StInv'
  BY AtAssumption, StNext
<1> QED BY <1>1, <1>2, <1>3, PTL DEF AtSpec

-----------------------------------------------------------------------------
(* What was typed, as the parser will see it *)

IdleParser(lf) == [NewParser EXCEPT !.ignore_lf = lf]

LEMMA IdleFields ==
    ASSUME NEW lf
    PROVE  IdleParser(lf) = [line |-> NoLine, overflow |-> FALSE, ignore_lf |-> lf]
<1>1. IdleParser(lf) = [[line |-> NoLine, overflow |-> FALSE, ignore_lf |-> FALSE] EXCEPT !.ignore_lf = lf]
  BY DEF IdleParser, NewParser
<1> QED BY <1>1

\* The states st take the parser through what follows position i of q: every line that ends on
\* the way is the one that was meant, and none is left at the end.
Run(q, i, st) ==
    /\ st \in [i..Len(q) -> ParserState]
    /\ \A j \in (i + 1)..Len(q) : /\ st[j] = parser_feed(st[j - 1], q[j].key)
                                  /\ line_ended(st[j - 1], q[j].key) \in {NoLine, q[j].means}
    /\ st[Len(q)].line = NoLine /\ st[Len(q)].overflow = FALSE

ReadsWell(q, i, p) == \E st : Run(q, i, st) /\ st[i] = p

Alike(q, t, i, d) ==
    \A j \in (i + 1)..Len(t) : t[j].key = q[j + d].key /\ t[j].means = q[j + d].means

\* Reading depends on what follows alone: on its keys and meanings, d positions apart.
LEMMA ReadsShifted ==
    ASSUME NEW q \in Seq(Byte), NEW t \in Seq(Byte), NEW i \in 0..Len(t), NEW d \in Int,
           d = Len(q) - Len(t), i + d \in 0..Len(q), NEW p, ReadsWell(q, i + d, p),
           Alike(q, t, i, d)
    PROVE  ReadsWell(t, i, p)
<1> PICK st : Run(q, i + d, st) /\ st[i + d] = p
  BY DEF ReadsWell
<1> DEFINE u == [j \in i..Len(t) |-> st[j + d]]
<1>0. Len(q) \in Nat /\ Len(t) \in Nat /\ i \in Nat /\ i <= Len(t) /\ Len(t) + d = Len(q)
  OBVIOUS
<1>1. \A j \in i..Len(t) : u[j] = st[j + d] /\ j + d \in (i + d)..Len(q)
  BY <1>0
<1>2. u \in [i..Len(t) -> ParserState]
  BY <1>0, <1>1 DEF Run
<1>3. ASSUME NEW j \in (i + 1)..Len(t)
      PROVE  /\ u[j] = parser_feed(u[j - 1], t[j].key)
             /\ line_ended(u[j - 1], t[j].key) \in {NoLine, t[j].means}
  <2>1. j \in i..Len(t) /\ j - 1 \in i..Len(t) /\ j + d \in (i + d + 1)..Len(q) /\ (j - 1) + d = (j + d) - 1
    BY <1>0
  <2>2. u[j] = st[j + d] /\ u[j - 1] = st[(j + d) - 1]
    BY <1>1, <2>1
  <2>3. /\ st[j + d] = parser_feed(st[(j + d) - 1], q[j + d].key)
        /\ line_ended(st[(j + d) - 1], q[j + d].key) \in {NoLine, q[j + d].means}
    BY <2>1 DEF Run
  <2>4. t[j].key = q[j + d].key /\ t[j].means = q[j + d].means
    BY DEF Alike
  <2> HIDE DEF u
  <2> QED BY <2>2, <2>3, <2>4
<1>4. u[Len(t)] = st[Len(q)] /\ u[i] = p
  BY <1>0, <1>1
<1> HIDE DEF u
<1>5. Run(t, i, u)
  BY <1>2, <1>3, <1>4 DEF Run
<1> QED BY <1>4, <1>5 DEF ReadsWell

\* One byte further.
LEMMA ReadsOn ==
    ASSUME NEW q \in Seq(Byte), NEW p, ReadsWell(q, 0, p), Len(q) > 0
    PROVE  /\ ReadsWell(q, 1, parser_feed(p, q[1].key))
           /\ line_ended(p, q[1].key) \in {NoLine, q[1].means}
<1> PICK st : Run(q, 0, st) /\ st[0] = p
  BY DEF ReadsWell
<1>0. Len(q) \in Nat /\ 1 \in 1..Len(q) /\ 1 - 1 = 0 /\ 0 + 1 = 1
  OBVIOUS
<1> DEFINE u == [j \in 1..Len(q) |-> st[j]]
<1>1. st[1] = parser_feed(p, q[1].key) /\ line_ended(p, q[1].key) \in {NoLine, q[1].means}
  <2>1. \A j \in 1..Len(q) : /\ st[j] = parser_feed(st[j - 1], q[j].key)
                             /\ line_ended(st[j - 1], q[j].key) \in {NoLine, q[j].means}
    BY <1>0 DEF Run
  <2> QED BY <1>0, <2>1
<1>2. Run(q, 1, u)
  <2>1. u \in [1..Len(q) -> ParserState]
    BY <1>0 DEF Run
  <2>2. \A j \in (1 + 1)..Len(q) : j \in 1..Len(q) /\ j - 1 \in 1..Len(q) /\ j \in (0 + 1)..Len(q)
    BY <1>0
  <2>3. \A j \in (1 + 1)..Len(q) : u[j] = st[j] /\ u[j - 1] = st[j - 1]
    BY <2>2
  <2>4. u[Len(q)] = st[Len(q)]
    BY <1>0
  <2> HIDE DEF u
  <2>5. \A j \in (1 + 1)..Len(q) : /\ u[j] = parser_feed(u[j - 1], q[j].key)
                                   /\ line_ended(u[j - 1], q[j].key) \in {NoLine, q[j].means}
    BY <2>2, <2>3 DEF Run
  <2> QED BY <2>1, <2>4, <2>5 DEF Run
<1>3. u[1] = st[1]
  BY <1>0
<1> QED BY <1>1, <1>2, <1>3 DEF ReadsWell

\* After a line terminator the parser is idle, whatever was typed before it: a line feed is
\* dropped only after a carriage return, which leaves nothing behind.
Sane(p) == p.ignore_lf = TRUE => p.line = NoLine /\ p.overflow = FALSE

Ends == {"cr", "lf"}

LEMMA FeedSane ==
    ASSUME NEW p \in ParserState, NEW key
    PROVE  Sane(parser_feed(p, key))
BY DEF Sane, parser_feed, put_key, NewParser, ParserState

LEMMA FeedEnd ==
    ASSUME NEW p \in ParserState, Sane(p), NEW key \in Ends
    PROVE  parser_feed(p, key) = IdleParser(key = "cr")
<1>1. CASE key = "lf" /\ p.ignore_lf
  <2>1. p.ignore_lf = TRUE
    BY <1>1 DEF ParserState
  <2>2. p.line = NoLine /\ p.overflow = FALSE
    BY <2>1 DEF Sane
  <2>3. p = [line |-> NoLine, overflow |-> FALSE, ignore_lf |-> TRUE]
    BY <2>1, <2>2 DEF ParserState
  <2>4. parser_feed(p, key) = [p EXCEPT !.ignore_lf = FALSE]
    BY <1>1 DEF parser_feed
  <2>5. (key = "cr") = FALSE
    BY <1>1
  <2> QED BY <2>3, <2>4, <2>5 DEF IdleParser, NewParser
<1>2. CASE ~(key = "lf" /\ p.ignore_lf)
  BY <1>2 DEF parser_feed, IdleParser, Ends
<1> QED BY <1>1, <1>2

LEMMA ReadsFromEnd ==
    ASSUME NEW q \in Seq(Byte), NEW i \in 0..Len(q), NEW p, Sane(p), ReadsWell(q, i, p),
           NEW k \in (i + 1)..Len(q), q[k].key \in Ends
    PROVE  ReadsWell(q, k, IdleParser(q[k].key = "cr"))
<1> PICK st : Run(q, i, st) /\ st[i] = p
  BY DEF ReadsWell
<1>0. Len(q) \in Nat /\ i \in Nat /\ k \in Nat /\ k <= Len(q) /\ k > i
      /\ k \in i..Len(q) /\ k - 1 \in i..Len(q) /\ Len(q) \in k..Len(q)
  OBVIOUS
<1> DEFINE u == [j \in k..Len(q) |-> st[j]]
<1>1. Sane(st[k - 1]) /\ st[k - 1] \in ParserState
  <2>1. st[k - 1] \in ParserState
    BY <1>0 DEF Run
  <2>2. CASE k - 1 = i
    BY <2>1, <2>2
  <2>3. CASE k - 1 # i
    <3> DEFINE m == k - 1
    <3>1. m \in (i + 1)..Len(q) /\ m - 1 \in i..Len(q)
      BY <1>0, <2>3
    <3> HIDE DEF m
    <3>2. st[m] = parser_feed(st[m - 1], q[m].key) /\ st[m - 1] \in ParserState
      BY <3>1 DEF Run
    <3>3. Sane(st[m])
      BY <3>2, FeedSane
    <3> QED BY <2>1, <3>3 DEF m
  <2> QED BY <2>2, <2>3
<1>2. st[k] = IdleParser(q[k].key = "cr")
  <2>1. st[k] = parser_feed(st[k - 1], q[k].key)
    BY <1>0 DEF Run
  <2> QED BY <1>1, <2>1, FeedEnd
<1>3. Run(q, k, u)
  <2>1. u \in [k..Len(q) -> ParserState]
    BY <1>0 DEF Run
  <2>2. \A j \in (k + 1)..Len(q) : j \in k..Len(q) /\ j - 1 \in k..Len(q) /\ j \in (i + 1)..Len(q)
    BY <1>0
  <2>3. \A j \in (k + 1)..Len(q) : u[j] = st[j] /\ u[j - 1] = st[j - 1]
    BY <2>2
  <2>4. u[Len(q)] = st[Len(q)]
    BY <1>0
  <2> HIDE DEF u
  <2>5. \A j \in (k + 1)..Len(q) : /\ u[j] = parser_feed(u[j - 1], q[j].key)
                                   /\ line_ended(u[j - 1], q[j].key) \in {NoLine, q[j].means}
    BY <2>2, <2>3 DEF Run
  <2> QED BY <2>1, <2>4, <2>5 DEF Run
<1>4. u[k] = st[k]
  BY <1>0
<1> QED BY <1>2, <1>3, <1>4 DEF ReadsWell

\* More is typed to a parser that will be idle.
LEMMA ReadsMore ==
    ASSUME NEW q \in Seq(Byte), NEW t \in Seq(Byte), NEW i \in 0..Len(q), NEW p, ReadsWell(q, i, p),
           \A lf \in BOOLEAN : ReadsWell(t, 0, IdleParser(lf))
    PROVE  ReadsWell(q \o t, i, p)
<1> PICK st : Run(q, i, st) /\ st[i] = p
  BY DEF ReadsWell
<1> DEFINE n == Len(q)
           m == Len(t)
           e == st[n]
           qt == q \o t
<1>0. n \in Nat /\ m \in Nat /\ i \in Nat /\ i <= n
  OBVIOUS
<1>1. e \in ParserState /\ e.line = NoLine /\ e.overflow = FALSE
  BY <1>0 DEF Run
<1>2. e = IdleParser(e.ignore_lf) /\ e.ignore_lf \in BOOLEAN
  <2>1. e.ignore_lf \in BOOLEAN
    BY <1>1 DEF ParserState
  <2>2. e = [line |-> NoLine, overflow |-> FALSE, ignore_lf |-> e.ignore_lf]
    BY <1>1 DEF ParserState
  <2> HIDE DEF e
  <2>3. IdleParser(e.ignore_lf) = [line |-> NoLine, overflow |-> FALSE, ignore_lf |-> e.ignore_lf]
    BY IdleFields, Zenon
  <2> QED BY <2>1, <2>2, <2>3, Zenon
<1>3. ReadsWell(t, 0, e)
  BY <1>2
<1> PICK s2 : Run(t, 0, s2) /\ s2[0] = e
  BY <1>3 DEF ReadsWell
<1>4. qt \in Seq(Byte) /\ Len(qt) = n + m
  BY ConcatProperties
<1>5. /\ \A j \in 1..n : qt[j] = q[j]
      /\ \A j \in (n + 1)..(n + m) : qt[j] = t[j - n]
  BY ConcatProperties
<1> DEFINE u == [j \in i..(n + m) |-> IF j <= n THEN st[j] ELSE s2[j - n]]
<1>6. u \in [i..(n + m) -> ParserState]
  <2>1. \A j \in i..n : st[j] \in ParserState
    BY DEF Run
  <2>2. \A j \in 0..m : s2[j] \in ParserState
    BY DEF Run
  <2>3. \A j \in i..(n + m) : j <= n => j \in i..n
    BY <1>0
  <2>4. \A j \in i..(n + m) : ~(j <= n) => j - n \in 0..m
    BY <1>0
  <2> HIDE DEF n, m
  <2> QED BY <2>1, <2>2, <2>3, <2>4
<1>7. ASSUME NEW j \in (i + 1)..(n + m)
      PROVE  /\ u[j] = parser_feed(u[j - 1], qt[j].key)
             /\ line_ended(u[j - 1], qt[j].key) \in {NoLine, qt[j].means}
  <2>1. j \in i..(n + m) /\ j - 1 \in i..(n + m)
    BY <1>0
  <2>2. CASE j <= n
    <3>1. u[j] = st[j] /\ u[j - 1] = st[j - 1] /\ qt[j] = q[j] /\ j \in (i + 1)..n
      BY <1>0, <1>5, <2>1, <2>2
    <3> HIDE DEF u, qt
    <3>2. /\ st[j] = parser_feed(st[j - 1], q[j].key)
          /\ line_ended(st[j - 1], q[j].key) \in {NoLine, q[j].means}
      BY <3>1 DEF Run
    <3> QED BY <3>1, <3>2
  <2>3. CASE j > n
    <3> DEFINE k == j - n
    <3>1. k \in (0 + 1)..m /\ j \in (n + 1)..(n + m)
      BY <1>0, <2>3
    <3>2. u[j] = s2[k] /\ u[j - 1] = s2[k - 1]
      <4>1. u[j] = s2[k]
        BY <1>0, <2>1, <2>3
      <4>2. CASE j - 1 <= n
        <5>1. j - 1 = n /\ k - 1 = 0
          BY <1>0, <2>3, <4>2
        <5>2. u[j - 1] = st[j - 1]
          BY <2>1, <4>2
        <5> QED BY <4>1, <5>1, <5>2
      <4>3. CASE ~(j - 1 <= n)
        <5>1. u[j - 1] = s2[(j - 1) - n] /\ (j - 1) - n = k - 1
          BY <1>0, <2>1, <4>3
        <5> QED BY <4>1, <5>1
      <4> QED BY <4>2, <4>3
    <3>3. qt[j] = t[k]
      BY <1>5, <3>1
    <3> HIDE DEF u, qt, k
    <3>4. /\ s2[k] = parser_feed(s2[k - 1], t[k].key)
          /\ line_ended(s2[k - 1], t[k].key) \in {NoLine, t[k].means}
      BY <3>1 DEF Run
    <3> QED BY <3>2, <3>3, <3>4
  <2> QED BY <1>0, <2>2, <2>3
<1>8. u[n + m] = s2[m]
  <2>1. CASE m = 0
    BY <1>0, <2>1
  <2>2. CASE m > 0
    BY <1>0, <2>2
  <2> QED BY <1>0, <2>1, <2>2
<1>9. u[i] = p
  BY <1>0
<1> HIDE DEF u, qt
<1>10. Run(qt, i, u)
  <2>1. s2[m].line = NoLine /\ s2[m].overflow = FALSE
    BY DEF Run
  <2> QED BY <1>4, <1>6, <1>7, <1>8, <2>1 DEF Run
<1>11. ReadsWell(qt, i, p)
  BY <1>9, <1>10 DEF ReadsWell
<1> QED BY <1>11 DEF qt

\* Nothing is left to read.
LEMMA ReadsNothing ==
    ASSUME NEW lf \in BOOLEAN
    PROVE  ReadsWell(<<>>, 0, IdleParser(lf))
<1> DEFINE u == [j \in 0..0 |-> IdleParser(lf)]
<1>1. IdleParser(lf) \in ParserState /\ IdleParser(lf).line = NoLine /\ IdleParser(lf).overflow = FALSE
  <2>1. <<>> \in Text
    BY DEF Text
  <2> QED BY <2>1 DEF IdleParser, NewParser, NoLine, ParserState, Text
<1>2. Len(<<>>) = 0 /\ u[0] = IdleParser(lf)
  OBVIOUS
<1>3. u \in [0..0 -> ParserState]
  BY <1>1
<1> HIDE DEF u
<1>4. \A j \in (0 + 1)..0 : FALSE
  OBVIOUS
<1>5. Run(<<>>, 0, u)
  BY <1>1, <1>2, <1>3, <1>4 DEF Run
<1> QED BY <1>2, <1>5 DEF ReadsWell

-----------------------------------------------------------------------------
(* The bytes between the host and the parser *)

StampAll(q, g) == [i \in DOMAIN q |-> [q[i] EXCEPT !.gen = g]]
Cat(a, b, c) == (a \o b) \o c

Stamps(u, q, g) ==
    /\ u \in Seq(Byte) /\ Len(u) = Len(q)
    /\ \A i \in 1..Len(q) : u[i].key = q[i].key /\ u[i].means = q[i].means /\ u[i].gen = g

LEMMA StampIs ==
    ASSUME NEW q \in Seq(Byte), NEW g \in Nat
    PROVE  Stamps(StampAll(q, g), q, g) /\ StampAll(q, g) \in Seq(Byte) /\ Len(StampAll(q, g)) = Len(q)
<1> DEFINE f == [i \in 1..Len(q) |-> [q[i] EXCEPT !.gen = g]]
<1>1. StampAll(q, g) = f
  BY DEF StampAll
<1>2. \A i \in 1..Len(q) : q[i] \in Byte
  OBVIOUS
<1>3. \A i \in 1..Len(q) : /\ f[i] \in Byte /\ f[i].key = q[i].key /\ f[i].means = q[i].means
                           /\ f[i].gen = g
  BY <1>2 DEF Byte
<1>4. f \in Seq(Byte) /\ Len(f) = Len(q)
  <2>1. Len(q) \in Nat
    OBVIOUS
  <2>2. f \in [1..Len(q) -> Byte]
    BY <1>3
  <2> QED BY <2>1, <2>2
<1> HIDE DEF f
<1>5. Stamps(f, q, g)
  BY <1>3, <1>4 DEF Stamps
<1> QED BY <1>1, <1>4, <1>5

LEMMA SameSeq ==
    ASSUME NEW q \in Seq(Byte), NEW t \in Seq(Byte), Len(q) = Len(t), \A j \in 1..Len(q) : q[j] = t[j]
    PROVE  q = t
OBVIOUS

LEMMA TwoParts ==
    ASSUME NEW x \in Seq(Byte), NEW c \in Seq(Byte), NEW s, s = x \o c
    PROVE  /\ s \in Seq(Byte) /\ Len(s) = Len(x) + Len(c)
           /\ \A j \in 1..Len(x) : s[j] = x[j]
           /\ \A j \in 1..Len(c) : s[Len(x) + j] = c[j]
<1>0. Len(x) \in Nat /\ Len(c) \in Nat
  OBVIOUS
<1>1. /\ s \in Seq(Byte) /\ Len(s) = Len(x) + Len(c)
      /\ \A j \in 1..(Len(x) + Len(c)) : s[j] = IF j <= Len(x) THEN x[j] ELSE c[j - Len(x)]
  BY ConcatProperties
<1>2. ASSUME NEW j \in 1..Len(x)
      PROVE  s[j] = x[j]
  BY <1>0, <1>1
<1>3. ASSUME NEW j \in 1..Len(c)
      PROVE  s[Len(x) + j] = c[j]
  <2>1. Len(x) + j \in 1..(Len(x) + Len(c)) /\ ~(Len(x) + j <= Len(x)) /\ (Len(x) + j) - Len(x) = j
    BY <1>0
  <2> QED BY <1>1, <2>1
<1> QED BY <1>1, <1>2, <1>3

Joined(s, x, c) ==
    /\ s \in Seq(Byte) /\ Len(s) = Len(x) + Len(c)
    /\ \A j \in 1..Len(x) : s[j] = x[j]
    /\ \A j \in 1..Len(c) : s[Len(x) + j] = c[j]

LEMMA JoinedIs ==
    ASSUME NEW x \in Seq(Byte), NEW c \in Seq(Byte)
    PROVE  Joined(x \o c, x, c)
BY TwoParts DEF Joined

LEMMA CatIn ==
    ASSUME NEW a \in Seq(Byte), NEW b \in Seq(Byte), NEW c \in Seq(Byte)
    PROVE  /\ Cat(a, b, c) \in Seq(Byte) /\ (a \o b) \in Seq(Byte) /\ (b \o c) \in Seq(Byte)
           /\ Cat(a, b, c) = (a \o b) \o c /\ Cat(a, b, c) = a \o (b \o c)
<1>1. (a \o b) \in Seq(Byte) /\ (b \o c) \in Seq(Byte)
  BY ConcatProperties
<1>2. (a \o b) \o c \in Seq(Byte)
  BY <1>1, ConcatProperties
<1>3. (a \o b) \o c = a \o (b \o c)
  BY ConcatAssociative
<1> QED BY <1>1, <1>2, <1>3 DEF Cat

\* The first byte is taken.
LEMMA CatTail ==
    ASSUME NEW a \in Seq(Byte), NEW r \in Seq(Byte), a # <<>>,
           NEW q, q = a \o r, NEW t, t = Tail(a) \o r
    PROVE  /\ q \in Seq(Byte) /\ t \in Seq(Byte) /\ Len(q) > 0 /\ Len(t) = Len(q) - 1
           /\ q[1] = Head(a) /\ \A j \in 1..Len(t) : t[j] = q[j + 1]
<1> DEFINE x == Tail(a)
           la == Len(a)
           lr == Len(r)
<1>1. /\ x \in Seq(Byte) /\ Len(x) = la - 1 /\ la \in Nat /\ la > 0 /\ lr \in Nat
      /\ \A j \in 1..(la - 1) : x[j] = a[j + 1]
      /\ Head(a) = a[1]
  BY HeadTailProperties
<1> HIDE DEF x
<1>2. /\ t \in Seq(Byte) /\ Len(t) = Len(x) + lr
      /\ \A j \in 1..Len(x) : t[j] = x[j]
      /\ \A j \in 1..lr : t[Len(x) + j] = r[j]
  <2>1. t = x \o r
    BY DEF x
  <2> QED BY <1>1, <2>1, TwoParts
<1>3. /\ q \in Seq(Byte) /\ Len(q) = la + lr
      /\ \A j \in 1..la : q[j] = a[j]
      /\ \A j \in 1..lr : q[la + j] = r[j]
  BY TwoParts
<1>4. Len(q) > 0 /\ Len(t) = Len(q) - 1 /\ q[1] = Head(a)
  BY <1>1, <1>2, <1>3
<1>5. ASSUME NEW j \in 1..Len(t)
      PROVE  t[j] = q[j + 1]
  <2>0. j \in 1..(la - 1 + lr)
    BY <1>1, <1>2
  <2>1. CASE j <= la - 1
    <3>1. j \in 1..Len(x) /\ j \in 1..(la - 1) /\ j + 1 \in 1..la
      BY <1>1, <2>0, <2>1
    <3> QED BY <1>1, <1>2, <1>3, <3>1
  <2>2. CASE j > la - 1
    <3> DEFINE k == j - (la - 1)
    <3>1. k \in 1..lr /\ Len(x) + k = j /\ la + k = j + 1
      BY <1>1, <2>0, <2>2
    <3> HIDE DEF k
    <3>2. t[Len(x) + k] = r[k] /\ q[la + k] = r[k]
      BY <1>2, <1>3, <3>1
    <3> QED BY <3>1, <3>2
  <2> QED BY <1>1, <2>0, <2>1, <2>2
<1> QED BY <1>2, <1>3, <1>4, <1>5

\* A sequence is put together again from two parts of it.
LEMMA Rejoined ==
    ASSUME NEW b \in Seq(Byte), NEW n \in 0..Len(b)
    PROVE  SubSeq(b, 1, n) \o SubSeq(b, n + 1, Len(b)) = b
<1>0. Len(b) \in Nat /\ 1 \in 1..(Len(b) + 1) /\ n \in (1 - 1)..Len(b) /\ Len(b) \in n..Len(b)
  OBVIOUS
<1>1. SubSeq(b, 1, n) \o SubSeq(b, n + 1, Len(b)) = SubSeq(b, 1, Len(b))
  BY <1>0, ConcatAdjacentSubSeq
<1>2. SubSeq(b, 1, Len(b)) \in Seq(Byte) /\ Len(SubSeq(b, 1, Len(b))) = Len(b)
  BY <1>0, SubSeqProperties
<1>3. \A j \in 1..Len(b) : SubSeq(b, 1, Len(b))[j] = b[j]
  BY <1>0
<1>4. SubSeq(b, 1, Len(b)) = b
  BY <1>2, <1>3, SameSeq
<1> QED BY <1>1, <1>4

\* The buffer takes the front of the ring.
LEMMA CatTake ==
    ASSUME NEW b \in Seq(Byte), NEW c \in Seq(Byte), NEW n \in 0..Len(b)
    PROVE  Cat(SubSeq(b, 1, n), SubSeq(b, n + 1, Len(b)), c) = Cat(<<>>, b, c)
<1>1. <<>> \o b = b
  BY ConcatEmptySeq
<1> QED BY <1>1, Rejoined DEF Cat

\* What is stamped before it is cut.
LEMMA StampPart ==
    ASSUME NEW q \in Seq(Byte), NEW g \in Nat, NEW m \in 1..(Len(q) + 1), NEW n \in 0..Len(q),
           n >= m - 1
    PROVE  StampAll(SubSeq(q, m, n), g) = SubSeq(StampAll(q, g), m, n)
<1> DEFINE x == SubSeq(q, m, n)
           u == StampAll(q, g)
           y == SubSeq(u, m, n)
           l == n - m + 1
<1>0. Len(q) \in Nat /\ m \in Nat /\ n \in Nat /\ l \in Nat /\ m >= 1 /\ n <= Len(q)
  OBVIOUS
<1>1. x \in Seq(Byte) /\ Len(x) = l
  BY <1>0, Part
<1>2. u \in Seq(Byte) /\ Len(u) = Len(q)
  BY StampIs
<1>3. y \in Seq(Byte) /\ Len(y) = l
  <2> HIDE DEF u
  <2> QED BY <1>0, <1>2, Part
<1>4. StampAll(x, g) \in Seq(Byte) /\ Len(StampAll(x, g)) = l
  <2> HIDE DEF x
  <2> QED BY <1>1, StampIs
<1>5. ASSUME NEW j \in 1..l
      PROVE  StampAll(x, g)[j] = y[j]
  <2> DEFINE k == m + j - 1
  <2>1. k \in 1..Len(q) /\ j \in 1..(n - m + 1)
    BY <1>0
  <2>2. x[j] = q[k]
    BY <1>0, <2>1
  <2>3. y[j] = u[k]
    <3> HIDE DEF u
    <3> QED BY <1>0, <1>2, <2>1
  <2>4. u[k] = [q[k] EXCEPT !.gen = g]
    <3> HIDE DEF k
    <3> QED BY <2>1, SMTT(30) DEF StampAll
  <2>5. StampAll(x, g)[j] = [x[j] EXCEPT !.gen = g]
    <3> HIDE DEF x
    <3>1. j \in DOMAIN x
      BY <1>1
    <3> QED BY <3>1 DEF StampAll
  <2> HIDE DEF x, y, u, k
  <2> QED BY <2>2, <2>3, <2>4, <2>5
<1> HIDE DEF x, y
<1>6. StampAll(x, g) = y
  BY <1>3, <1>4, <1>5, SameSeq
<1> QED BY <1>6 DEF x, y, u

LEMMA CatAssoc == \A a, b, c \in Seq(Byte) : (a \o b) \o c = a \o (b \o c)
BY ConcatAssociative

LEMMA CatRight ==
    ASSUME NEW a \in Seq(Byte), NEW b \in Seq(Byte), NEW c \in Seq(Byte)
    PROVE  Cat(a, b, c) = a \o (b \o c)
BY CatAssoc DEF Cat

LEMMA CatMove ==
    ASSUME NEW a \in Seq(Byte), NEW b \in Seq(Byte), NEW x \in Seq(Byte), NEW y \in Seq(Byte)
    PROVE  Cat(a, b \o x, y) = Cat(a, b, x \o y)
<1>1. (b \o x) \in Seq(Byte) /\ (x \o y) \in Seq(Byte)
  BY ConcatProperties
<1>2. (b \o x) \o y = b \o (x \o y)
  BY CatAssoc, SMTT(30)
<1>3. ASSUME NEW p \in Seq(Byte), NEW r \in Seq(Byte)
      PROVE  p \o y = b \o r => (a \o p) \o y = (a \o b) \o r
  <2>1. (a \o p) \o y = a \o (p \o y)
    BY CatAssoc, SMTT(120)
  <2>2. (a \o b) \o r = a \o (b \o r)
    BY CatAssoc, SMTT(120)
  <2> QED BY <2>1, <2>2, Zenon
<1>4. (a \o (b \o x)) \o y = (a \o b) \o (x \o y)
  BY <1>1, <1>2, <1>3, Zenon
<1> QED BY <1>4 DEF Cat

\* The ring takes what the host has sent.
LEMMA CatReceive ==
    ASSUME NEW a \in Seq(Byte), NEW b \in Seq(Byte), NEW c \in Seq(Byte), NEW g \in Nat, NEW n \in 0..Len(c)
    PROVE  Cat(a, b \o StampAll(SubSeq(c, 1, n), g), StampAll(SubSeq(c, n + 1, Len(c)), g))
           = Cat(a, b, StampAll(c, g))
<1> DEFINE u == StampAll(c, g)
           x == SubSeq(u, 1, n)
           y == SubSeq(u, n + 1, Len(u))
<1>0. Len(c) \in Nat /\ n \in Nat /\ n <= Len(c) /\ u \in Seq(Byte) /\ Len(u) = Len(c)
  BY StampIs
<1>1. StampAll(SubSeq(c, 1, n), g) = x
  <2>1. 1 \in 1..(Len(c) + 1) /\ n \in 0..Len(c) /\ n >= 1 - 1
    BY <1>0
  <2> QED BY <2>1, StampPart
<1>2. StampAll(SubSeq(c, n + 1, Len(c)), g) = y
  <2>1. n + 1 \in 1..(Len(c) + 1) /\ Len(c) \in 0..Len(c) /\ Len(c) >= (n + 1) - 1
    BY <1>0
  <2>2. StampAll(SubSeq(c, n + 1, Len(c)), g) = SubSeq(u, n + 1, Len(c))
    BY <2>1, StampPart
  <2> QED BY <1>0, <2>2
<1> HIDE DEF u
<1>3. x \in Seq(Byte) /\ y \in Seq(Byte) /\ x \o y = u
  <2>1. 1 \in 1..(Len(u) + 1) /\ n \in 0..Len(u) /\ n + 1 \in 1..(Len(u) + 1) /\ Len(u) \in 0..Len(u)
    BY <1>0
  <2> QED BY <1>0, <2>1, Part, Rejoined
<1> HIDE DEF x, y
<1>4. Cat(a, b \o x, y) = Cat(a, b, x \o y)
  <2>1. x \in Seq(Byte) /\ y \in Seq(Byte)
    BY <1>3
  <2> QED BY <2>1, CatMove
<1> QED BY <1>1, <1>2, <1>3, <1>4, Zenon DEF u

-----------------------------------------------------------------------------
(* Lines are read as they were typed *)

Stream == Cat(buffer, rx_ring, StampAll(typing, losses))

\* The bytes of q came before overflow g.
Dated(q, g) == \A i \in 1..Len(q) : q[i].gen <= g

\* What follows a line terminator sent after overflow g is read as it was typed.
ReadsFromEnds(q, g) ==
    \A k \in 1..Len(q) : q[k].key \in Ends /\ q[k].gen = g => ReadsWell(q, k, IdleParser(q[k].key = "cr"))

StReads ==
    /\ Sane(parser)
    /\ Dated(buffer, losses) /\ Dated(rx_ring, losses)
    /\ rx_overflow = TRUE => damage = "lost"
    /\ damage = "none" => ReadsWell(Stream, 0, parser)
    /\ ReadsFromEnds(Stream, losses)
    /\ last.clean = TRUE => last.line = last.means

LEMMA StreamIn ==
    ASSUME StTypes
    PROVE  Stream \in Seq(Byte) /\ StampAll(typing, losses) \in Seq(Byte)
<1>1. buffer \in Seq(Byte) /\ rx_ring \in Seq(Byte) /\ typing \in Seq(Byte) /\ losses \in Nat
  BY DEF StTypes
<1>2. StampAll(typing, losses) \in Seq(Byte)
  BY <1>1, StampIs
<1> QED BY <1>1, <1>2, CatIn DEF Stream

\* The first byte of q goes to the parser, and t is left.
LEMMA ReadsFed ==
    ASSUME NEW q \in Seq(Byte), NEW t \in Seq(Byte), Len(q) > 0, Len(t) = Len(q) - 1,
           \A j \in 1..Len(t) : t[j] = q[j + 1], NEW g, NEW p \in ParserState, Sane(p),
           ReadsFromEnds(q, g)
    PROVE  /\ ReadsFromEnds(t, g)
           /\ ReadsWell(q, 0, p) => ReadsWell(t, 0, parser_feed(p, q[1].key))
           /\ q[1].key \in Ends /\ q[1].gen = g => ReadsWell(t, 0, parser_feed(p, q[1].key))
<1>0. Len(q) \in Nat /\ Len(t) \in Nat /\ 1 = Len(q) - Len(t) /\ 1 \in 1..Len(q) /\ 1 \in Int
  OBVIOUS
<1>1. ASSUME NEW k \in 0..Len(t), NEW r, ReadsWell(q, k + 1, r)
      PROVE  ReadsWell(t, k, r)
  <2>1. k + 1 \in 0..Len(q)
    BY <1>0
  <2>2. Alike(q, t, k, 1)
    <3>1. \A j \in (k + 1)..Len(t) : j \in 1..Len(t)
      BY <1>0
    <3> QED BY <3>1 DEF Alike
  <2> QED BY <1>0, <1>1, <2>1, <2>2, ReadsShifted
<1>2. ReadsFromEnds(t, g)
  <2> SUFFICES ASSUME NEW k \in 1..Len(t), t[k].key \in Ends, t[k].gen = g
               PROVE  ReadsWell(t, k, IdleParser(t[k].key = "cr"))
    BY DEF ReadsFromEnds
  <2>1. k + 1 \in 1..Len(q) /\ k \in 0..Len(t) /\ t[k] = q[k + 1]
    BY <1>0
  <2>2. ReadsWell(q, k + 1, IdleParser(q[k + 1].key = "cr"))
    BY <2>1 DEF ReadsFromEnds
  <2>3. ReadsWell(q, k + 1, IdleParser(t[k].key = "cr"))
    BY <2>1, <2>2
  <2> QED BY <1>1, <2>1, <2>3
<1>3. 0 \in 0..Len(t) /\ 0 + 1 = 1
  BY <1>0
<1>4. ReadsWell(q, 1, parser_feed(p, q[1].key)) => ReadsWell(t, 0, parser_feed(p, q[1].key))
  BY <1>1, <1>3
<1>5. ReadsWell(q, 0, p) => ReadsWell(t, 0, parser_feed(p, q[1].key))
  BY <1>4, ReadsOn
<1>6. ASSUME q[1].key \in Ends, q[1].gen = g
      PROVE  ReadsWell(t, 0, parser_feed(p, q[1].key))
  <2>1. ReadsWell(q, 1, IdleParser(q[1].key = "cr"))
    BY <1>0, <1>6 DEF ReadsFromEnds
  <2>2. parser_feed(p, q[1].key) = IdleParser(q[1].key = "cr")
    BY <1>6, FeedEnd
  <2> QED BY <1>4, <2>1, <2>2
<1> QED BY <1>2, <1>5, <1>6

\* A script is read well by an idle parser.
LEMMA ScriptReads ==
    ASSUME AtConstants, NEW script \in Scripts, Spells(script), NEW g \in Nat,
           NEW x \in Seq(Byte), Len(x) = Len(script.keys), NEW lf \in BOOLEAN,
           \A i \in 1..Len(script.keys) : x[i].key = script.keys[i] /\ x[i].means = script.means
    PROVE  ReadsWell(x, 0, IdleParser(lf))
<1> DEFINE st == edit(script.keys, lf)
           n == Len(script.keys)
<1>0. /\ Edits(st, script.keys, lf)
      /\ \A i \in 1..n : line_ended(st[i - 1], script.keys[i]) \in {NoLine, script.means}
      /\ st[n].line = NoLine /\ ~st[n].overflow
  BY DEF Spells
<1> HIDE DEF st
<1>1. n \in Nat /\ script.keys \in Seq(STRING)
  BY DEF AtConstants
<1>2. st \in [0..n -> ParserState] /\ st[0] = IdleParser(lf)
  BY <1>0 DEF Edits, ParserState, ParserState, Text, IdleParser
<1>3. \A i \in 1..n : st[i] = parser_feed(st[i - 1], script.keys[i])
  BY <1>0 DEF Edits
<1>4. st[n].overflow = FALSE
  BY <1>0, <1>1, <1>2 DEF ParserState
<1>5. \A i \in (0 + 1)..n : /\ st[i] = parser_feed(st[i - 1], x[i].key)
                            /\ line_ended(st[i - 1], x[i].key) \in {NoLine, x[i].means}
  BY <1>0, <1>3
<1>6. Run(x, 0, st)
  BY <1>0, <1>2, <1>4, <1>5 DEF Run
<1> QED BY <1>2, <1>6 DEF ReadsWell

\* A script follows what was typed.
LEMMA ReadsScript ==
    ASSUME NEW q \in Seq(Byte), NEW x \in Seq(Byte), NEW g,
           \A lf \in BOOLEAN : ReadsWell(x, 0, IdleParser(lf)), ReadsFromEnds(q, g)
    PROVE  ReadsFromEnds(q \o x, g)
<1> DEFINE s == q \o x
<1>0. Len(q) \in Nat /\ Len(x) \in Nat
  OBVIOUS
<1>1. /\ s \in Seq(Byte) /\ Len(s) = Len(q) + Len(x)
      /\ \A j \in 1..Len(q) : s[j] = q[j]
      /\ \A j \in 1..Len(x) : s[Len(q) + j] = x[j]
  BY TwoParts
<1> SUFFICES ASSUME NEW k \in 1..Len(s), s[k].key \in Ends, s[k].gen = g
             PROVE  ReadsWell(s, k, IdleParser(s[k].key = "cr"))
  BY DEF ReadsFromEnds
<1>2. CASE k <= Len(q)
  <2>1. k \in 1..Len(q) /\ k \in 0..Len(q) /\ s[k] = q[k]
    BY <1>0, <1>1, <1>2
  <2> HIDE DEF s
  <2>2. ReadsWell(q, k, IdleParser(s[k].key = "cr"))
    BY <2>1 DEF ReadsFromEnds
  <2> QED BY <2>1, <2>2, ReadsMore DEF s
<1>3. CASE k > Len(q)
  <2> DEFINE m == k - Len(q)
             d == Len(x) - Len(s)
             r == IdleParser(s[k].key = "cr")
  <2>1. /\ m \in (0 + 1)..Len(x) /\ m \in 1..Len(x) /\ Len(q) + m = k /\ d = 0 - Len(q) /\ k + d = m
        /\ d \in Int /\ k \in 0..Len(s) /\ m \in 0..Len(x) /\ 0 \in 0..Len(x)
    BY <1>0, <1>1, <1>3
  <2>2. s[k] = x[m]
    BY <1>1, <2>1
  <2> HIDE DEF s
  <2>3. Sane(IdleParser(TRUE)) /\ ReadsWell(x, 0, IdleParser(TRUE))
    BY IdleFields DEF Sane
  <2>4. ReadsWell(x, m, IdleParser(x[m].key = "cr"))
    BY <2>1, <2>2, <2>3, ReadsFromEnd
  <2>5. ReadsWell(x, k + d, r)
    BY <2>1, <2>2, <2>4
  <2>6. Alike(x, s, k, d)
    <3> SUFFICES ASSUME NEW j \in (k + 1)..Len(s) PROVE s[j] = x[j + d]
      BY DEF Alike
    <3>1. j + d \in 1..Len(x) /\ Len(q) + (j + d) = j
      BY <1>0, <1>1, <1>3, <2>1
    <3> QED BY <1>1, <3>1
  <2> HIDE DEF d, r
  <2>7. ReadsWell(s, k, r)
    <3>1. d = Len(x) - Len(s) /\ k + d \in 0..Len(x)
      BY <2>1 DEF d
    <3> QED BY <1>1, <2>1, <2>5, <2>6, <3>1, ReadsShifted
  <2> QED BY <2>7 DEF r
<1> QED BY <1>0, <1>1, <1>2, <1>3

SameFrom(c, n, c2) ==
    \A j \in 1..Len(c2) : c2[j].key = c[j + n].key /\ c2[j].means = c[j + n].means

AllOf(c, g) == \A j \in 1..Len(c) : c[j].gen = g

\* Position j of y \o c2 in x \o c, when n bytes of c were lost.
LEMMA LossArithmetic ==
    ASSUME NEW lx \in Nat, NEW lc \in Nat, NEW ly \in Nat, NEW n \in 0..lc, NEW m \in 1..(lc - n),
           NEW j, j = ly + m, NEW d, d = lx + n - ly
    PROVE  m + n \in 1..lc /\ lx + (m + n) = j + d /\ j + d \in 1..(lx + lc)
OBVIOUS

\* Some of c is lost, c2 is left to send, and the terminators of c2 are new.
LEMMA ReadsAfterLoss ==
    ASSUME NEW x \in Seq(Byte), NEW c \in Seq(Byte), NEW y \in Seq(Byte), NEW c2 \in Seq(Byte),
           NEW g \in Nat, NEW n \in 0..Len(c), Len(c2) = Len(c) - n,
           SameFrom(c, n, c2), AllOf(c, g), Dated(y, g),
           NEW q, Joined(q, x, c), NEW t, Joined(t, y, c2), ReadsFromEnds(q, g)
    PROVE  ReadsFromEnds(t, g + 1)
<1>0. Len(x) \in Nat /\ Len(c) \in Nat /\ Len(y) \in Nat /\ Len(c2) \in Nat /\ n \in Nat /\ n <= Len(c)
  OBVIOUS
<1>1. /\ q \in Seq(Byte) /\ Len(q) = Len(x) + Len(c)
      /\ \A j \in 1..Len(c) : q[Len(x) + j] = c[j]
  BY DEF Joined
<1>2. /\ t \in Seq(Byte) /\ Len(t) = Len(y) + Len(c2)
      /\ \A j \in 1..Len(y) : t[j] = y[j]
      /\ \A j \in 1..Len(c2) : t[Len(y) + j] = c2[j]
  BY DEF Joined
<1> SUFFICES ASSUME NEW k \in 1..Len(t), t[k].key \in Ends, t[k].gen = g + 1
             PROVE  ReadsWell(t, k, IdleParser(t[k].key = "cr"))
  BY DEF ReadsFromEnds
<1>c. Len(q) = Len(x) + Len(c) /\ Len(t) = Len(y) + Len(c2)
  BY <1>1, <1>2
<1> DEFINE d == Len(q) - Len(t)
<1>3. k > Len(y)
  <2> SUFFICES ASSUME k <= Len(y) PROVE FALSE
    BY <1>0, <1>2
  <2>1. k \in 1..Len(y)
    BY <1>0
  <2>2. y[k].gen <= g /\ t[k] = y[k] /\ y[k].gen \in Nat
    <3>1. y[k] \in Byte
      BY <2>1
    <3>2. y[k].gen \in Nat
      BY <3>1 DEF Byte
    <3>3. y[k].gen <= g
      BY <2>1 DEF Dated
    <3> QED BY <1>2, <2>1, <3>2, <3>3
  <2> QED BY <2>2
<1>4. ASSUME NEW j \in (Len(y) + 1)..Len(t)
      PROVE  /\ j + d \in 1..Len(q) /\ t[j].key = q[j + d].key /\ t[j].means = q[j + d].means
             /\ q[j + d].gen = g
  <2> DEFINE m == j - Len(y)
  <2>a. j \in Int /\ m \in 1..Len(c2) /\ Len(y) + m = j
    BY <1>0, <1>c, SMTT(30)
  <2>b. d = Len(x) + n - Len(y)
    BY <1>0, <1>c
  <2> HIDE DEF m, d
  <2>1. m \in 1..Len(c2) /\ m + n \in 1..Len(c) /\ Len(y) + m = j /\ Len(x) + (m + n) = j + d
        /\ j + d \in 1..Len(q)
    <3>1. m \in 1..(Len(c) - n) /\ j = Len(y) + m
      BY <2>a
    <3>2. m + n \in 1..Len(c) /\ Len(x) + (m + n) = j + d /\ j + d \in 1..(Len(x) + Len(c))
      BY <1>0, <2>b, <3>1, LossArithmetic, SMTT(30)
    <3> QED BY <1>c, <2>a, <3>2
  <2>2. t[Len(y) + m] = c2[m]
    BY <1>2, <2>1
  <2>3. q[Len(x) + (m + n)] = c[m + n]
    BY <1>1, <2>1
  <2>4. t[j] = c2[m] /\ q[j + d] = c[m + n]
    BY <2>1, <2>2, <2>3
  <2> QED BY <2>1, <2>4 DEF SameFrom, AllOf
<1>5. k \in (Len(y) + 1)..Len(t)
  BY <1>0, <1>2, <1>3
<1>6. ReadsWell(q, k + d, IdleParser(t[k].key = "cr"))
  <2> HIDE DEF d
  <2>1. k + d \in 1..Len(q) /\ t[k].key = q[k + d].key /\ q[k + d].gen = g
    BY <1>4, <1>5
  <2>2. ReadsWell(q, k + d, IdleParser(q[k + d].key = "cr"))
    BY <2>1 DEF ReadsFromEnds
  <2> QED BY <2>1, <2>2
<1>7. \A j \in (k + 1)..Len(t) : j \in (Len(y) + 1)..Len(t)
  BY <1>0, <1>2, <1>3
<1>8. Alike(q, t, k, d)
  <2> HIDE DEF d
  <2> QED BY <1>4, <1>7 DEF Alike
<1>9. d \in Int /\ d = Len(q) - Len(t) /\ k + d \in 0..Len(q) /\ k \in 0..Len(t)
  BY <1>0, <1>1, <1>2, <1>3, SMTT(30)
<1> DEFINE r == IdleParser(t[k].key = "cr")
<1>10. ReadsWell(q, k + d, r)
  BY <1>6
<1> HIDE DEF d, r
<1>11. ReadsWell(t, k, r)
  <2>1. q \in Seq(Byte) /\ t \in Seq(Byte)
    BY <1>1, <1>2
  <2> QED BY <2>1, <1>8, <1>9, <1>10, ReadsShifted
<1> QED BY <1>11 DEF r

\* A step that touches neither the input nor the last answer.
LEMMA ReadsSame ==
    ASSUME StReads, UNCHANGED <<rx_ring, rx_overflow, buffer, parser, typing, losses, damage, last>>
    PROVE  StReads'
BY DEF StReads, Stream

\* Nothing is left of what was typed.
LEMMA ReadsLost ==
    ASSUME LoseRam, last'.clean = TRUE => last'.line = last'.means
    PROVE  StReads'
<1>0. /\ rx_ring' = <<>> /\ rx_overflow' = FALSE /\ buffer' = <<>> /\ parser' = NewParser
      /\ typing' = <<>> /\ damage' = "none"
  BY DEF LoseRam
<1>1. \A i \in 1..Len(<<>>) : FALSE
  OBVIOUS
<1>2. StampAll(<<>>, losses') = <<>>
  BY DEF StampAll
<1>3. Cat(<<>>, <<>>, <<>>) = <<>>
  BY DEF Cat
<1>4. Stream' = <<>>
  BY <1>0, <1>2, <1>3 DEF Stream
<1>5. NewParser = IdleParser(FALSE)
  BY IdleFields DEF NewParser
<1>6. ReadsWell(<<>>, 0, IdleParser(FALSE))
  BY ReadsNothing
<1>7. Sane(IdleParser(FALSE))
  BY IdleFields DEF Sane
<1>8. Dated(<<>>, losses') /\ ReadsFromEnds(<<>>, losses')
  BY <1>1 DEF Dated, ReadsFromEnds
<1>9. ~(rx_overflow' = TRUE)
  BY <1>0
<1> QED BY <1>0, <1>4, <1>5, <1>6, <1>7, <1>8, <1>9 DEF StReads

LEMMA ReadsHostType ==
    ASSUME StTypes, StReads, AtConstants, ScriptsSpell, NEW script \in Scripts, HostType(script)
    PROVE  StReads'
<1> DEFINE new == [i \in DOMAIN script.keys |-> [key |-> script.keys[i], means |-> script.means, gen |-> 0]]
           x == StampAll(new, losses)
<1>0. /\ typing = <<>> /\ typing' = new
      /\ UNCHANGED <<rx_ring, rx_overflow, buffer, parser, losses, damage, last>>
  BY DEF HostType
<1>1. buffer \in Seq(Byte) /\ rx_ring \in Seq(Byte) /\ losses \in Nat
  BY DEF StTypes
<1>2. /\ new \in Seq(Byte) /\ Len(new) = Len(script.keys)
      /\ \A i \in 1..Len(script.keys) : new[i].key = script.keys[i] /\ new[i].means = script.means
  BY ScriptBytes
<1> HIDE DEF new
<1>3. /\ x \in Seq(Byte) /\ Len(x) = Len(script.keys)
      /\ \A i \in 1..Len(script.keys) : x[i].key = script.keys[i] /\ x[i].means = script.means
  <2>1. /\ x \in Seq(Byte) /\ Len(x) = Len(new)
        /\ \A i \in 1..Len(new) : x[i].key = new[i].key /\ x[i].means = new[i].means
    <3>1. Stamps(x, new, losses)
      BY <1>1, <1>2, StampIs
    <3> HIDE DEF x
    <3> QED BY <3>1 DEF Stamps
  <2> HIDE DEF x
  <2> QED BY <1>2, <2>1
<1> HIDE DEF x
<1>4. \A lf \in BOOLEAN : ReadsWell(x, 0, IdleParser(lf))
  BY <1>1, <1>3, ScriptReads DEF ScriptsSpell
<1>5. Stream \in Seq(Byte) /\ Stream' = Stream \o x
  <2> DEFINE br == buffer \o rx_ring
  <2>1. br \in Seq(Byte)
    BY <1>1, ConcatProperties
  <2>2. StampAll(<<>>, losses) = <<>>
    BY DEF StampAll
  <2> HIDE DEF br
  <2>3. br \o <<>> = br
    BY <2>1, ConcatEmptySeq
  <2>4. Stream = br
    BY <1>0, <2>2, <2>3 DEF Stream, Cat, br
  <2>5. Stream' = br \o x
    BY <1>0 DEF Stream, Cat, br, x
  <2> QED BY <2>1, <2>4, <2>5
<1>6. ReadsFromEnds(Stream', losses)
  <2>1. ReadsFromEnds(Stream, losses)
    BY DEF StReads
  <2>2. ReadsFromEnds(Stream \o x, losses)
    BY <1>3, <1>4, <1>5, <2>1, ReadsScript
  <2> QED BY <1>5, <2>2
<1>7. damage' = "none" => ReadsWell(Stream', 0, parser)
  <2> SUFFICES ASSUME damage = "none" PROVE ReadsWell(Stream', 0, parser)
    BY <1>0
  <2>1. ReadsWell(Stream, 0, parser) /\ 0 \in 0..Len(Stream)
    BY <1>5 DEF StReads
  <2>2. ReadsWell(Stream \o x, 0, parser)
    BY <1>3, <1>4, <1>5, <2>1, ReadsMore
  <2> QED BY <1>5, <2>2
<1>8. Sane(parser) /\ Dated(buffer, losses) /\ Dated(rx_ring, losses)
      /\ (rx_overflow = TRUE => damage = "lost") /\ (last.clean = TRUE => last.line = last.means)
  BY DEF StReads
<1> HIDE DEF StReads
<1> QED BY <1>0, <1>6, <1>7, <1>8 DEF StReads

LEMMA DatedPart ==
    ASSUME NEW q \in Seq(Byte), NEW m \in 1..(Len(q) + 1), NEW n \in 0..Len(q), NEW g, Dated(q, g)
    PROVE  Dated(SubSeq(q, m, n), g)
<1> DEFINE x == SubSeq(q, m, n)
<1>0. Len(q) \in Nat /\ m \in Nat /\ n \in Nat /\ m >= 1 /\ n <= Len(q)
  OBVIOUS
<1>1. Len(x) = IF m <= n THEN n - m + 1 ELSE 0
  BY Part
<1>2. ASSUME NEW i \in 1..Len(x)
      PROVE  x[i].gen <= g
  <2>1. m <= n /\ i \in 1..(n - m + 1) /\ m + i - 1 \in 1..Len(q)
    BY <1>0, <1>1
  <2>2. x[i] = q[m + i - 1]
    BY <1>0, <2>1
  <2> QED BY <2>1, <2>2 DEF Dated
<1> HIDE DEF x
<1>3. Dated(x, g)
  BY <1>2 DEF Dated
<1> QED BY <1>3 DEF x

LEMMA ReadsRingGet ==
    ASSUME StTypes, StReads, AtConstants, RingGet
    PROVE  StReads'
<1> DEFINE count == IF Len(rx_ring) <= BufferSize THEN Len(rx_ring) ELSE BufferSize
           c == StampAll(typing, losses)
<1>0. /\ buffer = <<>> /\ buffer' = SubSeq(rx_ring, 1, count)
      /\ rx_ring' = SubSeq(rx_ring, count + 1, Len(rx_ring))
      /\ UNCHANGED <<rx_overflow, parser, typing, losses, damage, last>>
  BY DEF RingGet
<1>1. rx_ring \in Seq(Byte) /\ Len(rx_ring) \in Nat /\ BufferSize \in Nat
  BY DEF StTypes, AtConstants
<1>2. /\ count \in 0..Len(rx_ring) /\ 1 \in 1..(Len(rx_ring) + 1) /\ count + 1 \in 1..(Len(rx_ring) + 1)
      /\ Len(rx_ring) \in 0..Len(rx_ring)
  BY <1>1
<1> HIDE DEF count
<1>3. Stream' = Stream
  <2>1. c \in Seq(Byte)
    BY StreamIn
  <2>2. c' = c
    BY <1>0
  <2> HIDE DEF c
  <2>3. Cat(SubSeq(rx_ring, 1, count), SubSeq(rx_ring, count + 1, Len(rx_ring)), c) = Cat(<<>>, rx_ring, c)
    BY <1>1, <1>2, <2>1, CatTake
  <2>4. Stream = Cat(<<>>, rx_ring, c)
    BY <1>0 DEF Stream, c
  <2>5. Stream' = Cat(SubSeq(rx_ring, 1, count), SubSeq(rx_ring, count + 1, Len(rx_ring)), c)
    BY <1>0 DEF Stream, c
  <2> QED BY <2>3, <2>4, <2>5
<1>4. Dated(buffer', losses) /\ Dated(rx_ring', losses)
  <2>1. Dated(rx_ring, losses)
    BY DEF StReads
  <2> QED BY <1>0, <1>1, <1>2, <2>1, DatedPart
<1> QED BY <1>0, <1>3, <1>4 DEF StReads

LEMMA ReadsProcessInput ==
    ASSUME StTypes, StReads, ProcessInput
    PROVE  StReads'
<1>0. /\ rx_overflow' = FALSE /\ UNCHANGED <<rx_ring, buffer, typing, losses, last>>
      /\ \/ rx_overflow = TRUE /\ parser' = NewParser /\ damage' # "none"
         \/ parser' = parser /\ damage' = damage
  <2>1. /\ rx_overflow' = FALSE /\ UNCHANGED <<rx_ring, buffer, typing, losses, last>>
        /\ parser' = IF rx_overflow THEN NewParser ELSE parser
        /\ damage' = IF rx_overflow /\ damage = "lost" THEN "answered" ELSE damage
    BY DEF ProcessInput, parser_reset
  <2>2. CASE rx_overflow = TRUE
    <3>1. damage = "lost"
      BY <2>2 DEF StReads
    <3> QED BY <2>1, <2>2, <3>1
  <2>3. CASE rx_overflow = FALSE
    BY <2>1, <2>3
  <2> QED BY <2>2, <2>3 DEF StTypes
<1>1. Stream' = Stream
  BY <1>0 DEF Stream
<1>2. Sane(NewParser)
  BY DEF Sane, NewParser
<1>3. ~(rx_overflow' = TRUE)
  BY <1>0
<1>4. Sane(parser')
  BY <1>0, <1>2 DEF StReads
<1> QED BY <1>0, <1>1, <1>3, <1>4 DEF StReads

\* The interrupt hands over n bytes, of which the ring keeps w.
LEMMA ReadsReceive ==
    ASSUME StTypes, StReads, AtConstants, NEW n \in 1..ChunkSize, at_receive(n)
    PROVE  StReads'
<1> DEFINE w == IF n <= RingSize - Len(rx_ring) THEN n ELSE RingSize - Len(rx_ring)
           kept == StampAll(SubSeq(typing, 1, w), losses)
           rest == SubSeq(typing, n + 1, Len(typing))
<1>0. /\ n <= Len(typing)
      /\ rx_ring' = rx_ring \o kept
      /\ typing' = rest
      /\ \/ w # n /\ losses' = losses + 1 /\ damage' = "lost" /\ rx_overflow' = TRUE
         \/ w = n /\ UNCHANGED <<losses, damage, rx_overflow>>
      /\ UNCHANGED <<buffer, parser, last>>
  BY DEF at_receive, Stamp, StampAll
<1>1. /\ buffer \in Seq(Byte) /\ rx_ring \in Seq(Byte) /\ Len(rx_ring) <= RingSize /\ typing \in Seq(Byte)
      /\ losses \in Nat /\ Len(rx_ring) \in Nat /\ Len(typing) \in Nat /\ n \in Nat /\ n >= 1
      /\ RingSize \in Nat
  BY DEF StTypes, AtConstants
<1>2. w \in 0..Len(typing) /\ n \in 0..Len(typing)
  BY <1>0, <1>1
<1>3. /\ 1 \in 1..(Len(typing) + 1) /\ n + 1 \in 1..(Len(typing) + 1) /\ Len(typing) \in 0..Len(typing)
  BY <1>0, <1>1
<1> HIDE DEF w
<1>4. SubSeq(typing, 1, w) \in Seq(Byte)
  BY <1>1, <1>2, <1>3, Part
<1>5. rest \in Seq(Byte) /\ Len(rest) = Len(typing) - n /\ \A j \in 1..Len(rest) : rest[j] = typing[j + n]
  <2>1. rest \in Seq(Byte) /\ Len(rest) = IF n + 1 <= Len(typing) THEN Len(typing) - (n + 1) + 1 ELSE 0
    BY <1>1, <1>3, Part
  <2>2. Len(rest) = Len(typing) - n
    BY <1>0, <1>1, <2>1
  <2>3. ASSUME NEW j \in 1..(Len(typing) - n)
        PROVE  rest[j] = typing[j + n]
    <3>1. (n + 1) + j - 1 = j + n
      BY <1>1
    <3>2. rest[j] = typing[(n + 1) + j - 1]
      BY <1>0, <1>1
    <3> QED BY <3>1, <3>2
  <2> QED BY <2>1, <2>2, <2>3
<1> DEFINE part == SubSeq(typing, 1, w)
<1> HIDE DEF rest, part
<1>6. kept \in Seq(Byte) /\ AllOf(kept, losses)
  <2>1. kept = StampAll(part, losses) /\ part \in Seq(Byte)
    BY <1>4 DEF part
  <2>2. Stamps(StampAll(part, losses), part, losses)
    BY <1>1, <2>1, StampIs
  <2> HIDE DEF kept
  <2>3. Stamps(kept, part, losses)
    BY <2>1, <2>2
  <2> QED BY <2>3 DEF AllOf, Stamps
<1>7. Sane(parser) /\ Dated(buffer, losses) /\ Dated(rx_ring, losses)
      /\ (rx_overflow = TRUE => damage = "lost") /\ (last.clean = TRUE => last.line = last.means)
      /\ ReadsFromEnds(Stream, losses)
  BY DEF StReads
<1>8. Dated(rx_ring \o kept, losses)
  <2> HIDE DEF kept
  <2> DEFINE s == rx_ring \o kept
  <2>1. Len(rx_ring) \in Nat /\ Len(kept) \in Nat
    BY <1>1, <1>6
  <2>2. /\ Len(s) = Len(rx_ring) + Len(kept)
        /\ \A j \in 1..Len(rx_ring) : s[j] = rx_ring[j]
        /\ \A j \in 1..Len(kept) : s[Len(rx_ring) + j] = kept[j]
    BY <1>1, <1>6, TwoParts
  <2> HIDE DEF s
  <2> SUFFICES ASSUME NEW i \in 1..Len(s) PROVE s[i].gen <= losses
    BY DEF Dated, s
  <2>3. CASE i <= Len(rx_ring)
    <3>1. i \in 1..Len(rx_ring)
      BY <2>1, <2>2, <2>3
    <3> QED BY <1>7, <2>2, <3>1 DEF Dated
  <2>4. CASE i > Len(rx_ring)
    <3> DEFINE m == i - Len(rx_ring)
    <3>1. m \in 1..Len(kept) /\ Len(rx_ring) + m = i
      BY <2>1, <2>2, <2>4
    <3> HIDE DEF m
    <3>2. s[i] = kept[m] /\ kept[m].gen = losses
      BY <1>6, <2>2, <3>1 DEF AllOf
    <3> QED BY <1>1, <3>2
  <2> QED BY <2>1, <2>2, <2>3, <2>4
<1>9. CASE w = n /\ UNCHANGED <<losses, damage, rx_overflow>>
  <2>1. Stream' = Stream
    <3>1. Cat(buffer, rx_ring \o StampAll(SubSeq(typing, 1, n), losses),
              StampAll(SubSeq(typing, n + 1, Len(typing)), losses)) = Stream
      BY <1>1, <1>2, CatReceive DEF Stream
    <3>2. Stream' = Cat(buffer, rx_ring \o kept, StampAll(rest, losses))
      BY <1>0, <1>9 DEF Stream
    <3> QED BY <1>9, <3>1, <3>2 DEF rest
  <2>2. Dated(rx_ring', losses)
    BY <1>0, <1>8
  <2>3. damage = "none" => ReadsWell(Stream, 0, parser)
    BY DEF StReads
  <2> HIDE DEF kept
  <2> QED BY <1>0, <1>7, <1>9, <2>1, <2>2, <2>3 DEF StReads
<1>10. CASE w # n /\ losses' = losses + 1 /\ damage' = "lost" /\ rx_overflow' = TRUE
  <2> DEFINE c == StampAll(typing, losses)
             x == buffer \o rx_ring
             c2 == StampAll(rest, losses + 1)
             y == buffer \o (rx_ring \o kept)
  <2>0. losses + 1 \in Nat
    BY <1>1
  <2>1. /\ c \in Seq(Byte) /\ Len(c) = Len(typing)
        /\ \A i \in 1..Len(typing) : c[i].key = typing[i].key /\ c[i].means = typing[i].means
        /\ AllOf(c, losses)
    <3>1. Stamps(c, typing, losses)
      BY <1>1, StampIs
    <3> HIDE DEF c
    <3> QED BY <3>1 DEF AllOf, Stamps
  <2>2. /\ c2 \in Seq(Byte) /\ Len(c2) = Len(rest)
        /\ \A i \in 1..Len(rest) : c2[i].key = rest[i].key /\ c2[i].means = rest[i].means
    <3>1. Stamps(c2, rest, losses + 1)
      BY <1>5, <2>0, StampIs
    <3> HIDE DEF c2
    <3> QED BY <3>1 DEF Stamps
  <2>3. Stream = x \o c /\ Stream' = y \o c2
    <3>1. Stream' = Cat(buffer, rx_ring \o kept, StampAll(rest, losses + 1))
      BY <1>0, <1>10 DEF Stream
    <3> QED BY <3>1 DEF Stream, Cat
  <2> HIDE DEF c, c2, kept
  <2>4. x \in Seq(Byte) /\ (rx_ring \o kept) \in Seq(Byte)
    BY <1>1, <1>6, ConcatProperties
  <2>5. y \in Seq(Byte) /\ Dated(y, losses)
    <3> DEFINE rk == rx_ring \o kept
    <3>1. rk \in Seq(Byte) /\ Dated(rk, losses)
      BY <1>8, <2>4
    <3> HIDE DEF rk
    <3>2. y = buffer \o rk
      BY DEF rk
    <3> HIDE DEF y
    <3>3. /\ y \in Seq(Byte) /\ Len(y) = Len(buffer) + Len(rk)
          /\ \A j \in 1..Len(buffer) : y[j] = buffer[j]
          /\ \A j \in 1..Len(rk) : y[Len(buffer) + j] = rk[j]
      BY <1>1, <3>1, <3>2, TwoParts
    <3>4. Len(buffer) \in Nat /\ Len(rk) \in Nat
      BY <1>1, <3>1
    <3>5. ASSUME NEW i \in 1..Len(y)
          PROVE  y[i].gen <= losses
      <4>1. CASE i <= Len(buffer)
        <5>1. i \in 1..Len(buffer)
          BY <3>3, <3>4, <4>1
        <5> QED BY <1>7, <3>3, <5>1 DEF Dated
      <4>2. CASE i > Len(buffer)
        <5> DEFINE m == i - Len(buffer)
        <5>1. m \in 1..Len(rk) /\ Len(buffer) + m = i
          BY <3>3, <3>4, <4>2
        <5> HIDE DEF m
        <5> QED BY <3>1, <3>3, <5>1 DEF Dated
      <4> QED BY <3>3, <3>4, <4>1, <4>2
    <3> QED BY <3>3, <3>5 DEF Dated
  <2> HIDE DEF x, y
  <2>6. Len(c2) = Len(c) - n /\ n \in 0..Len(c) /\ SameFrom(c, n, c2)
    <3>1. Len(c2) = Len(c) - n /\ n \in 0..Len(c)
      BY <1>2, <1>5, <2>1, <2>2
    <3>2. ASSUME NEW j \in 1..Len(c2)
          PROVE  c2[j].key = c[j + n].key /\ c2[j].means = c[j + n].means
      <4>1. j \in 1..Len(rest) /\ j + n \in 1..Len(typing)
        BY <1>0, <1>1, <1>5, <2>2
      <4>2. rest[j] = typing[j + n]
        BY <1>5, <4>1
      <4> QED BY <2>1, <2>2, <4>1, <4>2
    <3> QED BY <3>1, <3>2 DEF SameFrom
  <2>7. Joined(Stream, x, c) /\ Joined(Stream', y, c2)
    <3>1. Joined(Stream, x, c)
      BY <2>1, <2>3, <2>4, JoinedIs
    <3>2. Joined(Stream', y, c2)
      BY <2>2, <2>3, <2>5, JoinedIs
    <3> QED BY <3>1, <3>2
  <2>8. ReadsFromEnds(Stream', losses + 1)
    BY <1>1, <1>7, <2>1, <2>2, <2>4, <2>5, <2>6, <2>7, ReadsAfterLoss
  <2>9. Dated(buffer, losses + 1) /\ Dated(rx_ring \o kept, losses + 1)
    <3>1. \A q \in Seq(Byte) : Dated(q, losses) => Dated(q, losses + 1)
      <4> SUFFICES ASSUME NEW q \in Seq(Byte), Dated(q, losses), NEW i \in 1..Len(q)
                   PROVE  q[i].gen <= losses + 1
        BY DEF Dated
      <4>1. q[i] \in Byte /\ q[i].gen <= losses
        BY DEF Dated
      <4>2. q[i].gen \in Nat
        BY <4>1 DEF Byte
      <4> QED BY <1>1, <4>1, <4>2
    <3> QED BY <1>1, <1>7, <1>8, <2>4, <3>1
  <2> QED BY <1>0, <1>7, <1>10, <2>8, <2>9 DEF StReads
<1> QED BY <1>0, <1>9, <1>10

\* The line that the next byte ends is the one that was meant, and what follows it is read
\* as it was typed.
LEMMA NextByte ==
    ASSUME StTypes, StReads, AtConstants, buffer # <<>>
    PROVE  LET byte == Head(buffer)
               t == Cat(Tail(buffer), rx_ring, StampAll(typing, losses))
               p == parser_feed(parser, byte.key)
           IN  /\ damage = "none" => line_ended(parser, byte.key) \in {NoLine, byte.means}
               /\ ReadsFromEnds(t, losses)
               /\ damage = "none" => ReadsWell(t, 0, p)
               /\ byte.key \in Ends /\ byte.gen = losses => ReadsWell(t, 0, p)
               /\ Sane(p) /\ Dated(Tail(buffer), losses)
<1> DEFINE byte == Head(buffer)
           c == StampAll(typing, losses)
           t == Cat(Tail(buffer), rx_ring, c)
           p == parser_feed(parser, byte.key)
           r == rx_ring \o c
<1>1. /\ buffer \in Seq(Byte) /\ rx_ring \in Seq(Byte) /\ c \in Seq(Byte) /\ parser \in ParserState
      /\ Tail(buffer) \in Seq(Byte) /\ Stream \in Seq(Byte)
  BY StreamIn, FedByte DEF StTypes
<1>2. Sane(parser) /\ Dated(buffer, losses) /\ ReadsFromEnds(Stream, losses)
      /\ (damage = "none" => ReadsWell(Stream, 0, parser))
  BY DEF StReads
<1> HIDE DEF c
<1>3. Stream = buffer \o r /\ t = Tail(buffer) \o r /\ r \in Seq(Byte)
  <2>1. Stream = Cat(buffer, rx_ring, c)
    BY DEF Stream, c
  <2>2. r \in Seq(Byte)
    BY <1>1, CatIn
  <2>0. buffer \in Seq(Byte) /\ rx_ring \in Seq(Byte) /\ c \in Seq(Byte)
    BY <1>1
  <2>3. Cat(buffer, rx_ring, c) = buffer \o (rx_ring \o c)
    BY <2>0, CatRight, Zenon
  <2> DEFINE tail == Tail(buffer)
  <2>4. tail \in Seq(Byte)
    BY <1>1
  <2> HIDE DEF tail
  <2>5. Cat(tail, rx_ring, c) = tail \o (rx_ring \o c)
    BY <2>0, <2>4, CatRight, Zenon
  <2> QED BY <2>1, <2>2, <2>3, <2>5, Zenon DEF tail
<1> HIDE DEF t, r
<1>4. /\ t \in Seq(Byte) /\ Len(Stream) > 0 /\ Len(t) = Len(Stream) - 1
      /\ Stream[1] = byte /\ \A j \in 1..Len(t) : t[j] = Stream[j + 1]
  BY <1>1, <1>3, CatTail
<1> HIDE DEF byte
<1>5. damage = "none" => line_ended(parser, byte.key) \in {NoLine, byte.means}
  BY <1>1, <1>2, <1>4, ReadsOn
<1>6. /\ ReadsFromEnds(t, losses)
      /\ ReadsWell(Stream, 0, parser) => ReadsWell(t, 0, parser_feed(parser, Stream[1].key))
      /\ Stream[1].key \in Ends /\ Stream[1].gen = losses =>
            ReadsWell(t, 0, parser_feed(parser, Stream[1].key))
  BY <1>1, <1>2, <1>4, ReadsFed
<1>7. Sane(p)
  BY <1>1, FeedSane
<1>8. Dated(Tail(buffer), losses)
  <2>1. /\ Len(buffer) \in Nat /\ Len(Tail(buffer)) = Len(buffer) - 1
        /\ \A j \in 1..(Len(buffer) - 1) : Tail(buffer)[j] = buffer[j + 1]
    BY <1>1, HeadTailProperties
  <2>2. ASSUME NEW j \in 1..Len(Tail(buffer))
        PROVE  Tail(buffer)[j].gen <= losses
    <3>1. j \in 1..(Len(buffer) - 1) /\ j + 1 \in 1..Len(buffer)
      BY <2>1
    <3>2. buffer[j + 1].gen <= losses
      BY <1>2, <3>1 DEF Dated
    <3> QED BY <2>1, <3>1, <3>2
  <2> QED BY <2>2 DEF Dated
<1>9. /\ damage = "none" => ReadsWell(t, 0, p)
      /\ byte.key \in Ends /\ byte.gen = losses => ReadsWell(t, 0, p)
  BY <1>2, <1>4, <1>6
<1> QED BY <1>5, <1>6, <1>7, <1>8, <1>9 DEF byte, t, c, p

LEMMA ReadsFeed ==
    ASSUME StTypes, StReads, AtConstants, buffer # <<>>,
           parser' = parser_feed(parser, Head(buffer).key), Repair(Head(buffer)),
           buffer' = Tail(buffer), UNCHANGED <<rx_ring, rx_overflow, typing, losses>>,
           last'.clean = TRUE => last'.line = last'.means
    PROVE  StReads'
<1> DEFINE byte == Head(buffer)
           t == Cat(Tail(buffer), rx_ring, StampAll(typing, losses))
<1>1. Stream' = t
  BY DEF Stream
<1>2. /\ damage' = "none" => damage = "none" \/ (byte.key \in Ends /\ byte.gen = losses)
      /\ damage = "lost" => damage' = "lost"
  BY DEF Repair, Ends
<1>3. /\ ReadsFromEnds(t, losses) /\ Sane(parser') /\ Dated(buffer', losses)
      /\ damage' = "none" => ReadsWell(t, 0, parser')
  BY <1>2, NextByte
<1> HIDE DEF t
<1>4. rx_overflow' = TRUE => damage' = "lost"
  BY <1>2 DEF StReads
<1> QED BY <1>1, <1>3, <1>4 DEF StReads

LEMMA ReadsFeedKey ==
    ASSUME StTypes, StReads, AtConstants, FeedKey
    PROVE  StReads'
<1> DEFINE byte == Head(buffer)
           line == line_ended(parser, byte.key)
<1>0. /\ buffer # <<>> /\ line \in {NoLine, Overflow}
      /\ parser' = parser_feed(parser, byte.key)
      /\ last' = IF line = NoLine THEN last
                 ELSE Handled(byte, line, <<"AT_TEST_PARAM_OVERFLOW">>)
      /\ Repair(byte)
      /\ buffer' = Tail(buffer)
      /\ UNCHANGED <<rx_ring, rx_overflow, typing, losses>>
  BY DEF FeedKey
<1>1. damage = "none" => line \in {NoLine, byte.means}
  BY <1>0, NextByte
<1> HIDE DEF line
<1>2. last'.clean = TRUE => last'.line = last'.means
  <2>1. CASE line = NoLine
    BY <1>0, <2>1 DEF StReads
  <2>2. CASE line # NoLine
    BY <1>0, <1>1, <2>2 DEF Handled
  <2> QED BY <2>1, <2>2
<1> QED BY <1>0, <1>2, ReadsFeed

LEMMA ReadsFeedLine ==
    ASSUME StTypes, StReads, AtConstants, NEW ok \in BOOLEAN, NEW oks \in [1..Extensions -> BOOLEAN],
           FeedLine(ok, oks)
    PROVE  StReads'
<1> DEFINE byte == Head(buffer)
           line == line_ended(parser, byte.key)
           answers == respond_for_error(execute(dev, line, ok, oks))
<1>0. /\ buffer # <<>> /\ line # NoLine
      /\ last' = Handled(byte, line, answers)
      /\ \/ LoseRam
         \/ /\ parser' = parser_feed(parser, byte.key)
            /\ Repair(byte)
            /\ buffer' = Tail(buffer)
            /\ UNCHANGED <<rx_ring, rx_overflow, typing, losses>>
  BY DEF FeedLine
<1>1. damage = "none" => line \in {NoLine, byte.means}
  BY <1>0, NextByte
<1> HIDE DEF line, answers
<1>2. last'.clean = TRUE => last'.line = last'.means
  BY <1>0, <1>1 DEF Handled
<1> QED BY <1>0, <1>2, ReadsFeed, ReadsLost

LEMMA ReadsInit ==
    ASSUME AtInit
    PROVE  StReads
<1>0. /\ rx_ring = <<>> /\ rx_overflow = FALSE /\ buffer = <<>> /\ parser = NewParser
      /\ typing = <<>> /\ damage = "none" /\ last.line = last.means
  BY DEF AtInit
<1>1. \A i \in 1..Len(<<>>) : FALSE
  OBVIOUS
<1>2. Stream = <<>>
  BY <1>0 DEF Stream, StampAll, Cat
<1>3. NewParser = IdleParser(FALSE)
  BY IdleFields DEF NewParser
<1>4. ReadsWell(<<>>, 0, IdleParser(FALSE)) /\ Sane(IdleParser(FALSE))
  BY ReadsNothing, IdleFields DEF Sane
<1>5. Dated(<<>>, losses) /\ ReadsFromEnds(<<>>, losses)
  BY <1>1 DEF Dated, ReadsFromEnds
<1>6. ~(rx_overflow = TRUE)
  BY <1>0
<1> QED BY <1>0, <1>2, <1>3, <1>4, <1>5, <1>6 DEF StReads

LEMMA ReadsNext ==
    ASSUME StTypes, StReads, AtConstants, ScriptsSpell, [AtNext]_at_vars
    PROVE  StReads'
<1>1. CASE UNCHANGED at_vars
  BY <1>1, ReadsSame DEF at_vars
<1>2. ASSUME NEW readable \in SUBSET Keys, Start(readable)
      PROVE  StReads'
  BY <1>2, ReadsSame DEF Start, input
<1>3. CASE StartFails
  BY <1>3, ReadsSame DEF StartFails, input
<1>4. CASE PowerCycle
  BY <1>4, ReadsLost DEF PowerCycle, StReads
<1>5. CASE InputDone
  BY <1>5, ReadsSame DEF InputDone, input
<1>6. CASE AtNext
  BY <1>2, <1>3, <1>4, <1>5, <1>6, ReadsHostType, ReadsReceive, ReadsProcessInput, ReadsRingGet,
     ReadsFeedKey, ReadsFeedLine DEF AtNext, AtThread
<1> QED BY <1>1, <1>6

\* For every ring, buffer, chunk and line length, and every set of scripts that spell their
\* line to an idle parser: a line that no overflow of the ring touched is executed as the host
\* meant it and is answered once (ATZ reboots instead, and the four lines that ask for the text
\* of a plain command are not answered when it cannot be written), and the damage of an overflow ends
\* with the first terminator sent after it.  The invariant follows the bytes from the host to
\* the parser: undamaged, they take the parser through the lines that were meant; damaged,
\* they do so from every terminator sent after the last overflow.
THEOREM LinesAreAnsweredAsTyped == AtSpec => []AnsweredAsTyped
<1>1. StInv /\ StReads => AnsweredAsTyped
  <2> SUFFICES ASSUME StInv, StReads, last.clean
               PROVE  /\ last.line = last.means
                      /\ Len(last.answers) = 1 \/ Unanswered(last.line, last.answers)
    BY DEF AnsweredAsTyped, Unanswered
  <2>1. Unanswered(last.line, last.answers) \/ \E status : last.answers = <<status>>
    BY DEF StInv, StSettings
  <2>2. \A status : Len(<<status>>) = 1
    OBVIOUS
  <2>3. last.line = last.means
    BY DEF StReads
  <2> QED BY <2>1, <2>2, <2>3
<1>2. AtInit => StInv /\ StReads
  BY AtAssumption, StInit, ReadsInit
<1>3. StInv /\ StReads /\ [AtNext]_at_vars => StInv' /\ StReads'
  BY AtAssumption, ScriptsAssumption, StNext, ReadsNext DEF StInv
<1> QED BY <1>1, <1>2, <1>3, PTL DEF AtSpec

=============================================================================
