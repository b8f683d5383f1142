---------------------------- MODULE LoraP2pProofs ----------------------------
(***************************************************************************)
(* Proofs about LoraP2p for every number of threads, every queue depth and *)
(* every bound.  The argument is about the sections under the USP lock:    *)
(* each maps a good backend state to a good one, and no step changes the   *)
(* radio's part of the state outside a section.  Then what stop() leaves   *)
(* behind, and the completions of sends, for clients that call and poll    *)
(* without regard for each other.                                          *)
(***************************************************************************)
EXTENDS LoraP2p, SequenceTheorems, TLAPS

\* What the three invariants say of one backend state, strengthened by: a radio that is not
\* open carries no transaction.  abort_p2p() needs it, for it leaves a closed radio alone.
RadioOK(s) ==
    /\ s.tx_busy = (s.tx # 0)
    /\ s.rx_active = (s.rx # NoTask)
    /\ s.test_mode => s.tx = 0 /\ s.rx = NoTask
    /\ s.tx # 0 => s.tx_buffer = s.tx
    /\ ~s.opened => s.tx = 0 /\ s.rx = NoTask

Good(s) == s \in UspState /\ RadioOK(s)

\* The end of a transmission leaves the radio without one.
LEMMA TxDoneGood ==
    ASSUME NEW s, Good(s), NEW error \in {"ok", "busy", "io"}
    PROVE  Good(on_tx_done(s, error)) /\ on_tx_done(s, error).tx = 0
  BY DEF Good, RadioOK, UspState, TxResults, on_tx_done

\* Cancelling both transactions empties the radio.
LEMMA AbortGood ==
    ASSUME NEW s, Good(s)
    PROVE  /\ Good(abort_p2p(s))
           /\ abort_p2p(s).tx = 0 /\ abort_p2p(s).rx = NoTask
           /\ abort_p2p(s).test_mode = s.test_mode
<1> DEFINE idle == [s EXCEPT !.rx_active = FALSE]
           quiet == AbortRx(idle)
<1>1. Good(quiet) /\ quiet.tx = s.tx /\ quiet.rx = NoTask /\ quiet.test_mode = s.test_mode
  BY P2pAssumption DEF AbortRx, Good, RadioOK, UspState
<1>2. CASE s.opened /\ s.tx # 0
  <2>1. abort_p2p(s) = on_tx_done(quiet, "busy")
    BY <1>1, <1>2 DEF abort_p2p, AbortTx
  <2>2. on_tx_done(quiet, "busy").rx = NoTask /\ on_tx_done(quiet, "busy").test_mode = s.test_mode
    BY <1>1 DEF on_tx_done, Good, UspState
  <2> QED BY <1>1, <2>1, <2>2, TxDoneGood
<1>3. CASE s.opened /\ s.tx = 0
  BY <1>1, <1>3 DEF abort_p2p, AbortTx
<1>4. CASE ~s.opened
  BY <1>4 DEF abort_p2p, Good, RadioOK, UspState
<1> QED BY <1>2, <1>3, <1>4 DEF Good, UspState

LEMMA EnterGood ==
    ASSUME NEW s, Good(s), NEW ok \in BOOLEAN
    PROVE  Good(enter_test_mode(s, ok))
  BY AbortGood DEF enter_test_mode, Good, RadioOK, UspState

LEMMA LeaveGood ==
    ASSUME NEW s, Good(s), NEW ok \in BOOLEAN
    PROVE  Good(leave_test_mode(s, ok))
  BY DEF leave_test_mode, Good, RadioOK, UspState

LEMMA StopGood ==
    ASSUME NEW s, Good(s), NEW left \in BOOLEAN
    PROVE  Good(usp_stop(s, left))
<1>1. Good([abort_p2p(s) EXCEPT !.tx_busy = FALSE])
  BY AbortGood DEF Good, RadioOK, UspState
<1> QED BY <1>1, LeaveGood DEF usp_stop

\* A window is submitted only by a backend out of test mode.
LEMMA WindowGood ==
    ASSUME NEW s \in UspState, NEW ok \in BOOLEAN,
           RadioOK([s EXCEPT !.rx_active = FALSE]), s.rx = NoTask, ~s.test_mode
    PROVE  Good(submit_rx_window(s, ok))
<1> DEFINE accepted == /\ s.rx_continuous \/ ~s.expired
                       /\ submit(s, s.rx = NoTask, ok)
<1>1. 1 - s.window \in {0, 1}
  BY DEF UspState
<1>2. CASE accepted
  <2>1. submit_rx_window(s, ok) =
           [s EXCEPT !.rx_active = TRUE, !.rx = s.config, !.window = 1 - s.window]
    BY <1>2 DEF submit_rx_window, submit, UspState
  <2>2. s.config \in Configs /\ s.config # NoTask
    BY P2pAssumption DEF UspState
  <2> QED BY <1>1, <1>2, <2>1, <2>2, ZenonT(60) DEF submit, Good, RadioOK, UspState
<1>3. CASE ~accepted
  <2>1. submit_rx_window(s, ok) = [s EXCEPT !.rx_active = FALSE]
    BY <1>3 DEF submit_rx_window, submit, UspState
  <2> QED BY <2>1 DEF Good, RadioOK, UspState
<1> QED BY <1>2, <1>3

LEMMA RxDoneGood ==
    ASSUME NEW s, Good(s), s.rx # NoTask, NEW status, NEW ok \in BOOLEAN
    PROVE  Good(on_rx_done(s, status, ok))
<1> DEFINE done == [s EXCEPT !.rx = NoTask]
<1>1. /\ done \in UspState /\ RadioOK([done EXCEPT !.rx_active = FALSE])
      /\ done.rx = NoTask /\ ~done.test_mode /\ s.rx_active
  BY DEF Good, RadioOK, UspState
<1>2. Good(submit_rx_window(done, ok))
  BY <1>1, WindowGood
<1>3. Good([done EXCEPT !.rx_active = FALSE])
  BY <1>1 DEF Good, UspState
<1> QED BY <1>1, <1>2, <1>3 DEF on_rx_done

LEMMA SendGood ==
    ASSUME NEW s, Good(s), NEW frame \in Nat \ {0}, NEW left \in BOOLEAN, NEW ok \in BOOLEAN
    PROVE  Good(usp_send(s, frame, left, ok))
<1> DEFINE p2p == leave_test_mode(s, left)
<1>1. Good(p2p) /\ p2p.tx = s.tx /\ p2p.opened = s.opened
  BY LeaveGood DEF leave_test_mode, Good, UspState
<1>2. CASE p2p.test_mode \/ p2p.tx_busy
  BY <1>1, <1>2 DEF usp_send
<1>3. CASE ~p2p.test_mode /\ ~p2p.tx_busy /\ ok /\ s.opened
  <2>1. s.tx = 0
    BY <1>1, <1>3 DEF Good, RadioOK
  <2>2. usp_send(s, frame, left, ok) =
           [p2p EXCEPT !.tx_buffer = frame, !.tx_busy = TRUE, !.tx = frame]
    BY <1>3, <2>1 DEF usp_send, submit
  <2> DEFINE sent == [p2p EXCEPT !.tx_buffer = frame, !.tx_busy = TRUE, !.tx = frame]
  <2>3. sent \in UspState
    BY <1>1 DEF Good, UspState
  <2>4. /\ sent.tx_busy = TRUE /\ sent.tx = frame /\ sent.tx_buffer = frame
        /\ sent.rx_active = p2p.rx_active /\ sent.rx = p2p.rx
        /\ sent.test_mode = p2p.test_mode /\ sent.opened = p2p.opened
    BY <1>1 DEF Good, UspState
  <2>5. RadioOK(sent)
    <3> HIDE DEF sent, p2p
    <3> QED BY <1>1, <1>3, <2>4 DEF Good, RadioOK
  <2> QED BY <2>2, <2>3, <2>5 DEF Good
<1>4. CASE ~p2p.test_mode /\ ~p2p.tx_busy /\ ~(ok /\ s.opened)
  <2>1. usp_send(s, frame, left, ok) =
           [p2p EXCEPT !.tx_buffer = frame, !.tx_busy = FALSE, !.tx = p2p.tx]
    BY <1>4 DEF usp_send, submit
  <2> QED BY <1>1, <1>4, <2>1 DEF Good, RadioOK, UspState
<1> QED BY <1>2, <1>3, <1>4

LEMMA ReceiveGood ==
    ASSUME NEW s, Good(s), NEW timeout, NEW left \in BOOLEAN, NEW ok \in BOOLEAN
    PROVE  Good(usp_receive(s, timeout, left, ok))
<1> DEFINE idle == AbortRx([s EXCEPT !.rx_active = FALSE])
           p2p == leave_test_mode(idle, left)
           timed == [p2p EXCEPT !.rx_continuous = (timeout = "continuous"), !.expired = FALSE]
<1>1. Good(idle) /\ idle.rx = NoTask
  BY DEF AbortRx, Good, RadioOK, UspState
<1>2. Good(p2p) /\ p2p.rx = NoTask
  BY <1>1, LeaveGood, ZenonT(60) DEF leave_test_mode, Good, UspState
<1>3. ASSUME ~p2p.test_mode
      PROVE  /\ timed \in UspState /\ RadioOK([timed EXCEPT !.rx_active = FALSE])
             /\ timed.rx = NoTask /\ ~timed.test_mode
  BY <1>2, <1>3 DEF Good, RadioOK, UspState
<1>4. ASSUME ~p2p.test_mode
      PROVE  Good(submit_rx_window(timed, ok))
  BY <1>3, <1>4, WindowGood
<1> QED BY <1>1, <1>2, <1>4 DEF usp_receive

-----------------------------------------------------------------------------
\* Every step leaves the backend in a good state.
LEMMA UspStep ==
    ASSUME TypeOK, Good(usp), [Next]_vars
    PROVE  Good(usp')
<1>1. ASSUME NEW t \in Threads, Thread(t)
      PROVE  Good(usp')
  <2>1. CASE InitStart(t)
    BY <2>1 DEF InitStart, open_radio, Good, RadioOK, UspState
  <2>2. CASE Apply(t)
    BY <2>2 DEF Apply, TypeOK, Good, RadioOK, UspState
  <2>3. CASE SendSubmit(t)
    <3>1. PICK left \in BOOLEAN, ok \in BOOLEAN : usp' = usp_send(usp, sends + 1, left, ok)
      BY <2>3 DEF SendSubmit
    <3>2. sends + 1 \in Nat \ {0}
      BY DEF TypeOK
    <3> QED BY <3>1, <3>2, SendGood
  <2>4. CASE ReceiveRadio(t) \/ TestReceive(t)
    <3>1. CASE ReceiveRadio(t)
      BY <3>1, ReceiveGood DEF ReceiveRadio
    <3>2. CASE TestReceive(t)
      BY <3>2, ReceiveGood DEF TestReceive
    <3> QED BY <2>4, <3>1, <3>2
  <2>5. CASE StopAbort(t)
    BY <2>5, StopGood DEF StopAbort
  <2>6. CASE TestRun(t)
    BY <2>6, EnterGood DEF TestRun
  <2>7. CASE StopClear(t) \/ PollTake(t)
    BY <2>7 DEF StopClear, PollTake, Good, RadioOK, UspState
  <2>8. CASE \/ SetConfig(t) \/ Register(t) \/ SendCheck(t) \/ ReceiveCheck(t) \/ SendCipher(t)
             \/ ReceiveFlag(t) \/ StopPurge(t) \/ StopEnd(t) \/ PollError(t) \/ PollTxCall(t)
             \/ PollRx(t) \/ PollRxCall(t)
    <3>1. usp' = usp
      BY <2>8 DEF SetConfig, Register, SendCheck, ReceiveCheck, SendCipher, ReceiveFlag,
                  StopPurge, StopEnd, PollError, PollTxCall, PollRx, PollRxCall
    <3> QED BY <3>1
  <2> QED BY <1>1, <2>1, <2>2, <2>3, <2>4, <2>5, <2>6, <2>7, <2>8 DEF Thread, Continue
<1>2. CASE TxEnds
  BY <1>2, TxDoneGood DEF TxEnds
<1>3. CASE RxEnds \/ RxPacket
  BY <1>3, RxDoneGood DEF RxEnds, RxPacket
<1>4. CASE Deadline
  BY <1>4 DEF Deadline, Good, RadioOK, UspState
<1>5. CASE UNCHANGED vars
  BY <1>5 DEF vars
<1> QED BY <1>1, <1>2, <1>3, <1>4, <1>5 DEF Next

\* The variables outside the backend keep their types.
LEMMA TypeStep ==
    ASSUME TypeOK, Good(usp), [Next]_vars
    PROVE  TypeOK'
<1>1. usp' \in UspState
  BY UspStep DEF Good
<1>2. ASSUME NEW t \in Threads, Thread(t)
      PROVE  TypeOK'
  <2>1. pc' \in [Threads -> Steps]
    BY <1>2 DEF TypeOK, Steps, Thread, Continue, Goto, Return, Stay, InitStart, SetConfig, Apply,
                Register, SendCheck, SendCipher, SendSubmit, ReceiveCheck, ReceiveRadio,
                ReceiveFlag, StopAbort, StopClear, StopPurge, StopEnd, TestRun, TestReceive,
                PollTake, PollError, PollTxCall, PollRx, PollRxCall
  <2>2. lock' \in Threads \cup {NoOne} /\ started' \in BOOLEAN /\ rx_flag' \in BOOLEAN
    BY <1>2 DEF TypeOK, Thread, Continue, InitStart, SetConfig, Apply, Register, SendCheck,
                SendCipher, SendSubmit, ReceiveCheck, ReceiveRadio, ReceiveFlag, StopAbort,
                StopClear, StopPurge, StopEnd, TestRun, TestReceive, PollTake, PollError,
                PollTxCall, PollRx, PollRxCall
  <2>3. config' \in Configs /\ callbacks' \in Tables
    BY <1>2 DEF TypeOK, Thread, Continue, InitStart, SetConfig, Apply, Register, SendCheck,
                SendCipher, SendSubmit, ReceiveCheck, ReceiveRadio, ReceiveFlag, StopAbort,
                StopClear, StopPurge, StopEnd, TestRun, TestReceive, PollTake, PollError,
                PollTxCall, PollRx, PollRxCall
  <2>4. calls' \in 0..MaxCalls /\ sends' \in Nat /\ heard' \in 0..MaxPackets
    BY <1>2, P2pAssumption
       DEF TypeOK, Call, Overwrite, tx_history, rx_history, Thread, Continue, InitStart, SetConfig, Apply,
           Register, SendCheck, SendCipher, SendSubmit, ReceiveCheck, ReceiveRadio, ReceiveFlag,
           StopAbort, StopClear, StopPurge, StopEnd, TestRun, TestReceive, PollTake, PollError,
           PollTxCall, PollRx, PollRxCall
  <2>5. rx_queue' \in Seq([packet : Nat, config : Configs]) /\ Len(rx_queue') <= QueueDepth
    <3>1. CASE StopPurge(t)
      BY <3>1, P2pAssumption DEF StopPurge
    <3>2. CASE PollRx(t)
      <4>1. CASE rx_queue = <<>>
        BY <3>2, <4>1, P2pAssumption DEF PollRx
      <4>2. CASE rx_queue # <<>>
        <5>1. rx_queue' = Tail(rx_queue)
          BY <3>2, <4>2 DEF PollRx
        <5>2. /\ rx_queue \in Seq([packet : Nat, config : Configs])
              /\ Len(rx_queue) <= QueueDepth
          BY DEF TypeOK
        <5>3. /\ Tail(rx_queue) \in Seq([packet : Nat, config : Configs])
              /\ Len(Tail(rx_queue)) = Len(rx_queue) - 1
          BY <4>2, <5>2
        <5>4. Len(rx_queue) \in Nat
          BY <5>2
        <5> QED BY <5>1, <5>2, <5>3, <5>4, P2pAssumption
      <4> QED BY <4>1, <4>2
    <3>3. CASE ~StopPurge(t) /\ ~PollRx(t)
      <4>1. rx_queue' = rx_queue
        BY <1>2, <3>3
           DEF Thread, Continue, InitStart, SetConfig, Apply, Register, SendCheck, SendCipher,
               SendSubmit, ReceiveCheck, ReceiveRadio, ReceiveFlag, StopAbort, StopClear,
               StopEnd, TestRun, TestReceive, PollTake, PollError, PollTxCall, PollRxCall
      <4> QED BY <4>1 DEF TypeOK
    <3> QED BY <3>1, <3>2, <3>3
  <2> QED BY <1>1, <2>1, <2>2, <2>3, <2>4, <2>5 DEF TypeOK
<1>3. CASE TxEnds \/ RxEnds \/ Deadline
  BY <1>1, <1>3 DEF TypeOK, TxEnds, RxEnds, Deadline, Overwrite, tx_history, rx_history
<1>4. CASE RxPacket
  <2>1. heard' \in 0..MaxPackets /\ heard + 1 \in Nat
    BY <1>4, P2pAssumption DEF RxPacket, TypeOK
  <2>2. usp.rx \in Configs
    BY <1>4 DEF RxPacket, TypeOK, UspState
  <2>3. rx_queue' \in Seq([packet : Nat, config : Configs]) /\ Len(rx_queue') <= QueueDepth
    <3> DEFINE entry == [packet |-> heard + 1, config |-> usp.rx]
    <3>1. rx_queue \in Seq([packet : Nat, config : Configs]) /\ Len(rx_queue) <= QueueDepth
      BY DEF TypeOK
    <3>2. entry \in [packet : Nat, config : Configs]
      BY <2>1, <2>2
    <3>3. rx_queue' = IF Len(rx_queue) < QueueDepth THEN Append(rx_queue, entry) ELSE rx_queue
      BY <1>4 DEF RxPacket
    <3> HIDE DEF entry
    <3>4. /\ Append(rx_queue, entry) \in Seq([packet : Nat, config : Configs])
          /\ Len(Append(rx_queue, entry)) = Len(rx_queue) + 1
          /\ Len(rx_queue) \in Nat
      BY <3>1, <3>2
    <3>5. CASE Len(rx_queue) < QueueDepth
      <4>1. rx_queue' = Append(rx_queue, entry)
        BY <3>3, <3>5
      <4>2. Len(rx_queue) + 1 <= QueueDepth
        BY <3>4, <3>5, P2pAssumption
      <4> QED BY <3>4, <4>1, <4>2
    <3>6. CASE ~(Len(rx_queue) < QueueDepth)
      BY <3>1, <3>3, <3>6
    <3> QED BY <3>5, <3>6
  <2> QED BY <1>1, <1>4, <2>1, <2>3 DEF RxPacket, TypeOK, tx_history
<1>5. CASE UNCHANGED vars
  BY <1>5 DEF vars, TypeOK
<1> QED BY <1>2, <1>3, <1>4, <1>5 DEF Next

\* The initial state is well typed and its radio is closed.
LEMMA InitGood ==
    ASSUME Init
    PROVE  TypeOK /\ Good(usp)
<1>1. usp \in UspState
  BY DEF Init, UspState, TxResults
<1>2. RadioOK(usp)
  BY DEF Init, RadioOK
<1>3. rx_queue \in Seq([packet : Nat, config : Configs]) /\ Len(rx_queue) <= QueueDepth
  BY P2pAssumption DEF Init
<1>4. pc \in [Threads -> Steps]
  BY DEF Init, Steps
<1>5. calls \in 0..MaxCalls /\ sends \in Nat /\ heard \in 0..MaxPackets
  BY P2pAssumption DEF Init
<1>6. lock \in Threads \cup {NoOne} /\ started \in BOOLEAN /\ rx_flag \in BOOLEAN
  BY DEF Init
<1>7. config \in Configs /\ callbacks \in Tables
  BY DEF Init
<1> QED BY <1>1, <1>2, <1>3, <1>4, <1>5, <1>6, <1>7 DEF TypeOK, Good

\* The inductive invariant: types and a good backend.
LEMMA GoodAlways == Spec => [](TypeOK /\ Good(usp))
<1>1. Init => TypeOK /\ Good(usp)
  BY InitGood
<1>2. TypeOK /\ Good(usp) /\ [Next]_vars => (TypeOK /\ Good(usp))'
  BY TypeStep, UspStep DEF Good
<1> QED BY <1>1, <1>2, PTL DEF Spec

(* The raw LoRa service keeps its types, rx_queue its depth, for every     *)
(* number of threads and every sequence of calls.                          *)
THEOREM P2pTypeCorrect == Spec => []TypeOK
BY GoodAlways, PTL

(* tx_busy and rx_active always say what the radio does, whichever threads *)
(* send, receive, test, stop and poll in whatever order.                   *)
THEOREM FlagsAreTrue == Spec => []FlagsTellRadio
<1>1. Good(usp) => FlagsTellRadio
  BY DEF Good, RadioOK, FlagsTellRadio
<1> QED BY <1>1, GoodAlways, PTL

(* Test mode and P2P transactions exclude each other.                      *)
THEOREM TestModeExclusive == Spec => []TestExcludesP2p
<1>1. Good(usp) => TestExcludesP2p
  BY DEF Good, RadioOK, TestExcludesP2p
<1> QED BY <1>1, GoodAlways, PTL

(* No call overwrites the frame that is on the air.                        *)
THEOREM FrameOnAirIntact == Spec => []AirFrameIntact
<1>1. Good(usp) => AirFrameIntact
  BY DEF Good, RadioOK, AirFrameIntact
<1> QED BY <1>1, GoodAlways, PTL

(* The backend's picture of the radio is right for every number of threads *)
(* and in every order of their calls.                                      *)
THEOREM RadioIsConsistent == Spec => []RadioConsistent
<1>1. TypeOK /\ FlagsTellRadio /\ TestExcludesP2p /\ AirFrameIntact => RadioConsistent
  BY DEF RadioConsistent
<1> QED BY <1>1, P2pTypeCorrect, FlagsAreTrue, TestModeExclusive, FrameOnAirIntact, PTL

-----------------------------------------------------------------------------
(* What a section does to the transmission *)

\* What a section leaves of the transmission and of its completion.
SameTx(s, r) == r.tx = s.tx /\ r.tx_done = s.tx_done /\ r.tx_error = s.tx_error
\* The transmission ended, its completion waits.
TxOver(s, r) == s.tx # 0 /\ r.tx = 0 /\ r.tx_done /\ r.tx_error.send = s.tx

LEMMA ReceiveKeepsTx ==
    ASSUME NEW s \in UspState, NEW timeout, NEW left \in BOOLEAN, NEW ok \in BOOLEAN
    PROVE  SameTx(s, usp_receive(s, timeout, left, ok))
<1> DEFINE idle == AbortRx([s EXCEPT !.rx_active = FALSE])
           p2p == leave_test_mode(idle, left)
           timed == [p2p EXCEPT !.rx_continuous = (timeout = "continuous"), !.expired = FALSE]
<1>1. SameTx(s, idle) /\ SameTx(s, p2p) /\ SameTx(s, timed) /\ SameTx(s, submit_rx_window(timed, ok))
  BY DEF AbortRx, leave_test_mode, submit_rx_window, SameTx, UspState
<1> QED BY <1>1 DEF usp_receive

LEMMA RxDoneKeepsTx ==
    ASSUME NEW s \in UspState, NEW status, NEW ok \in BOOLEAN
    PROVE  SameTx(s, on_rx_done(s, status, ok))
BY DEF on_rx_done, submit_rx_window, SameTx, UspState

LEMMA AbortEndsTx ==
    ASSUME NEW s, Good(s)
    PROVE  SameTx(s, abort_p2p(s)) \/ TxOver(s, abort_p2p(s))
<1> DEFINE idle == [s EXCEPT !.rx_active = FALSE]
           quiet == AbortRx(idle)
<1>1. quiet \in UspState /\ SameTx(s, quiet) /\ SameTx(s, idle)
  BY P2pAssumption DEF AbortRx, Good, UspState, SameTx
<1>2. CASE s.opened /\ s.tx # 0
  <2>1. abort_p2p(s) = on_tx_done(quiet, "busy")
    BY <1>1, <1>2 DEF abort_p2p, AbortTx, SameTx
  <2>2. TxOver(s, on_tx_done(quiet, "busy"))
    BY <1>1, <1>2 DEF on_tx_done, TxOver, SameTx, UspState
  <2> QED BY <2>1, <2>2
<1>3. CASE ~(s.opened /\ s.tx # 0)
  BY <1>1, <1>3 DEF abort_p2p, AbortTx, SameTx
<1> QED BY <1>2, <1>3

LEMMA StopEndsTx ==
    ASSUME NEW s, Good(s), NEW left \in BOOLEAN
    PROVE  /\ SameTx(s, usp_stop(s, left)) \/ TxOver(s, usp_stop(s, left))
           /\ usp_stop(s, left).tx = 0 /\ usp_stop(s, left).rx = NoTask
<1>1. SameTx(s, abort_p2p(s)) \/ TxOver(s, abort_p2p(s))
  BY AbortEndsTx
<1>2. abort_p2p(s) \in UspState /\ abort_p2p(s).tx = 0 /\ abort_p2p(s).rx = NoTask
  BY AbortGood DEF Good
<1>3. /\ usp_stop(s, left).tx = abort_p2p(s).tx /\ usp_stop(s, left).tx_done = abort_p2p(s).tx_done
      /\ usp_stop(s, left).tx_error = abort_p2p(s).tx_error /\ usp_stop(s, left).rx = abort_p2p(s).rx
  BY <1>2 DEF usp_stop, leave_test_mode, UspState
<1> QED BY <1>1, <1>2, <1>3 DEF SameTx, TxOver

LEMMA EnterEndsTx ==
    ASSUME NEW s, Good(s), NEW ok \in BOOLEAN
    PROVE  SameTx(s, enter_test_mode(s, ok)) \/ TxOver(s, enter_test_mode(s, ok))
<1>1. SameTx(s, abort_p2p(s)) \/ TxOver(s, abort_p2p(s))
  BY AbortEndsTx
<1>2. abort_p2p(s) \in UspState
  BY AbortGood DEF Good
<1> QED BY <1>1, <1>2 DEF enter_test_mode, SameTx, TxOver, UspState

-----------------------------------------------------------------------------
(* What stop() leaves behind *)

NewTx == usp.tx # 0 => "tx" \in later
NewRx == usp.rx # NoTask => "rx" \in later
NewDone == usp.tx_done => "tx" \in later
NewQueue == rx_queue # <<>> => "rx" \in later

\* Who applies a configuration or stops holds the mutex; stop() finds new what it has already
\* emptied, and so does everybody once the service is stopped.
StopInv ==
    /\ \A t \in Threads : pc[t] = "apply" \/ Stopping(t) => lock = t
    /\ \A t \in Threads : pc[t] = "clear" => NewTx /\ NewRx
    /\ \A t \in Threads : pc[t] = "purge" => NewTx /\ NewRx /\ NewDone
    /\ \A t \in Threads : pc[t] = "stopped" => NewTx /\ NewRx /\ NewDone /\ NewQueue
    /\ ~started /\ (\A t \in Threads : ~Stopping(t)) => NewTx /\ NewRx /\ NewDone /\ NewQueue

\* A step that puts nothing on the radio without marking it as later.
Kept ==
    /\ NewTx => NewTx'
    /\ NewRx => NewRx'
    /\ NewTx /\ NewDone => NewDone'
    /\ NewRx /\ NewQueue => NewQueue'

\* A window that ends is replaced only by one of the same receive.
LEMMA WindowEnds ==
    ASSUME NEW s \in UspState, NEW status, NEW ok \in BOOLEAN, s.rx # NoTask
    PROVE  on_rx_done(s, status, ok).tx = s.tx /\ on_rx_done(s, status, ok).tx_done = s.tx_done
BY RxDoneKeepsTx DEF SameTx

LEMMA RadioKept ==
    ASSUME TypeOK, TxEnds \/ RxEnds \/ RxPacket \/ Deadline
    PROVE  Kept
<1>0. usp \in UspState
  BY DEF TypeOK
<1>1. CASE TxEnds
  <2>1. PICK error \in {"ok", "busy", "io"} : usp' = on_tx_done(usp, error)
    BY <1>1 DEF TxEnds
  <2>2. usp'.tx = 0 /\ usp'.rx = usp.rx /\ usp.tx # 0 /\ UNCHANGED <<rx_queue, later>>
    BY <1>0, <1>1, <2>1 DEF TxEnds, on_tx_done, UspState, rx_history
  <2> QED BY <2>2 DEF Kept, NewTx, NewRx, NewDone, NewQueue
<1>2. CASE RxEnds \/ RxPacket
  <2>0. \E status \in {"aborted", "other", "packet"}, ok \in BOOLEAN :
            usp' = on_rx_done(usp, status, ok)
    <3>1. CASE RxEnds
      <4>1. PICK status \in {"aborted", "other"}, ok \in BOOLEAN : usp' = on_rx_done(usp, status, ok)
        BY <3>1 DEF RxEnds
      <4> QED BY <4>1, Zenon
    <3>2. CASE RxPacket
      <4>1. PICK ok \in BOOLEAN : usp' = on_rx_done(usp, "packet", ok)
        BY <3>2 DEF RxPacket
      <4> QED BY <4>1, Zenon
    <3> QED BY <1>2, <3>1, <3>2
  <2>1. PICK status \in {"aborted", "other", "packet"}, ok \in BOOLEAN :
            usp' = on_rx_done(usp, status, ok)
    BY <2>0
  <2>2. usp.rx # NoTask /\ UNCHANGED later
    BY <1>2 DEF RxEnds, RxPacket, rx_history
  <2>3. usp'.tx = usp.tx /\ usp'.tx_done = usp.tx_done
    BY <1>0, <2>1, <2>2, WindowEnds
  <2> QED BY <2>2, <2>3 DEF Kept, NewTx, NewRx, NewDone, NewQueue
<1>3. CASE Deadline
  <2>1. usp' = [usp EXCEPT !.expired = TRUE] /\ UNCHANGED <<rx_queue, later>>
    BY <1>3 DEF Deadline, rx_history
  <2>2. usp'.tx = usp.tx /\ usp'.rx = usp.rx /\ usp'.tx_done = usp.tx_done
    BY <1>0, <2>1 DEF UspState
  <2> QED BY <2>1, <2>2 DEF Kept, NewTx, NewRx, NewDone, NewQueue
<1> QED BY <1>1, <1>2, <1>3

\* Test mode empties the radio or finds it as it was.
LEMMA EnterKeepsRx ==
    ASSUME NEW s, Good(s), NEW ok \in BOOLEAN
    PROVE  enter_test_mode(s, ok).rx \in {NoTask, s.rx}
<1>1. abort_p2p(s) \in UspState /\ abort_p2p(s).rx = NoTask
  BY AbortGood DEF Good
<1> QED BY <1>1 DEF enter_test_mode, UspState

\* Every step of a thread outside stop().
OtherStep(t) ==
    \/ InitStart(t) \/ SetConfig(t) \/ Apply(t) \/ Register(t) \/ SendCheck(t) \/ SendCipher(t)
    \/ SendSubmit(t) \/ ReceiveCheck(t) \/ ReceiveRadio(t) \/ ReceiveFlag(t) \/ TestRun(t)
    \/ TestReceive(t) \/ PollTake(t) \/ PollError(t) \/ PollTxCall(t) \/ PollRx(t) \/ PollRxCall(t)

LEMMA ThreadKept ==
    ASSUME TypeOK, Good(usp), Good(usp'), NEW t \in Threads, OtherStep(t)
    PROVE  Kept
<1>0. usp \in UspState /\ usp' \in UspState
  BY DEF Good
<1>1. CASE InitStart(t) \/ Apply(t) \/ PollTake(t)
  <2>1. UNCHANGED <<rx_queue, later>>
    BY <1>1 DEF InitStart, Apply, PollTake, rx_history
  <2>2. usp'.tx = usp.tx /\ usp'.rx = usp.rx /\ (usp'.tx_done => usp.tx_done)
    BY <1>0, <1>1 DEF InitStart, Apply, PollTake, open_radio, UspState
  <2> QED BY <2>1, <2>2 DEF Kept, NewTx, NewRx, NewDone, NewQueue
<1>2. CASE SendSubmit(t)
  <2>1. PICK left \in BOOLEAN, ok \in BOOLEAN : usp' = usp_send(usp, sends + 1, left, ok)
    BY <1>2 DEF SendSubmit
  <2>2. /\ usp'.tx_done = usp.tx_done /\ usp'.rx = usp.rx
        /\ usp'.tx = usp.tx \/ usp'.tx = sends + 1
    BY <1>0, <2>1 DEF usp_send, leave_test_mode, UspState
  <2>3. UNCHANGED rx_queue /\ later' = IF usp'.tx = sends + 1 THEN later \cup {"tx"} ELSE later
    BY <1>2 DEF SendSubmit
  <2> QED BY <2>2, <2>3 DEF Kept, NewTx, NewRx, NewDone, NewQueue
<1>3. CASE ReceiveRadio(t) \/ TestReceive(t)
  <2>0. \E timeout \in {arg[t], "continuous"}, left, ok \in BOOLEAN :
            usp' = usp_receive(usp, timeout, left, ok)
    <3>1. CASE ReceiveRadio(t)
      <4>1. PICK left \in BOOLEAN, ok \in BOOLEAN : usp' = usp_receive(usp, arg[t], left, ok)
        BY <3>1 DEF ReceiveRadio
      <4> QED BY <4>1, Zenon
    <3>2. CASE TestReceive(t)
      <4>1. PICK left \in BOOLEAN, ok \in BOOLEAN : usp' = usp_receive(usp, "continuous", left, ok)
        BY <3>2 DEF TestReceive
      <4> QED BY <4>1, Zenon
    <3> QED BY <1>3, <3>1, <3>2
  <2>1. PICK timeout \in {arg[t], "continuous"}, left \in BOOLEAN, ok \in BOOLEAN :
            usp' = usp_receive(usp, timeout, left, ok)
    BY <2>0
  <2>2. SameTx(usp, usp')
    BY <1>0, <2>1, ReceiveKeepsTx
  <2>3. usp'.rx_active = (usp'.rx # NoTask)
    BY DEF Good, RadioOK
  <2>4. UNCHANGED rx_queue /\ later' = IF usp'.rx_active THEN later \cup {"rx"} ELSE later
    BY <1>3 DEF ReceiveRadio, TestReceive
  <2> QED BY <2>2, <2>3, <2>4 DEF Kept, NewTx, NewRx, NewDone, NewQueue, SameTx
<1>4. CASE TestRun(t)
  <2>1. PICK ok \in BOOLEAN : usp' = enter_test_mode(usp, ok)
    BY <1>4 DEF TestRun
  <2>2. SameTx(usp, usp') \/ TxOver(usp, usp')
    BY <2>1, EnterEndsTx
  <2>3. usp'.rx \in {NoTask, usp.rx}
    BY <2>1, EnterKeepsRx
  <2>4. UNCHANGED <<rx_queue, later>>
    BY <1>4 DEF TestRun, rx_history
  <2> QED BY <2>2, <2>3, <2>4 DEF Kept, NewTx, NewRx, NewDone, NewQueue, SameTx, TxOver
<1>5. CASE PollRx(t)
  <2>1. UNCHANGED <<usp, later>> /\ (rx_queue = <<>> => rx_queue' = <<>>)
    BY <1>5 DEF PollRx, rx_history
  <2> QED BY <2>1 DEF Kept, NewTx, NewRx, NewDone, NewQueue
<1>6. CASE \/ SetConfig(t) \/ Register(t) \/ SendCheck(t) \/ SendCipher(t) \/ ReceiveCheck(t)
           \/ ReceiveFlag(t) \/ PollError(t) \/ PollTxCall(t) \/ PollRxCall(t)
  <2>1. UNCHANGED <<usp, rx_queue, later>>
    BY <1>6 DEF SetConfig, Register, SendCheck, SendCipher, ReceiveCheck, ReceiveFlag, PollError, PollTxCall,
                PollRxCall, rx_history
  <2> QED BY <2>1 DEF Kept, NewTx, NewRx, NewDone, NewQueue
<1> QED BY <1>1, <1>2, <1>3, <1>4, <1>5, <1>6 DEF OtherStep

\* A step outside stop() by a thread that respects the mutex.
LEMMA StopFrame ==
    ASSUME StopInv, Kept, started' \/ ~started,
           \A u \in Threads : /\ Stopping(u)' => pc'[u] = pc[u]
                              /\ Stopping(u) => Stopping(u)'
                              /\ pc'[u] = "apply" \/ Stopping(u)' => lock' = u
    PROVE  StopInv'
<1>1. \A u \in Threads : /\ pc'[u] = "clear" => NewTx' /\ NewRx'
                         /\ pc'[u] = "purge" => NewTx' /\ NewRx' /\ NewDone'
                         /\ pc'[u] = "stopped" => NewTx' /\ NewRx' /\ NewDone' /\ NewQueue'
  BY DEF StopInv, Kept, Stopping
<1>2. ~started' /\ (\A u \in Threads : ~Stopping(u)') => NewTx' /\ NewRx' /\ NewDone' /\ NewQueue'
  BY DEF StopInv, Kept
<1> QED BY <1>1, <1>2 DEF StopInv

LEMMA StopOther ==
    ASSUME TypeOK, Good(usp), Good(usp'), StopInv, NEW t \in Threads, OtherStep(t)
    PROVE  StopInv'
<1>0. pc \in [Threads -> Steps] /\ NoOne \notin Threads
  BY P2pAssumption DEF TypeOK
<1>1. Kept
  BY ThreadKept
<1>2. started' \/ ~started
  BY DEF OtherStep, InitStart, SetConfig, Apply, Register, SendCheck, SendCipher, SendSubmit, ReceiveCheck,
     ReceiveRadio, ReceiveFlag, TestRun, TestReceive, PollTake, PollError, PollTxCall, PollRx, PollRxCall
<1>3. /\ \A u \in Threads : u # t => pc'[u] = pc[u]
      /\ ~Stopping(t) /\ ~Stopping(t)'
  BY <1>0 DEF OtherStep, InitStart, SetConfig, Apply, Register, SendCheck, SendCipher, SendSubmit, ReceiveCheck,
     ReceiveRadio, ReceiveFlag, TestRun, TestReceive, PollTake, PollError, PollTxCall, PollRx, PollRxCall,
     Call, Goto, Return, Stay, Stopping
<1>4. \/ lock' = lock /\ (pc'[t] = "apply" => pc[t] = "apply")
      \/ lock = NoOne /\ lock' = t
      \/ pc[t] = "apply" /\ pc'[t] # "apply"
  BY <1>0 DEF OtherStep, InitStart, SetConfig, Apply, Register, SendCheck, SendCipher, SendSubmit, ReceiveCheck,
     ReceiveRadio, ReceiveFlag, TestRun, TestReceive, PollTake, PollError, PollTxCall, PollRx, PollRxCall,
     Call, Goto, Return, Stay
<1>5. ASSUME NEW u \in Threads, pc'[u] = "apply" \/ Stopping(u)' PROVE lock' = u
  <2>1. CASE u = t
    <3>1. pc'[t] = "apply"
      BY <1>3, <1>5, <2>1
    <3> QED BY <1>4, <2>1, <3>1 DEF StopInv
  <2>2. CASE u # t
    <3>1. lock = u
      BY <1>3, <1>5, <2>2 DEF StopInv, Stopping
    <3>2. lock # NoOne /\ pc[t] # "apply"
      BY <1>0, <2>2, <3>1 DEF StopInv
    <3> QED BY <1>4, <3>1, <3>2
  <2> QED BY <2>1, <2>2
<1>6. \A u \in Threads : /\ Stopping(u)' => pc'[u] = pc[u]
                         /\ Stopping(u) => Stopping(u)'
  BY <1>3 DEF Stopping
<1> QED BY <1>1, <1>2, <1>5, <1>6, StopFrame

\* The four steps of stop(): whoever takes one is the only one in stop().
LEMMA StopSteps ==
    ASSUME TypeOK, Good(usp), StopInv, NEW t \in Threads,
           StopAbort(t) \/ StopClear(t) \/ StopPurge(t) \/ StopEnd(t)
    PROVE  StopInv'
<1>0. pc \in [Threads -> Steps] /\ usp \in UspState /\ NoOne \notin Threads
  BY P2pAssumption DEF TypeOK
<1>1. \A u \in Threads : u # t => pc'[u] = pc[u] /\ pc[u] # "apply" /\ ~Stopping(u)
  <2>1. lock = NoOne \/ lock = t
    BY DEF StopInv, StopAbort, StopClear, StopPurge, StopEnd, Stopping
  <2>2. \A u \in Threads : u # t => pc'[u] = pc[u]
    BY <1>0 DEF StopAbort, StopClear, StopPurge, StopEnd, Goto, Return
  <2> QED BY <1>0, <2>1, <2>2 DEF StopInv
<1>2. \A u \in Threads : u # t => pc'[u] # "apply" /\ ~Stopping(u)'
  BY <1>1 DEF Stopping
<1>3. CASE StopAbort(t)
  <2>1. PICK left \in BOOLEAN : usp' = usp_stop(usp, left)
    BY <1>3 DEF StopAbort
  <2>2. pc'[t] = "clear" /\ lock' = t
    BY <1>0, <1>3 DEF StopAbort, Goto
  <2>3. usp'.tx = 0 /\ usp'.rx = NoTask
    BY <2>1, StopEndsTx
  <2> QED BY <1>2, <2>2, <2>3 DEF StopInv, Stopping, NewTx, NewRx
<1>4. CASE StopClear(t)
  <2>1. /\ pc[t] = "clear" /\ pc'[t] = "purge" /\ usp' = [usp EXCEPT !.tx_done = FALSE]
        /\ lock' = lock /\ UNCHANGED <<rx_queue, later>>
    BY <1>0, <1>4 DEF StopClear, Goto, rx_history
  <2>2. usp'.tx = usp.tx /\ usp'.rx = usp.rx /\ ~usp'.tx_done
    BY <1>0, <2>1 DEF UspState
  <2> QED BY <1>2, <2>1, <2>2 DEF StopInv, Stopping, NewTx, NewRx, NewDone
<1>5. CASE StopPurge(t)
  <2>1. /\ pc[t] = "purge" /\ pc'[t] = "stopped" /\ UNCHANGED <<usp, later, lock>> /\ rx_queue' = <<>>
    BY <1>0, <1>5 DEF StopPurge, Goto
  <2> QED BY <1>2, <2>1 DEF StopInv, Stopping, NewTx, NewRx, NewDone, NewQueue
<1>6. CASE StopEnd(t)
  <2>1. pc[t] = "stopped" /\ pc'[t] = "idle" /\ UNCHANGED <<usp, rx_queue, later>>
    BY <1>0, <1>6 DEF StopEnd, Return, Goto, rx_history
  <2>2. NewTx' /\ NewRx' /\ NewDone' /\ NewQueue'
    BY <2>1 DEF StopInv, NewTx, NewRx, NewDone, NewQueue
  <2> QED BY <1>2, <2>1, <2>2 DEF StopInv, Stopping
<1> QED BY <1>3, <1>4, <1>5, <1>6

LEMMA StopNext ==
    ASSUME TypeOK, Good(usp), StopInv, [Next]_vars
    PROVE  StopInv'
<1>0. Good(usp')
  BY UspStep
<1>1. ASSUME NEW t \in Threads, Thread(t) PROVE StopInv'
  BY <1>0, <1>1, StopOther, StopSteps DEF Thread, Continue, OtherStep
<1>2. CASE TxEnds \/ RxEnds \/ RxPacket \/ Deadline
  <2>1. Kept
    BY <1>2, RadioKept
  <2>2. UNCHANGED <<pc, lock, started>>
    BY <1>2 DEF TxEnds, RxEnds, RxPacket, Deadline
  <2> QED BY <2>1, <2>2, StopFrame DEF StopInv, Stopping
<1>3. CASE UNCHANGED vars
  BY <1>3 DEF vars, StopInv, Stopping, NewTx, NewRx, NewDone, NewQueue
<1> QED BY <1>1, <1>2, <1>3 DEF Next

(* For any number of client threads, any calls and any radio: what a       *)
(* stopped service still has on the radio, in tx_done or in rx_queue is of *)
(* calls that reached the radio after rzi_lora_stop() had emptied it.      *)
THEOREM StopsAreQuiet == Spec => []QuietAfterStop
<1>1. Init => StopInv
  BY DEF Init, StopInv, Stopping, NewTx, NewRx, NewDone, NewQueue
<1>2. TypeOK /\ Good(usp) /\ StopInv /\ [Next]_vars => StopInv'
  BY StopNext
<1>3. StopInv => QuietAfterStop
  BY DEF StopInv, QuietAfterStop, Emptied, NewTx, NewRx, NewDone, NewQueue
<1> QED BY <1>1, <1>2, <1>3, GoodAlways, PTL DEF Spec

-----------------------------------------------------------------------------
(* The completions of sends *)

\* The send on the air is the last one, and every completion is of an earlier one.
OrderInv ==
    /\ usp.tx # 0 => usp.tx = sends /\ usp.tx_error.send < sends
    /\ usp.tx_error.send <= sends
    /\ reports \in Seq(TxResults)
    /\ \A i \in DOMAIN reports : reports[i].send <= usp.tx_error.send
    /\ \A t \in Threads :
        pc[t] = "tx_call" => arg[t].what \in TxResults /\ arg[t].what.send <= usp.tx_error.send
    /\ arg = [t \in Threads |-> arg[t]]

Telling(t, n) == pc[t] = "tx_call" /\ arg[t].what.send = n

\* The completion in the slot is in one place, unless it is one of the repeated.
SlotInv ==
    LET n == usp.tx_error.send IN
    n \notin repeated =>
        /\ usp.tx_done => \A t \in Threads : pc[t] # "error"
        /\ \A t, u \in Threads : pc[t] = "error" /\ pc[u] = "error" => t = u
        /\ usp.tx_done \/ (\E t \in Threads : pc[t] = "error")
             => ~Reported(n) /\ \A t \in Threads : ~Telling(t, n)

\* So is every completion a poll has read.
ToldInv ==
    \A t \in Threads : \A n \in Nat :
        Telling(t, n) /\ n \notin repeated
            => ~Reported(n) /\ \A u \in Threads : Telling(u, n) => u = t

AccountInv == OrderInv /\ SlotInv /\ ToldInv /\ NothingLost /\ ReportedOnce

\* A step that touches neither the transmission nor the client's history.
LEMMA AccountSame ==
    ASSUME AccountInv, SameTx(usp, usp'), UNCHANGED tx_history, arg' = [t \in Threads |-> arg'[t]],
           \A t \in Threads :
               \/ pc'[t] = pc[t] /\ arg'[t] = arg[t]
               \/ pc[t] \notin {"error", "tx_call"} /\ pc'[t] \notin {"error", "tx_call"}
    PROVE  AccountInv'
<1>1. UNCHANGED <<sends, reports, excused, covered, repeated>>
  BY DEF tx_history
<1>2. \A n : Reported(n)' <=> Reported(n)
  BY <1>1 DEF Reported
<1>3. \A t \in Threads : \A n : Telling(t, n)' <=> Telling(t, n)
  BY DEF Telling
<1>4. \A t \in Threads : pc'[t] = "error" <=> pc[t] = "error"
  OBVIOUS
<1>5. OrderInv'
  BY <1>1 DEF AccountInv, OrderInv, SameTx
<1>6. SlotInv'
  BY <1>1, <1>2, <1>3, <1>4 DEF AccountInv, SlotInv, SameTx
<1>7. ToldInv'
  BY <1>1, <1>2, <1>3 DEF AccountInv, ToldInv
<1>8. \A n : InPoll(n)' <=> InPoll(n)
  BY DEF InPoll, SameTx
<1>9. NothingLost'
  BY <1>1, <1>2, <1>8 DEF AccountInv, NothingLost, Accounted, SameTx
<1> QED BY <1>1, <1>5, <1>6, <1>7, <1>9 DEF AccountInv, ReportedOnce

\* A transmission ends, and covers the completion that was still in the slot.
LEMMA AccountOver ==
    ASSUME TypeOK, AccountInv, TxOver(usp, usp'), Overwrite, arg' = [t \in Threads |-> arg'[t]],
           \A t \in Threads :
               \/ pc'[t] = pc[t] /\ arg'[t] = arg[t]
               \/ pc[t] \notin {"error", "tx_call"} /\ pc'[t] \notin {"error", "tx_call"}
    PROVE  AccountInv'
<1> DEFINE k == usp.tx_error.send
           reading == \E t \in Threads : pc[t] = "error"
<1>0. sends \in Nat /\ usp \in UspState /\ k \in Nat
  BY DEF TypeOK, UspState, TxResults
<1>1. /\ usp.tx = sends /\ k < sends /\ sends # 0
      /\ usp'.tx = 0 /\ usp'.tx_done /\ usp'.tx_error.send = sends
  BY <1>0 DEF TxOver, AccountInv, OrderInv
<1>2. /\ UNCHANGED <<sends, reports, excused>>
      /\ usp.tx_done \/ reading => covered' = covered \cup {k}
      /\ covered \subseteq covered'
      /\ repeated' = IF reading THEN repeated \cup {sends} ELSE repeated
  <2>1. usp.tx # 0 /\ usp'.tx # usp.tx
    BY <1>1
  <2>2. covered' = covered \cup {n \in {k} : usp.tx_done \/ reading}
    BY <2>1 DEF Overwrite
  <2>3. repeated' = repeated \cup {n \in {usp.tx} : reading}
    BY <2>1 DEF Overwrite
  <2>4. UNCHANGED <<sends, reports, excused>>
    BY DEF Overwrite
  <2> HIDE DEF reading, k
  <2>5. usp.tx_done \/ reading => covered' = covered \cup {k}
    BY <2>2
  <2>6. reading => repeated' = repeated \cup {sends}
    BY <1>1, <2>3
  <2>7. ~reading => repeated' = repeated
    BY <2>3
  <2> QED BY <2>2, <2>4, <2>5, <2>6, <2>7
<1>3. /\ \A n : Reported(n)' <=> Reported(n)
      /\ \A t \in Threads : \A n : Telling(t, n)' <=> Telling(t, n)
      /\ \A t \in Threads : pc'[t] = "error" <=> pc[t] = "error"
  BY <1>2 DEF Reported, Telling
<1>4. /\ ~Reported(sends)
      /\ \A t \in Threads : ~Telling(t, sends)
  BY <1>0, <1>1 DEF Reported, Telling, AccountInv, OrderInv, TxResults
<1>5. OrderInv'
  <2>1. \A i \in DOMAIN reports : reports[i].send <= sends
    <3> SUFFICES ASSUME NEW i \in DOMAIN reports PROVE reports[i].send <= sends
      OBVIOUS
    <3>1. reports[i] \in TxResults /\ reports[i].send <= k
      BY DEF AccountInv, OrderInv
    <3>2. reports[i].send \in Nat
      BY <3>1 DEF TxResults
    <3> HIDE DEF k
    <3> QED BY <1>0, <1>1, <3>1, <3>2
  <2>2. \A t \in Threads : pc'[t] = "tx_call" => arg'[t].what \in TxResults /\ arg'[t].what.send <= sends
    <3> SUFFICES ASSUME NEW t \in Threads, pc'[t] = "tx_call"
                 PROVE  arg'[t].what \in TxResults /\ arg'[t].what.send <= sends
      OBVIOUS
    <3>1. arg'[t] = arg[t] /\ arg[t].what \in TxResults /\ arg[t].what.send <= k
      BY DEF AccountInv, OrderInv
    <3>2. arg[t].what.send \in Nat
      BY <3>1 DEF TxResults
    <3> HIDE DEF k
    <3> QED BY <1>0, <1>1, <3>1, <3>2
  <2> QED BY <1>0, <1>1, <1>2, <2>1, <2>2 DEF AccountInv, OrderInv
<1>6. SlotInv'
  BY <1>1, <1>2, <1>3, <1>4 DEF SlotInv
<1>7. ToldInv'
  BY <1>2, <1>3 DEF AccountInv, ToldInv
<1>8. NothingLost'
  <2> SUFFICES ASSUME NEW n \in 1..sends PROVE Accounted(n)' \/ n \in covered'
    BY <1>2 DEF NothingLost
  <2>1. CASE n = usp.tx
    BY <1>1, <2>1 DEF Accounted
  <2>2. CASE n = k /\ (usp.tx_done \/ reading)
    BY <1>2, <2>2
  <2>3. CASE \E t \in Threads : Telling(t, n)
    BY <1>3, <2>3 DEF Accounted, InPoll, Telling
  <2>4. CASE Reported(n) \/ n \in excused \/ n \in covered
    BY <1>2, <1>3, <2>4 DEF Accounted
  <2> QED BY <2>1, <2>2, <2>3, <2>4 DEF AccountInv, NothingLost, Accounted, InPoll, Telling
<1>9. ReportedOnce'
  BY <1>2 DEF AccountInv, ReportedOnce
<1> QED BY <1>5, <1>6, <1>7, <1>8, <1>9 DEF AccountInv

\* A step of the calls that leave the completions alone.
LEMMA AccountCalls ==
    ASSUME TypeOK, Good(usp), AccountInv, NEW t \in Threads,
           \/ InitStart(t) \/ SetConfig(t) \/ Apply(t) \/ Register(t) \/ SendCheck(t) \/ SendCipher(t)
           \/ ReceiveCheck(t) \/ ReceiveRadio(t) \/ ReceiveFlag(t) \/ StopPurge(t) \/ StopEnd(t)
           \/ TestReceive(t) \/ PollRx(t) \/ PollRxCall(t)
    PROVE  AccountInv'
<1>0. usp \in UspState /\ pc \in [Threads -> Steps] /\ arg = [u \in Threads |-> arg[u]]
  BY DEF TypeOK, AccountInv, OrderInv
<1>1. SameTx(usp, usp')
  <2>1. CASE ReceiveRadio(t) \/ TestReceive(t)
    BY <1>0, <2>1, ReceiveKeepsTx DEF ReceiveRadio, TestReceive
  <2>2. CASE InitStart(t)
    BY <1>0, <2>2 DEF InitStart, open_radio, SameTx, UspState
  <2>3. CASE Apply(t)
    BY <1>0, <2>3 DEF Apply, SameTx, UspState
  <2>4. CASE UNCHANGED usp
    BY <2>4 DEF SameTx
  <2> QED BY <2>1, <2>2, <2>3, <2>4 DEF SetConfig, Register, SendCheck, SendCipher, ReceiveCheck, ReceiveFlag,
         StopPurge, StopEnd, PollRx, PollRxCall
<1>2. UNCHANGED tx_history
  BY DEF InitStart, SetConfig, Apply, Register, SendCheck, SendCipher, ReceiveCheck, ReceiveRadio, ReceiveFlag,
     StopPurge, StopEnd, TestReceive, PollRx, PollRxCall
<1>3. \/ UNCHANGED <<pc, arg>>
      \/ /\ \E next, v : Goto(t, next, v)
         /\ pc[t] \notin {"error", "tx_call"} /\ pc'[t] \notin {"error", "tx_call"}
  BY <1>0 DEF InitStart, SetConfig, Apply, Register, SendCheck, SendCipher, ReceiveCheck, ReceiveRadio, ReceiveFlag,
     StopPurge, StopEnd, TestReceive, PollRx, PollRxCall, Call, Goto, Return, Stay
<1>4. arg' = [u \in Threads |-> arg'[u]]
  BY <1>0, <1>3 DEF Goto
<1>5. \A u \in Threads : \/ pc'[u] = pc[u] /\ arg'[u] = arg[u]
                         \/ pc[u] \notin {"error", "tx_call"} /\ pc'[u] \notin {"error", "tx_call"}
  BY <1>0, <1>3 DEF Goto
<1> QED BY <1>1, <1>2, <1>4, <1>5, AccountSame

LEMMA AccountEnds ==
    ASSUME TypeOK, Good(usp), AccountInv, NEW t \in Threads, StopAbort(t) \/ TestRun(t)
    PROVE  AccountInv'
<1>0. pc \in [Threads -> Steps] /\ arg = [u \in Threads |-> arg[u]]
  BY DEF TypeOK, AccountInv, OrderInv
<1>1. SameTx(usp, usp') \/ TxOver(usp, usp')
  BY StopEndsTx, EnterEndsTx DEF StopAbort, TestRun
<1>2. Overwrite /\ pc[t] = "idle"
  BY DEF StopAbort, TestRun, Call
<1>3. UNCHANGED <<pc, arg>> \/ ((\E next, v : Goto(t, next, v)) /\ pc'[t] = "clear")
  BY <1>0 DEF StopAbort, TestRun, Goto, Stay
<1>4. arg' = [u \in Threads |-> arg'[u]]
  BY <1>0, <1>3 DEF Goto
<1>5. \A u \in Threads : \/ pc'[u] = pc[u] /\ arg'[u] = arg[u]
                         \/ pc[u] \notin {"error", "tx_call"} /\ pc'[u] \notin {"error", "tx_call"}
  BY <1>0, <1>2, <1>3 DEF Goto
<1>6. SameTx(usp, usp') => UNCHANGED tx_history
  BY <1>2 DEF SameTx, Overwrite, tx_history
<1> QED BY <1>1, <1>2, <1>4, <1>5, <1>6, AccountSame, AccountOver

\* A send is refused, or goes on the air as the last one.
LEMMA AccountSubmit ==
    ASSUME TypeOK, Good(usp), AccountInv, NEW t \in Threads, SendSubmit(t)
    PROVE  AccountInv'
<1>0. usp \in UspState /\ pc \in [Threads -> Steps] /\ sends \in Nat /\ usp.tx_error.send \in Nat
  BY DEF TypeOK, UspState, TxResults
<1>1. /\ pc[t] = "submit" /\ UNCHANGED <<reports, excused, covered, repeated>>
      /\ sends' = IF usp'.tx = sends + 1 THEN sends + 1 ELSE sends
      /\ pc' = [pc EXCEPT ![t] = "idle"] /\ arg' = [arg EXCEPT ![t] = NoTask]
  BY DEF SendSubmit, Return, Goto
<1>2. PICK left \in BOOLEAN, ok \in BOOLEAN : usp' = usp_send(usp, sends + 1, left, ok)
  BY DEF SendSubmit
<1>3. /\ usp'.tx_done = usp.tx_done /\ usp'.tx_error = usp.tx_error
      /\ usp'.tx = usp.tx \/ (usp'.tx = sends + 1 /\ usp.tx = 0)
  <2>1. /\ usp'.tx_done = usp.tx_done /\ usp'.tx_error = usp.tx_error
        /\ usp'.tx = usp.tx \/ (usp'.tx = sends + 1 /\ submit(usp, usp.tx = 0, ok))
    BY <1>0, <1>2 DEF usp_send, leave_test_mode, UspState
  <2> QED BY <2>1 DEF submit
<1>4. \A u \in Threads : \/ pc'[u] = pc[u] /\ arg'[u] = arg[u]
                         \/ pc[u] \notin {"error", "tx_call"} /\ pc'[u] \notin {"error", "tx_call"}
  BY <1>0, <1>1 DEF AccountInv, OrderInv
<1>5. arg' = [u \in Threads |-> arg'[u]]
  BY <1>1 DEF AccountInv, OrderInv
<1>6. CASE usp'.tx = usp.tx
  <2>1. sends' = sends
    BY <1>0, <1>1, <1>6 DEF AccountInv, OrderInv
  <2> QED BY <1>1, <1>3, <1>4, <1>5, <1>6, <2>1, AccountSame DEF SameTx, tx_history
<1>7. CASE usp'.tx = sends + 1 /\ usp.tx = 0
  <2>1. sends' = sends + 1 /\ 1..sends' = 1..sends \cup {sends'}
    BY <1>0, <1>1, <1>7
  <2>2. \A n : Reported(n)' <=> Reported(n)
    BY <1>1 DEF Reported
  <2>3. \A u \in Threads : \A n : Telling(u, n)' <=> Telling(u, n)
    BY <1>4 DEF Telling
  <2>4. \A u \in Threads : pc'[u] = "error" <=> pc[u] = "error"
    BY <1>4
  <2>5. OrderInv'
    BY <1>0, <1>1, <1>3, <1>4, <1>5, <1>7, <2>1 DEF AccountInv, OrderInv
  <2>6. SlotInv'
    BY <1>1, <1>3, <2>2, <2>3, <2>4 DEF AccountInv, SlotInv
  <2>7. ToldInv'
    BY <1>1, <2>2, <2>3 DEF AccountInv, ToldInv
  <2>8. \A n : InPoll(n)' <=> InPoll(n)
    BY <1>3, <1>4 DEF InPoll
  <2>9. NothingLost'
    <3> SUFFICES ASSUME NEW n \in 1..sends' PROVE Accounted(n)' \/ n \in covered'
      BY DEF NothingLost
    <3>1. CASE n = sends'
      BY <1>7, <2>1, <3>1 DEF Accounted
    <3>2. CASE n \in 1..sends
      <4>1. Accounted(n) \/ n \in covered
        BY <3>2 DEF AccountInv, NothingLost
      <4>2. n # usp.tx
        BY <1>0, <1>7, <3>2
      <4> QED BY <1>1, <1>3, <2>2, <2>8, <4>1, <4>2 DEF Accounted
    <3> QED BY <2>1, <3>1, <3>2
  <2> QED BY <1>1, <2>5, <2>6, <2>7, <2>9 DEF AccountInv, ReportedOnce
<1> QED BY <1>3, <1>6, <1>7

\* stop() discards the completion that waits.
LEMMA AccountClear ==
    ASSUME TypeOK, AccountInv, NEW t \in Threads, StopClear(t)
    PROVE  AccountInv'
<1>0. usp \in UspState /\ pc \in [Threads -> Steps]
  BY DEF TypeOK
<1>1. /\ pc[t] = "clear" /\ UNCHANGED <<sends, reports, covered, repeated>>
      /\ excused' = excused \cup IF usp.tx_done THEN {usp.tx_error.send} ELSE {}
      /\ usp' = [usp EXCEPT !.tx_done = FALSE]
      /\ pc' = [pc EXCEPT ![t] = "purge"] /\ arg' = [arg EXCEPT ![t] = arg[t]]
  BY DEF StopClear, Goto
<1>2. usp'.tx = usp.tx /\ usp'.tx_error = usp.tx_error /\ ~usp'.tx_done
  BY <1>0, <1>1 DEF UspState
<1>3. /\ \A n : Reported(n)' <=> Reported(n)
      /\ \A u \in Threads : \A n : Telling(u, n)' <=> Telling(u, n)
      /\ \A u \in Threads : pc'[u] = "error" <=> pc[u] = "error"
      /\ arg' = [u \in Threads |-> arg'[u]] /\ arg' = arg
  BY <1>0, <1>1 DEF Reported, Telling, AccountInv, OrderInv
<1>4. OrderInv'
  BY <1>0, <1>1, <1>2, <1>3 DEF AccountInv, OrderInv
<1>5. SlotInv'
  BY <1>1, <1>2, <1>3 DEF AccountInv, SlotInv
<1>6. ToldInv'
  BY <1>1, <1>3 DEF AccountInv, ToldInv
<1>7. \A n : InPoll(n)' <=> InPoll(n)
  BY <1>0, <1>1, <1>2, <1>3 DEF InPoll
<1>8. NothingLost'
  BY <1>1, <1>2, <1>3, <1>7 DEF AccountInv, NothingLost, Accounted
<1> QED BY <1>1, <1>4, <1>5, <1>6, <1>8 DEF AccountInv, ReportedOnce

\* A poll takes the completion ...
LEMMA AccountTake ==
    ASSUME TypeOK, AccountInv, NEW t \in Threads, PollTake(t)
    PROVE  AccountInv'
<1>0. usp \in UspState /\ pc \in [Threads -> Steps] /\ arg = [u \in Threads |-> arg[u]]
  BY DEF TypeOK, AccountInv, OrderInv
<1>1. /\ pc[t] = "idle" /\ UNCHANGED <<sends, reports, excused, covered, repeated>>
      /\ usp' = [usp EXCEPT !.tx_done = FALSE]
      /\ pc' = [pc EXCEPT ![t] = IF usp.tx_done THEN "error" ELSE "drain"]
      /\ arg' = [arg EXCEPT ![t] = NoTask]
  BY DEF PollTake, Goto, tx_history
<1>2. usp'.tx = usp.tx /\ usp'.tx_error = usp.tx_error /\ ~usp'.tx_done
  BY <1>0, <1>1 DEF UspState
<1>3. /\ \A n : Reported(n)' <=> Reported(n)
      /\ \A u \in Threads : \A n : Telling(u, n)' <=> Telling(u, n)
      /\ \A u \in Threads : u # t => pc'[u] = pc[u]
      /\ pc'[t] = "error" <=> usp.tx_done
      /\ arg' = [u \in Threads |-> arg'[u]]
  BY <1>0, <1>1 DEF Reported, Telling
<1>4. OrderInv'
  BY <1>0, <1>1, <1>2, <1>3 DEF AccountInv, OrderInv
<1>5. SlotInv'
  BY <1>1, <1>2, <1>3 DEF AccountInv, SlotInv
<1>6. ToldInv'
  BY <1>1, <1>3 DEF AccountInv, ToldInv
<1>7. \A n : InPoll(n)' <=> InPoll(n) \/ (usp.tx_done /\ usp.tx_error.send = n)
  BY <1>0, <1>1, <1>2, <1>3 DEF InPoll
<1>8. NothingLost'
  BY <1>1, <1>2, <1>3, <1>7 DEF AccountInv, NothingLost, Accounted
<1> QED BY <1>1, <1>4, <1>5, <1>6, <1>8 DEF AccountInv, ReportedOnce

\* ... reads its error, and finds a callback or none ...
LEMMA AccountError ==
    ASSUME TypeOK, AccountInv, NEW t \in Threads, PollError(t)
    PROVE  AccountInv'
<1> DEFINE k == usp.tx_error.send
<1>0. usp \in UspState /\ pc \in [Threads -> Steps] /\ arg = [u \in Threads |-> arg[u]]
  BY DEF TypeOK, AccountInv, OrderInv
<1>a. usp.tx_error \in TxResults /\ k \in Nat
  BY <1>0 DEF UspState, TxResults
<1>1. pc[t] = "error" /\ UNCHANGED <<usp, sends, reports, covered, repeated>>
  BY DEF PollError
<1>2. \A n : Reported(n)' <=> Reported(n)
  BY <1>1 DEF Reported
<1>3. /\ \A u \in Threads : u # t => pc'[u] = pc[u] /\ arg'[u] = arg[u]
      /\ arg' = [u \in Threads |-> arg'[u]]
  BY <1>0 DEF PollError, Goto
<1>4. CASE callbacks = NoTable
  <2>1. pc'[t] = "drain" /\ excused' = excused \cup {k}
    BY <1>0, <1>4 DEF PollError, Goto
  <2>2. \A u \in Threads : \A n : Telling(u, n)' <=> Telling(u, n)
    BY <1>1, <1>3, <2>1 DEF Telling
  <2>3. OrderInv'
    BY <1>1, <1>3, <2>1 DEF AccountInv, OrderInv
  <2>4. SlotInv'
    BY <1>1, <1>2, <1>3, <2>1, <2>2 DEF AccountInv, SlotInv
  <2>5. ToldInv'
    BY <1>1, <1>2, <2>2 DEF AccountInv, ToldInv
  <2>6. \A n : InPoll(n) => InPoll(n)' \/ n = k
    BY <1>1, <1>3 DEF InPoll
  <2>7. NothingLost'
    BY <1>1, <1>2, <2>1, <2>6 DEF AccountInv, NothingLost, Accounted
  <2> QED BY <1>1, <2>3, <2>4, <2>5, <2>7 DEF AccountInv, ReportedOnce
<1>5. CASE callbacks # NoTable
  <2>1. pc'[t] = "tx_call" /\ arg'[t].what = usp.tx_error /\ excused' = excused
    BY <1>0, <1>5 DEF PollError, Goto
  <2>2. \A n : Telling(t, n)' <=> n = k
    BY <2>1 DEF Telling
  <2>3. \A u \in Threads : u # t => \A n : Telling(u, n)' <=> Telling(u, n)
    BY <1>3 DEF Telling
  <2>4. k \notin repeated => /\ ~usp.tx_done /\ ~Reported(k)
                             /\ \A u \in Threads : ~Telling(u, k) /\ (pc[u] = "error" => u = t)
    BY <1>1 DEF AccountInv, SlotInv
  <2>5. OrderInv'
    BY <1>1, <1>3, <1>a, <2>1 DEF AccountInv, OrderInv
  <2>6. SlotInv'
    <3> HIDE DEF k
    <3> SUFFICES ASSUME k \notin repeated
                 PROVE  ~usp'.tx_done /\ \A u \in Threads : pc'[u] # "error"
      BY <1>1 DEF SlotInv, k
    <3> QED BY <1>1, <1>3, <2>1, <2>4
  <2>7. ToldInv'
    <3> SUFFICES ASSUME NEW u \in Threads, NEW n \in Nat, Telling(u, n)', n \notin repeated
                 PROVE  ~Reported(n)' /\ \A w \in Threads : Telling(w, n)' => w = u
      BY <1>1 DEF ToldInv
    <3>1. CASE n = k
      BY <1>2, <2>2, <2>3, <2>4, <3>1
    <3>2. CASE n # k
      BY <1>2, <2>2, <2>3, <3>2 DEF AccountInv, ToldInv
    <3> QED BY <3>1, <3>2
  <2>8. \A n : InPoll(n) => InPoll(n)'
    BY <1>1, <1>3, <2>1 DEF InPoll
  <2>9. NothingLost'
    BY <1>1, <1>2, <2>1, <2>8 DEF AccountInv, NothingLost, Accounted
  <2> QED BY <1>1, <2>5, <2>6, <2>7, <2>9 DEF AccountInv, ReportedOnce
<1> QED BY <1>4, <1>5

\* ... and tells the client.
LEMMA AccountTell ==
    ASSUME TypeOK, AccountInv, NEW t \in Threads, PollTxCall(t)
    PROVE  AccountInv'
<1> DEFINE k == arg[t].what.send
<1>0. pc \in [Threads -> Steps] /\ arg = [u \in Threads |-> arg[u]] /\ reports \in Seq(TxResults)
  BY DEF TypeOK, AccountInv, OrderInv
<1>1. /\ pc[t] = "tx_call" /\ UNCHANGED <<usp, sends, excused, covered, repeated>>
      /\ reports' = Append(reports, arg[t].what)
  BY DEF PollTxCall
<1>2. arg[t].what \in TxResults /\ k <= usp.tx_error.send /\ k \in Nat
  BY <1>1 DEF AccountInv, OrderInv, TxResults
<1>3. /\ \A u \in Threads : u # t => pc'[u] = pc[u] /\ arg'[u] = arg[u]
      /\ arg' = [u \in Threads |-> arg'[u]] /\ pc'[t] = "drain"
  BY <1>0 DEF PollTxCall, Goto
<1>4. /\ DOMAIN reports' = DOMAIN reports \cup {Len(reports) + 1} /\ Len(reports) + 1 \notin DOMAIN reports
      /\ \A i \in DOMAIN reports : reports'[i] = reports[i]
      /\ reports'[Len(reports) + 1] = arg[t].what /\ reports' \in Seq(TxResults)
  BY <1>0, <1>1, <1>2
<1>5. \A n : Reported(n)' <=> Reported(n) \/ n = k
  BY <1>4 DEF Reported
<1>6. /\ \A u \in Threads : u # t => \A n : Telling(u, n)' <=> Telling(u, n)
      /\ \A n : ~Telling(t, n)' /\ (Telling(t, n) <=> n = k)
  BY <1>1, <1>3 DEF Telling
<1>7. k \notin repeated => ~Reported(k) /\ \A u \in Threads : Telling(u, k) => u = t
  BY <1>2, <1>6 DEF AccountInv, ToldInv
<1>8. OrderInv'
  BY <1>1, <1>2, <1>3, <1>4 DEF AccountInv, OrderInv
<1>9. SlotInv'
  <2> DEFINE n == usp.tx_error.send
  <2>1. \A u \in Threads : pc'[u] = "error" <=> pc[u] = "error"
    BY <1>1, <1>3
  <2>2. n \notin repeated /\ (usp.tx_done \/ \E u \in Threads : pc[u] = "error") => k # n
    BY <1>6 DEF AccountInv, SlotInv
  <2> QED BY <1>1, <1>5, <1>6, <2>1, <2>2 DEF AccountInv, SlotInv
<1>10. ToldInv'
  <2> SUFFICES ASSUME NEW u \in Threads, NEW n \in Nat, Telling(u, n)', n \notin repeated
               PROVE  ~Reported(n)' /\ \A w \in Threads : Telling(w, n)' => w = u
    BY <1>1 DEF ToldInv
  <2>1. u # t /\ Telling(u, n)
    BY <1>6
  <2>2. n # k
    BY <1>7, <2>1
  <2> QED BY <1>5, <1>6, <2>1, <2>2 DEF AccountInv, ToldInv
<1>11. NothingLost'
  <2>1. \A n : InPoll(n) => InPoll(n)' \/ Reported(n)'
    BY <1>1, <1>3, <1>5 DEF InPoll
  <2> QED BY <1>1, <1>5, <2>1 DEF AccountInv, NothingLost, Accounted
<1>12. ReportedOnce'
  <2>1. k \notin repeated => \A i \in DOMAIN reports : reports[i].send # k
    BY <1>7 DEF Reported
  <2> QED BY <1>1, <1>4, <2>1 DEF AccountInv, ReportedOnce
<1> QED BY <1>8, <1>9, <1>10, <1>11, <1>12 DEF AccountInv

LEMMA AccountNext ==
    ASSUME TypeOK, Good(usp), AccountInv, [Next]_vars
    PROVE  AccountInv'
<1>0. usp \in UspState
  BY DEF TypeOK
<1>1. ASSUME NEW t \in Threads, Thread(t) PROVE AccountInv'
  BY <1>1, AccountCalls, AccountEnds, AccountSubmit, AccountClear, AccountTake, AccountError, AccountTell
     DEF Thread, Continue
<1>2. CASE TxEnds
  <2>1. TxOver(usp, usp') /\ UNCHANGED <<pc, arg>> /\ Overwrite
    BY <1>0, <1>2 DEF TxEnds, on_tx_done, TxOver, UspState
  <2>2. arg' = [t \in Threads |-> arg'[t]]
    BY <2>1 DEF AccountInv, OrderInv
  <2> QED BY <2>1, <2>2, AccountOver
<1>3. CASE RxEnds \/ RxPacket \/ Deadline \/ UNCHANGED vars
  <2>1. SameTx(usp, usp')
    <3>1. CASE RxEnds \/ RxPacket
      BY <1>0, <3>1, RxDoneKeepsTx DEF RxEnds, RxPacket
    <3>2. CASE Deadline
      BY <1>0, <3>2 DEF Deadline, SameTx, UspState
    <3>3. CASE UNCHANGED vars
      BY <3>3 DEF vars, SameTx
    <3> QED BY <1>3, <3>1, <3>2, <3>3
  <2>2. UNCHANGED <<pc, arg>> /\ UNCHANGED tx_history
    BY <1>3 DEF RxEnds, RxPacket, Deadline, vars, tx_history
  <2>3. arg' = [t \in Threads |-> arg'[t]]
    BY <2>2 DEF AccountInv, OrderInv
  <2> QED BY <2>1, <2>2, <2>3, AccountSame
<1> QED BY <1>1, <1>2, <1>3 DEF Next

(* For any number of clients that send, stop, test and poll without        *)
(* waiting for each other, and however the radio ends their transmissions: *)
(* a completion is lost only when a later one overwrote it before a poll   *)
(* had read it, and told twice only when it came while a poll was reading. *)
THEOREM SendsAreAccounted == Spec => []SendsAccounted
<1>1. Init => AccountInv
  <2> SUFFICES ASSUME Init PROVE AccountInv
    OBVIOUS
  <2>1. /\ usp.tx = 0 /\ ~usp.tx_done /\ usp.tx_error.send = 0 /\ \A t \in Threads : pc[t] = "idle"
        /\ reports = <<>> /\ sends = 0 /\ arg = [t \in Threads |-> arg[t]]
    BY DEF Init
  <2>2. reports \in Seq(TxResults) /\ DOMAIN reports = {} /\ 1..sends = {}
    BY <2>1
  <2> QED BY <2>1, <2>2
       DEF AccountInv, OrderInv, SlotInv, ToldInv, Telling, NothingLost, ReportedOnce
<1>2. TypeOK /\ Good(usp) /\ AccountInv /\ [Next]_vars => AccountInv'
  BY AccountNext
<1>3. AccountInv => SendsAccounted
  BY DEF AccountInv, SendsAccounted
<1> QED BY <1>1, <1>2, <1>3, GoodAlways, PTL DEF Spec
=============================================================================
