------------------------- MODULE LorawanServiceProofs -------------------------
(***************************************************************************)
(* Proofs about LorawanService for every number of threads, every queue    *)
(* size, every set of operations and every retry limit.                    *)
(***************************************************************************)
EXTENDS LorawanService, TLAPS

-----------------------------------------------------------------------------
(* What the helpers preserve *)

\* The locals of an idle thread are well typed.
LEMMA NoLocType == NoLoc \in Locals
BY ServiceAssumption DEF NoLoc, Locals

\* publish() never overruns the queue, and only an actor can be dropping.
LEMMA PublishType ==
    ASSUME QueueOK, NEW a \in Actors, NEW e \in Events, publish(a, e),
           overflow' \in BOOLEAN, event' \in Events \cup {None}, told' \in Network \cup {None}
    PROVE  QueueOK'
<1>1. CASE Len(queue) < QueueSize
  <2>1. queue' = Append(queue, e) /\ dropping' = dropping /\ lost' = lost
    BY <1>1 DEF publish
  <2>2. queue' \in Seq(Events) /\ Len(queue') = Len(queue) + 1
    BY <2>1 DEF QueueOK
  <2> QED BY <1>1, <2>1, <2>2, ServiceAssumption DEF QueueOK
<1>2. CASE ~(Len(queue) < QueueSize)
  BY <1>2 DEF publish, QueueOK
<1> QED BY <1>1, <1>2

\* What set_bytes() does to the locals of the other threads: it marks a raced begin_join().
LEMMA StoreFields ==
    ASSUME ControlOK, NEW c \in Creds, StoreCred(c), NEW u \in Threads
    PROVE  /\ loc'[u].start = loc[u].start /\ loc'[u].att = loc[u].att
           /\ loc'[u].cfg = loc[u].cfg /\ loc'[u].then = loc[u].then
           /\ loc'[u].raced <=> loc[u].raced \/ (pc[u] \in Reading /\ c # cred)
           /\ loc'[u] \in Locals
<1>1. loc[u] \in Locals BY DEF ControlOK
<1> DEFINE r == loc[u].raced \/ (pc[u] \in Reading /\ c # cred)
<1>2. loc'[u] = [loc[u] EXCEPT !.raced = r] BY Zenon DEF StoreCred
<1>3. r \in BOOLEAN OBVIOUS
<1> HIDE DEF r
<1>4. /\ loc'[u].start = loc[u].start /\ loc'[u].att = loc[u].att
      /\ loc'[u].cfg = loc[u].cfg /\ loc'[u].then = loc[u].then
      /\ loc'[u].raced = r /\ loc'[u] \in Locals
  BY <1>1, <1>2, <1>3 DEF Locals
<1> QED BY <1>4, Zenon DEF r

\* The marked locals are well-typed.
LEMMA StoreType ==
    ASSUME ControlOK, NEW c \in Creds, StoreCred(c)
    PROVE  loc' \in [Threads -> Locals]
<1>1. \A u \in Threads : loc'[u] \in Locals BY StoreFields
<1>2. loc' = [u \in Threads |-> loc'[u]] BY Zenon DEF StoreCred
<1> QED BY <1>1, <1>2

\* A thread that moves to one of its labels with well-typed locals keeps control typed.
LEMMA ThreadControl ==
    ASSUME ControlOK, NEW t \in Threads, NEW l \in ThreadLabels, NEW x,
           x \in [Threads -> Locals], GotoWith(t, l, x)
    PROVE  ControlOK'
<1>1. t # Disp BY ServiceAssumption
<1> QED BY <1>1 DEF ControlOK, GotoWith

\* So does one that keeps its locals or forgets them.
LEMMA ThreadGoto ==
    ASSUME ControlOK, NEW t \in Threads, NEW l \in ThreadLabels, Goto(t, l)
    PROVE  ControlOK'
<1> DEFINE x == IF l = "idle" THEN [loc EXCEPT ![t] = NoLoc] ELSE loc
<1>1. x \in [Threads -> Locals] BY NoLocType DEF ControlOK
<1>2. GotoWith(t, l, x) BY DEF Goto
<1> HIDE DEF x
<1> QED BY <1>1, <1>2, ThreadControl

\* The dispatcher keeps no locals of a call.
LEMMA DispGoto ==
    ASSUME ControlOK, NEW l \in DispLabels, Goto(Disp, l)
    PROVE  ControlOK'
<1>1. l # "idle" BY DEF DispLabels
<1>2. \A t \in Threads : t # Disp BY ServiceAssumption
<1> QED BY <1>1, <1>2 DEF ControlOK, Goto, GotoWith

-----------------------------------------------------------------------------
(* Type correctness *)

\* Installing the handler, or the modem engine, answers a reset with one event.
LEMMA ResetType ==
    ASSUME QueueOK, NEW a \in Actors, HandleReset(a),
           UNCHANGED <<overflow, event, told>>
    PROVE  QueueOK' /\ ready' \in BOOLEAN /\ tx_pending' \in BOOLEAN
<1>1. PICK e \in Events : publish(a, e)
  BY DEF HandleReset, Events, Network, ReadyEvents
<1>2. QueueOK'
  <2>1. overflow' \in BOOLEAN /\ event' \in Events \cup {None} /\ told' \in Network \cup {None}
    BY DEF QueueOK
  <2> QED BY <1>1, <2>1, PublishType
<1> QED BY <1>2 DEF HandleReset

\* Every step of an application thread keeps the types.
LEMMA ThreadType ==
    ASSUME TypeOK, NEW t \in Threads, ThreadNext(t)
    PROVE  TypeOK'
<1> USE DEF TypeOK
<1>a. t \in Actors /\ t # Disp
  BY ServiceAssumption DEF Actors
<1>b. \A l \in {"idle", "publish_starting", "backend_start", "on_started", "publish_stopped",
        "policy", "get_attempts", "build_config", "cas", "set_retries", "own", "publish_joining",
        "backend_join", "was_active", "clear_active", "clear_retries", "disown", "is_joined",
        "stop_leave", "publish_ready", "send"} : l \in ThreadLabels
  BY DEF ThreadLabels
<1>c. {"READY", "STATE_READY", "JOINED", "JOIN_FAILED", Other} \subseteq Events
  BY DEF Events, Network, ReadyEvents
<1>1. CASE InitCall(t)
  <2>1. ControlOK' BY <1>1, <1>b, ThreadGoto DEF InitCall
  <2> QED BY <1>1, <2>1 DEF InitCall, ServiceOK, QueueOK, BackendOK, service, events, backend
<1>2. CASE InitPublish(t)
  <2>1. ControlOK' BY <1>2, <1>b, ThreadGoto DEF InitPublish
  <2>2. QueueOK' BY <1>2, <1>a, <1>c, PublishType DEF InitPublish, QueueOK
  <2> QED BY <1>2, <2>1, <2>2 DEF InitPublish, ServiceOK, BackendOK, service, backend
<1>3. CASE InitStart(t)
  <2>1. ControlOK' BY <1>3, <1>b, ThreadGoto DEF InitStart
  <2>2. QueueOK' /\ ready' \in BOOLEAN /\ tx_pending' \in BOOLEAN
    <3>1. CASE modem.state = "off"
      BY <1>3, <3>1 DEF InitStart, QueueOK, BackendOK, events
    <3>2. CASE modem.state # "off"
      BY <1>3, <3>2, <1>a, ResetType DEF InitStart
    <3> QED BY <3>1, <3>2
  <2> QED BY <1>3, <2>1, <2>2 DEF InitStart, ServiceOK, BackendOK, service
<1>4. CASE InitOnStarted(t)
  <2>1. ControlOK' BY <1>4, <1>b, ThreadGoto DEF InitOnStarted
  <2> QED BY <1>4, <2>1 DEF InitOnStarted, ServiceOK, QueueOK, BackendOK, service, events, backend
<1>5. CASE InitFails(t)
  <2>1. ControlOK' BY <1>5, <1>b, ThreadGoto DEF InitFails
  <2> QED BY <1>5, <2>1, ZenonT(60) DEF InitFails, ServiceOK, QueueOK, BackendOK, service, events, backend
<1>6. CASE InitStopped(t)
  <2>1. ControlOK' BY <1>6, <1>b, ThreadGoto DEF InitStopped
  <2>2. QueueOK' BY <1>6, <1>a, <1>c, PublishType DEF InitStopped, QueueOK
  <2> QED BY <1>6, <2>1, <2>2 DEF InitStopped, ServiceOK, BackendOK, service, backend
<1>7. CASE \E start \in {"start", "stop", "keep"}, att \in Attempts \cup {Keep} : JoinCall(t, start, att)
  <2>1. PICK start \in {"start", "stop", "keep"}, att \in Attempts \cup {Keep} : JoinCall(t, start, att)
    BY <1>7
  <2> DEFINE x == [loc EXCEPT ![t] = [NoLoc EXCEPT !.start = start, !.att = att]]
  <2>2. att \in -1..255 BY ServiceAssumption DEF Keep
  <2>3. x \in [Threads -> Locals] BY <2>2, NoLocType DEF ControlOK, Locals
  <2>4. GotoWith(t, "policy", x) BY <2>1 DEF JoinCall
  <2> HIDE DEF x
  <2>5. ControlOK' BY <2>3, <2>4, <1>b, ThreadControl
  <2> QED BY <2>1, <2>5 DEF JoinCall, ServiceOK, QueueOK, BackendOK, service, events, backend
<1>8. CASE JoinPolicy(t)
  <2>1. [loc EXCEPT ![t] = NoLoc] \in [Threads -> Locals] BY NoLocType DEF ControlOK
  <2>2. PICK l \in ThreadLabels : GotoWith(t, l, [loc EXCEPT ![t] = NoLoc])
    BY <1>8, <1>b DEF JoinPolicy
  <2>3. ControlOK' BY <2>1, <2>2, ThreadControl
  <2>4. attempts' \in 0..255
    BY <1>8 DEF JoinPolicy, ControlOK, Locals, ServiceOK, Keep
  <2> QED BY <1>8, <2>3, <2>4 DEF JoinPolicy, ServiceOK, QueueOK, BackendOK, events, backend
<1>9. CASE JoinPolicyFails(t)
  <2>1. ControlOK' BY <1>9, <1>b, ThreadGoto DEF JoinPolicyFails
  <2> QED BY <1>9, <2>1 DEF JoinPolicyFails, ServiceOK, QueueOK, BackendOK, service, events, backend
<1>10. CASE BeginReadFails(t)
  <2>1. ControlOK' BY <1>10, <1>b, ThreadGoto DEF BeginReadFails
  <2> QED BY <1>10, <2>1 DEF BeginReadFails, ServiceOK, QueueOK, BackendOK, service, events, backend
<1>11. CASE BeginAttempts(t)
  <2> DEFINE x == [loc EXCEPT ![t].att = attempts]
  <2>1. x \in [Threads -> Locals] BY DEF ControlOK, ServiceOK, Locals
  <2>2. GotoWith(t, "build_config", x) BY <1>11 DEF BeginAttempts
  <2> HIDE DEF x
  <2>3. ControlOK' BY <2>1, <2>2, <1>b, ThreadControl
  <2> QED BY <1>11, <2>3 DEF BeginAttempts, ServiceOK, QueueOK, BackendOK, service, events, backend
<1>12. CASE BeginConfig(t)
  <2> DEFINE x == [loc EXCEPT ![t].cfg = cred]
  <2>1. x \in [Threads -> Locals] BY DEF ControlOK, ServiceOK, Locals
  <2>2. GotoWith(t, "cas", x) BY <1>12 DEF BeginConfig
  <2> HIDE DEF x
  <2>3. ControlOK' BY <2>1, <2>2, <1>b, ThreadControl
  <2> QED BY <1>12, <2>3 DEF BeginConfig, ServiceOK, QueueOK, BackendOK, service, events, backend
<1>13. CASE BeginCas(t)
  <2>1. ControlOK' BY <1>13, <1>b, ThreadGoto DEF BeginCas
  <2> QED BY <1>13, <2>1 DEF BeginCas, ServiceOK, QueueOK, BackendOK, service, events, backend
<1>14. CASE BeginRetries(t)
  <2>1. ControlOK' BY <1>14, <1>b, ThreadGoto DEF BeginRetries
  <2>2. retries' \in -1..255 BY <1>14 DEF BeginRetries, ControlOK, Locals
  <2> QED BY <1>14, <2>1, <2>2 DEF BeginRetries, ServiceOK, QueueOK, BackendOK, events, backend
<1>15. CASE BeginOwn(t)
  <2>1. ControlOK' BY <1>15, <1>b, ThreadGoto DEF BeginOwn
  <2> QED BY <1>15, <2>1 DEF BeginOwn, ServiceOK, QueueOK, BackendOK, service, events, backend
<1>16. CASE BeginPublish(t)
  <2>1. ControlOK' BY <1>16, <1>b, ThreadGoto DEF BeginPublish
  <2>2. QueueOK' BY <1>16, <1>a, <1>c, PublishType DEF BeginPublish, QueueOK
  <2> QED BY <1>16, <2>1, <2>2 DEF BeginPublish, ServiceOK, BackendOK, service, backend
<1>17. CASE BeginJoin(t)
  <2>1. ControlOK' BY <1>17, <1>b, ThreadGoto DEF BeginJoin
  <2>2. loc[t].cfg \in Creds /\ loc[t].raced \in BOOLEAN BY DEF ControlOK, Locals
  <2>3. modem' = [state |-> "joining", tx |-> modem.tx, cred |-> loc[t].cfg, fails |-> 0,
                  raced |-> loc[t].raced]
    BY <1>17 DEF BeginJoin, BackendOK
  <2>4. modem.tx \in BOOLEAN BY DEF BackendOK
  <2>5. 0 \in 0..MaxFails BY ServiceAssumption
  <2>6. modem' \in [state : ModemStates, tx : BOOLEAN, cred : Creds, fails : 0..MaxFails,
                  raced : BOOLEAN]
    BY <2>2, <2>3, <2>4, <2>5 DEF ModemStates
  <2>7. BackendOK' BY <1>17, <2>6 DEF BeginJoin, BackendOK
  <2> QED BY <1>17, <2>1, <2>7 DEF BeginJoin, ServiceOK, QueueOK, service, events
<1>18. CASE BeginJoinFails(t)
  <2> DEFINE x == [loc EXCEPT ![t].then = "publish_ready"]
  <2>1. x \in [Threads -> Locals] BY DEF ControlOK, ServiceOK, Locals
  <2>2. GotoWith(t, "clear_active", x) BY <1>18 DEF BeginJoinFails
  <2> HIDE DEF x
  <2>3. ControlOK' BY <2>1, <2>2, <1>b, ThreadControl
  <2> QED BY <1>18, <2>3 DEF BeginJoinFails, ServiceOK, QueueOK, BackendOK, service, events, backend
<1>19. CASE ClearActive(t)
  <2>1. ControlOK' BY <1>19, <1>b, ThreadGoto DEF ClearActive
  <2> QED BY <1>19, <2>1, ZenonT(60) DEF ClearActive, ServiceOK, QueueOK, BackendOK, service, events, backend
<1>20. CASE ClearRetries(t)
  <2>1. ControlOK' BY <1>20, <1>b, ThreadGoto DEF ClearRetries
  <2> QED BY <1>20, <2>1 DEF ClearRetries, ServiceOK, QueueOK, BackendOK, service, events, backend
<1>21. CASE Disown(t)
  <2>1. loc[t].then \in ThreadLabels BY <1>b DEF ControlOK, Locals
  <2>2. Goto(t, loc[t].then) BY <1>21, <1>a DEF Disown
  <2>3. ControlOK' BY <2>1, <2>2, ThreadGoto
  <2> QED BY <1>21, <2>3, ZenonT(60) DEF Disown, ServiceOK, QueueOK, BackendOK, events, backend
<1>22. CASE StopRead(t)
  <2> DEFINE x == [loc EXCEPT ![t].then = IF active THEN "is_joined" ELSE "idle"]
  <2>1. x \in [Threads -> Locals] BY DEF ControlOK, ServiceOK, Locals
  <2>2. GotoWith(t, "clear_active", x) BY <1>22 DEF StopRead
  <2> HIDE DEF x
  <2>3. ControlOK' BY <2>1, <2>2, <1>b, ThreadControl
  <2> QED BY <1>22, <2>3 DEF StopRead, ServiceOK, QueueOK, BackendOK, service, events, backend
<1>23. CASE StopIsJoined(t)
  <2>1. ControlOK' BY <1>23, <1>b, ThreadGoto DEF StopIsJoined
  <2> QED BY <1>23, <2>1 DEF StopIsJoined, ServiceOK, QueueOK, BackendOK, service, events, backend
<1>24. CASE StopLeave(t)
  <2>1. CASE Leave(t, "stop_leave", "publish_ready")
    <3>1. ControlOK' BY <2>1, <1>b, ThreadGoto DEF Leave
    <3>2. BackendOK' BY <2>1 DEF Leave, ModemLeave, BackendOK, ModemStates
    <3> QED BY <2>1, <3>1, <3>2 DEF Leave, ServiceOK, QueueOK, service, events
  <2>2. CASE LeaveFails(t, "stop_leave", "idle")
    <3>1. ControlOK' BY <2>2, <1>b, ThreadGoto DEF LeaveFails
    <3> QED BY <2>2, <3>1 DEF LeaveFails, ServiceOK, QueueOK, BackendOK, service, events, backend
  <2> QED BY <1>24, <2>1, <2>2 DEF StopLeave
<1>25. CASE LeaveCall(t)
  <2>1. CASE Leave(t, "idle", "publish_ready")
    <3>1. ControlOK' BY <2>1, <1>b, ThreadGoto DEF Leave
    <3>2. BackendOK' BY <2>1 DEF Leave, ModemLeave, BackendOK, ModemStates
    <3> QED BY <2>1, <3>1, <3>2 DEF Leave, ServiceOK, QueueOK, service, events
  <2> QED BY <1>25, <2>1 DEF LeaveCall
<1>26. CASE PublishReady(t)
  <2>1. ControlOK' BY <1>26, <1>b, ThreadGoto DEF PublishReady
  <2>2. QueueOK' BY <1>26, <1>a, <1>c, PublishType DEF PublishReady, QueueOK
  <2> QED BY <1>26, <2>1, <2>2 DEF PublishReady, ServiceOK, BackendOK, service, backend
<1>27. CASE SendCall(t)
  <2>1. ControlOK' BY <1>27, <1>b, ThreadGoto DEF SendCall
  <2> QED BY <1>27, <2>1 DEF SendCall, ServiceOK, QueueOK, BackendOK, service, events, backend
<1>28. CASE Send(t)
  <2>1. ControlOK' BY <1>28, <1>b, ThreadGoto DEF Send
  <2>2. BackendOK' BY <1>28 DEF Send, BackendOK
  <2> QED BY <1>28, <2>1, <2>2 DEF Send, ServiceOK, QueueOK, service, events
<1>29. CASE \E c \in Creds : SetCred(t, c)
  <2>1. PICK c \in Creds : SetCred(t, c) BY <1>29
  <2>2. ControlOK' BY <2>1, StoreType DEF SetCred, ControlOK
  <2> QED BY <2>1, <2>2 DEF SetCred, StoreCred, ServiceOK, QueueOK, BackendOK, events, backend
<1>30. CASE InitRegionFails(t)
  <2>1. ControlOK' BY <1>30, <1>b, ThreadGoto DEF InitRegionFails
  <2> QED BY <1>30, <2>1, ZenonT(60) DEF InitRegionFails, ServiceOK, QueueOK, BackendOK, service, events, backend
<1> QED BY <1>1, <1>2, <1>3, <1>4, <1>5, <1>6, <1>7, <1>8, <1>9, <1>10, <1>11, <1>12, <1>13, <1>14, <1>15, <1>16, <1>17, <1>18, <1>19, <1>20, <1>21, <1>22, <1>23, <1>24, <1>25, <1>26, <1>27, <1>28, <1>29, <1>30 DEF ThreadNext

\* Every step of the dispatcher keeps the types.
LEMMA DispType ==
    ASSUME TypeOK, CounterOK, DispNext
    PROVE  TypeOK'
<1> USE DEF TypeOK
<1>a. Disp \in Actors
  BY DEF Actors
<1>b. \A l \in {"get", "swallow", "check_retries", "decrement", "clear_active", "clear_retries",
        "disown", "limit_leave", "publish_ready", "deliver", "check_overflow",
        "deliver_overflow"} : l \in DispLabels
  BY DEF DispLabels
<1>c. {"READY", "STATE_READY", "JOINED", "JOIN_FAILED", Other} \subseteq Events
  BY DEF Events, Network, ReadyEvents
<1>1. CASE DispGet
  <2>1. ControlOK' BY <1>1, <1>b, DispGoto DEF DispGet
  <2>2. QueueOK'
    <3>1. queue \in Seq(Events) /\ queue # <<>> BY <1>1 DEF DispGet, QueueOK
    <3>2. Head(queue) \in Events /\ Tail(queue) \in Seq(Events) /\ Len(Tail(queue)) = Len(queue) - 1
      BY <3>1
    <3> QED BY <1>1, <3>2, ServiceAssumption DEF DispGet, QueueOK
  <2> QED BY <1>1, <2>1, <2>2 DEF DispGet, ServiceOK, BackendOK, service, backend
<1>2. CASE DispSwallow
  <2>1. ControlOK' BY <1>2, <1>b, DispGoto DEF DispSwallow
  <2> QED BY <1>2, <2>1 DEF DispSwallow, ServiceOK, QueueOK, BackendOK, service, events, backend
<1>3. CASE DispCheckRetries
  <2>1. ControlOK' BY <1>3, <1>b, DispGoto DEF DispCheckRetries
  <2> QED BY <1>3, <2>1 DEF DispCheckRetries, ServiceOK, QueueOK, BackendOK, service, events, backend
<1>4. CASE DispDecrement
  <2>1. ControlOK' BY <1>4, <1>b, DispGoto DEF DispDecrement
  <2>2. retries' \in -1..255 BY <1>4 DEF DispDecrement, At, CounterOK, ServiceOK
  <2> QED BY <1>4, <2>1, <2>2 DEF DispDecrement, ServiceOK, QueueOK, BackendOK, events, backend
<1>5. CASE ClearActive(Disp)
  <2>1. ControlOK' BY <1>5, <1>b, DispGoto DEF ClearActive
  <2> QED BY <1>5, <2>1, ZenonT(60) DEF ClearActive, ServiceOK, QueueOK, BackendOK, service, events, backend
<1>6. CASE ClearRetries(Disp)
  <2>1. ControlOK' BY <1>6, <1>b, DispGoto DEF ClearRetries
  <2> QED BY <1>6, <2>1 DEF ClearRetries, ServiceOK, QueueOK, BackendOK, service, events, backend
<1>7. CASE Disown(Disp)
  <2>1. Goto(Disp, "deliver") \/ Goto(Disp, "limit_leave") BY <1>7 DEF Disown
  <2>2. ControlOK' BY <2>1, <1>b, DispGoto
  <2> QED BY <1>7, <2>2, ZenonT(60) DEF Disown, ServiceOK, QueueOK, BackendOK, events, backend
<1>8. CASE DispLimitLeave
  <2>1. CASE Leave(Disp, "limit_leave", "publish_ready")
    <3>1. ControlOK' BY <2>1, <1>b, DispGoto DEF Leave
    <3>2. BackendOK' BY <2>1 DEF Leave, ModemLeave, BackendOK, ModemStates
    <3> QED BY <2>1, <3>1, <3>2 DEF Leave, ServiceOK, QueueOK, service, events
  <2>2. CASE LeaveFails(Disp, "limit_leave", "publish_ready")
    <3>1. ControlOK' BY <2>2, <1>b, DispGoto DEF LeaveFails
    <3> QED BY <2>2, <3>1 DEF LeaveFails, ServiceOK, QueueOK, BackendOK, service, events, backend
  <2> QED BY <1>8, <2>1, <2>2 DEF DispLimitLeave
<1>9. CASE DispPublishReady
  <2>1. ControlOK' BY <1>9, <1>b, DispGoto DEF DispPublishReady
  <2>2. QueueOK' BY <1>9, <1>a, <1>c, PublishType DEF DispPublishReady, QueueOK
  <2> QED BY <1>9, <2>1, <2>2 DEF DispPublishReady, ServiceOK, BackendOK, service, backend
<1>10. CASE DispDeliver
  <2>1. ControlOK' BY <1>10, <1>b, DispGoto DEF DispDeliver
  <2> QED BY <1>10, <2>1 DEF DispDeliver, ServiceOK, QueueOK, BackendOK, service, events, backend
<1>11. CASE DispCheckOverflow
  <2>1. ControlOK' BY <1>11, <1>b, DispGoto DEF DispCheckOverflow
  <2> QED BY <1>11, <2>1, ZenonT(60) DEF DispCheckOverflow, ServiceOK, QueueOK, BackendOK, service, events, backend
<1>12. CASE DispDeliverOverflow
  <2>1. ControlOK' BY <1>12, <1>b, DispGoto DEF DispDeliverOverflow
  <2> QED BY <1>12, <2>1 DEF DispDeliverOverflow, ServiceOK, QueueOK, BackendOK, service, events, backend
<1> QED BY <1>1, <1>2, <1>3, <1>4, <1>5, <1>6, <1>7, <1>8, <1>9, <1>10, <1>11, <1>12 DEF DispNext

\* Every step of the modem engine keeps the types.
LEMMA EngineType ==
    ASSUME TypeOK, EngineNext
    PROVE  TypeOK'
<1> USE DEF TypeOK
<1>a. Engine \in Actors
  BY DEF Actors
<1>c. {"READY", "STATE_READY", "JOINED", "JOIN_FAILED", Other} \subseteq Events
  BY DEF Events, Network, ReadyEvents
<1>1. CASE ModemReset
  <2>1. QueueOK' /\ ready' \in BOOLEAN /\ tx_pending' \in BOOLEAN
    BY <1>1, <1>a, ResetType DEF ModemReset
  <2>2. resets' \in 0..MaxResets BY <1>1, ServiceAssumption DEF ModemReset, BackendOK
  <2>3. BackendOK' BY <1>1, <2>1, <2>2 DEF ModemReset, BackendOK, ModemStates
  <2> QED BY <1>1, <2>1, <2>3 DEF ModemReset, ServiceOK, ControlOK, service
<1>2. CASE ModemJoinFail
  <2>1. QueueOK' BY <1>2, <1>a, <1>c, PublishType DEF ModemJoinFail, QueueOK
  <2>2. BackendOK' BY <1>2, ServiceAssumption DEF ModemJoinFail, BackendOK, ModemStates, backend
  <2> QED BY <1>2, <2>1, <2>2 DEF ModemJoinFail, ServiceOK, ControlOK, service
<1>3. CASE ModemJoined
  <2>1. QueueOK' BY <1>3, <1>a, <1>c, PublishType DEF ModemJoined, QueueOK
  <2>2. BackendOK' BY <1>3, ServiceAssumption DEF ModemJoined, BackendOK, ModemStates, backend
  <2> QED BY <1>3, <2>1, <2>2 DEF ModemJoined, ServiceOK, ControlOK, service
<1>4. CASE ModemTxDone
  <2>1. QueueOK' BY <1>4, <1>a, <1>c, PublishType DEF ModemTxDone, QueueOK
  <2>2. BackendOK' BY <1>4, ServiceAssumption DEF ModemTxDone, BackendOK, ModemStates, backend
  <2> QED BY <1>4, <2>1, <2>2 DEF ModemTxDone, ServiceOK, ControlOK, service
<1>5. CASE ModemDownlink
  <2>1. QueueOK' BY <1>5, <1>a, <1>c, PublishType DEF ModemDownlink, QueueOK
  <2>2. BackendOK' BY <1>5, ServiceAssumption DEF ModemDownlink, BackendOK, ModemStates, backend
  <2> QED BY <1>5, <2>1, <2>2 DEF ModemDownlink, ServiceOK, ControlOK, service
<1> QED BY <1>1, <1>2, <1>3, <1>4, <1>5 DEF EngineNext

\* A thread that moves elsewhere and leaves the counter alone keeps CounterOK.
LEMMA CounterGoto ==
    ASSUME ControlOK, CounterOK, NEW t \in Threads, NEW l, Goto(t, l),
           l \notin {"build_config", "cas", "set_retries"}, retries' = retries
    PROVE  CounterOK'
<1>1. t # Disp BY ServiceAssumption
<1>2. \A u \in Threads : u # t => loc'[u] = loc[u] BY DEF Goto, GotoWith, ControlOK
<1> QED BY <1>1, <1>2 DEF ControlOK, CounterOK, Goto, GotoWith

\* Every step of an application thread keeps CounterOK.
LEMMA ThreadCounter ==
    ASSUME TypeOK, CounterOK, NEW t \in Threads, ThreadNext(t)
    PROVE  CounterOK'
<1> USE DEF TypeOK
<1>a. t # Disp BY ServiceAssumption
<1>1. CASE InitCall(t)
  BY <1>1, CounterGoto DEF InitCall, service
<1>2. CASE InitPublish(t)
  BY <1>2, CounterGoto DEF InitPublish, service
<1>3. CASE InitStart(t)
  BY <1>3, CounterGoto DEF InitStart, service
<1>4. CASE InitOnStarted(t)
  BY <1>4, CounterGoto DEF InitOnStarted, service
<1>5. CASE InitFails(t)
  BY <1>5, CounterGoto DEF InitFails, service
<1>6. CASE InitStopped(t)
  BY <1>6, CounterGoto DEF InitStopped, service
<1>7. CASE \E start \in {"start", "stop", "keep"}, att \in Attempts \cup {Keep} : JoinCall(t, start, att)
  BY <1>7, <1>a DEF JoinCall, GotoWith, ControlOK, CounterOK, service
<1>8. CASE JoinPolicy(t)
  BY <1>8, <1>a DEF JoinPolicy, GotoWith, ControlOK, CounterOK, service
<1>9. CASE JoinPolicyFails(t)
  BY <1>9, CounterGoto DEF JoinPolicyFails, service
<1>10. CASE BeginReadFails(t)
  BY <1>10, CounterGoto DEF BeginReadFails, service
<1>11. CASE BeginAttempts(t)
  <2>1. loc'[t].att = attempts BY <1>11 DEF BeginAttempts, GotoWith, ControlOK, Locals
  <2> QED BY <1>11, <1>a, <2>1 DEF BeginAttempts, GotoWith, ControlOK, ServiceOK, CounterOK, service
<1>12. CASE BeginConfig(t)
  <2>1. loc'[t].att = loc[t].att BY <1>12 DEF BeginConfig, GotoWith, ControlOK, Locals
  <2> QED BY <1>12, <1>a, <2>1 DEF BeginConfig, At, GotoWith, ControlOK, CounterOK, service
<1>13. CASE BeginCas(t)
  <2>1. \A u \in Threads : u # t => loc'[u] = loc[u] BY <1>13 DEF BeginCas, Goto, GotoWith, ControlOK
  <2>2. pc'[t] # "idle" => loc' = loc BY <1>13 DEF BeginCas, Goto, GotoWith, ControlOK
  <2> QED BY <1>13, <1>a, <2>1, <2>2 DEF BeginCas, At, Goto, GotoWith, ControlOK, CounterOK
<1>14. CASE BeginRetries(t)
  <2>1. retries' >= 0 BY <1>14 DEF BeginRetries, At, CounterOK
  <2> QED BY <1>14, <1>a, <2>1 DEF BeginRetries, Goto, GotoWith, ControlOK, CounterOK
<1>15. CASE BeginOwn(t)
  BY <1>15, CounterGoto DEF BeginOwn, service
<1>16. CASE BeginPublish(t)
  BY <1>16, CounterGoto DEF BeginPublish, service
<1>17. CASE BeginJoin(t)
  BY <1>17, CounterGoto DEF BeginJoin, service
<1>18. CASE BeginJoinFails(t)
  BY <1>18, <1>a DEF BeginJoinFails, GotoWith, ControlOK, CounterOK, service
<1>19. CASE ClearActive(t)
  BY <1>19, CounterGoto DEF ClearActive, service
<1>20. CASE ClearRetries(t)
  BY <1>20, <1>a DEF ClearRetries, Goto, GotoWith, ControlOK, CounterOK
<1>21. CASE Disown(t)
  <2>1. Goto(t, loc[t].then) /\ loc[t].then \in {"idle", "is_joined", "publish_ready"}
    BY <1>21, <1>a DEF Disown, ControlOK, Locals
  <2> QED BY <1>21, <2>1, CounterGoto DEF Disown
<1>22. CASE StopRead(t)
  BY <1>22, <1>a DEF StopRead, GotoWith, ControlOK, CounterOK, service
<1>23. CASE StopIsJoined(t)
  BY <1>23, CounterGoto DEF StopIsJoined, service
<1>24. CASE StopLeave(t)
  BY <1>24, CounterGoto DEF StopLeave, Leave, LeaveFails, service
<1>25. CASE LeaveCall(t)
  BY <1>25, CounterGoto DEF LeaveCall, Leave, service
<1>26. CASE PublishReady(t)
  BY <1>26, CounterGoto DEF PublishReady, service
<1>27. CASE SendCall(t)
  BY <1>27, CounterGoto DEF SendCall, service
<1>28. CASE Send(t)
  BY <1>28, CounterGoto DEF Send, service
<1>29. CASE \E c \in Creds : SetCred(t, c)
  <2>1. PICK c \in Creds : SetCred(t, c) BY <1>29
  <2>2. \A u \in Threads : loc'[u].att = loc[u].att BY <2>1, StoreFields DEF SetCred
  <2> QED BY <2>1, <2>2 DEF SetCred, CounterOK
<1>30. CASE InitRegionFails(t)
  BY <1>30, CounterGoto DEF InitRegionFails, service
<1> QED BY <1>1, <1>2, <1>3, <1>4, <1>5, <1>6, <1>7, <1>8, <1>9, <1>10, <1>11, <1>12, <1>13, <1>14, <1>15, <1>16, <1>17, <1>18, <1>19, <1>20, <1>21, <1>22, <1>23, <1>24, <1>25, <1>26, <1>27, <1>28, <1>29, <1>30 DEF ThreadNext

\* Every step of the dispatcher keeps CounterOK.
LEMMA DispCounter ==
    ASSUME TypeOK, CounterOK, DispNext
    PROVE  CounterOK'
<1> USE DEF TypeOK
<1>a. \A t \in Threads : t # Disp BY ServiceAssumption
<1>b. ASSUME NEW l, l # "idle", l # "decrement", Goto(Disp, l)
      PROVE  CounterOK'
  BY <1>a, <1>b DEF Goto, GotoWith, ControlOK, CounterOK
<1>1. CASE DispGet
  BY <1>1, <1>b DEF DispGet
<1>2. CASE DispSwallow
  BY <1>2, <1>b DEF DispSwallow
<1>3. CASE DispCheckRetries
  <2>1. CASE retries > 0
    <3>1. retries' = retries /\ loc' = loc
      BY <1>3, <2>1 DEF DispCheckRetries, Goto, GotoWith, service
    <3>2. \A t \in Threads : pc'[t] = pc[t]
      BY <1>3, <1>a DEF DispCheckRetries, Goto, GotoWith, ControlOK
    <3> QED BY <2>1, <3>1, <3>2 DEF CounterOK, ServiceOK
  <2>2. CASE ~(retries > 0)
    BY <1>3, <2>2, <1>b DEF DispCheckRetries
  <2> QED BY <2>1, <2>2
<1>4. CASE DispDecrement
  BY <1>4, <1>b DEF DispDecrement
<1>5. CASE ClearActive(Disp)
  BY <1>5, <1>b DEF ClearActive
<1>6. CASE ClearRetries(Disp)
  BY <1>6, <1>b DEF ClearRetries
<1>7. CASE Disown(Disp)
  BY <1>7, <1>b DEF Disown
<1>8. CASE DispLimitLeave
  BY <1>8, <1>b DEF DispLimitLeave, Leave, LeaveFails
<1>9. CASE DispPublishReady
  BY <1>9, <1>b DEF DispPublishReady
<1>10. CASE DispDeliver
  BY <1>10, <1>b DEF DispDeliver
<1>11. CASE DispCheckOverflow
  BY <1>11, <1>b DEF DispCheckOverflow
<1>12. CASE DispDeliverOverflow
  BY <1>12, <1>b DEF DispDeliverOverflow
<1> QED BY <1>1, <1>2, <1>3, <1>4, <1>5, <1>6, <1>7, <1>8, <1>9, <1>10, <1>11, <1>12 DEF DispNext

\* TypeOK with CounterOK is inductive: without it, nothing would stop the dispatcher
\* from decrementing a counter that is already below zero.
LEMMA TypeStep == TypeOK /\ CounterOK /\ [Next]_vars => TypeOK' /\ CounterOK'
<1> SUFFICES ASSUME TypeOK, CounterOK, [Next]_vars PROVE TypeOK' /\ CounterOK' OBVIOUS
<1>1. ASSUME NEW t \in Threads, ThreadNext(t) PROVE TypeOK' /\ CounterOK'
  BY <1>1, ThreadType, ThreadCounter
<1>2. CASE DispNext BY <1>2, DispType, DispCounter
<1>3. CASE EngineNext
  <2>1. TypeOK' BY <1>3, EngineType
  <2>2. UNCHANGED <<retries, pc, loc>>
    BY <1>3 DEF EngineNext, ModemReset, ModemJoinFail, ModemJoined, ModemTxDone, ModemDownlink, service
  <2> QED BY <2>1, <2>2 DEF CounterOK
<1>4. ASSUME NEW a \in Actors, FlagOverflow(a) PROVE TypeOK' /\ CounterOK'
  BY <1>4 DEF FlagOverflow, TypeOK, CounterOK, ServiceOK, QueueOK, ControlOK, BackendOK, service, backend
<1>5. CASE UNCHANGED vars
  BY <1>5 DEF vars, TypeOK, CounterOK, ServiceOK, QueueOK, ControlOK, BackendOK
<1> QED BY <1>1, <1>2, <1>3, <1>4, <1>5 DEF Next

\* The service starts well typed.
LEMMA TypeInit == Init => TypeOK /\ CounterOK
<1> SUFFICES ASSUME Init PROVE TypeOK /\ CounterOK OBVIOUS
<1>1. ServiceOK
  <2>1. attempts \in 0..255 BY ServiceAssumption DEF Init
  <2>2. started \in BOOLEAN /\ active \in BOOLEAN /\ owned \in BOOLEAN /\ cred \in Creds
    BY DEF Init
  <2>3. retries \in -1..255
    <3>1. retries = 0 BY DEF Init
    <3> QED BY <3>1
  <2> QED BY <2>1, <2>2, <2>3 DEF ServiceOK
<1>2. QueueOK
  <2>1. overflow \in BOOLEAN /\ lost \in BOOLEAN
    BY DEF Init
  <2>2. queue = <<>> /\ dropping = {} /\ event = None /\ told = None
    BY DEF Init
  <2> QED BY <2>1, <2>2, ServiceAssumption DEF QueueOK
<1>3. ControlOK
  <2>1. /\ pc = [a \in Threads \cup {Disp} |-> IF a = Disp THEN "get" ELSE "idle"]
        /\ loc = [t \in Threads |-> NoLoc]
    BY DEF Init
  <2> QED BY <2>1, NoLocType, ServiceAssumption DEF ControlOK, ThreadLabels, DispLabels
<1>4. BackendOK
  <2>1. handler \in BOOLEAN /\ ready \in BOOLEAN /\ tx_pending \in BOOLEAN
    BY DEF Init
  <2>2. modem \in [state : {"off", "idle"}, tx : {FALSE}, cred : {cred}, fails : {0},
                 raced : {FALSE}] /\ cred \in Creds
    BY DEF Init
  <2>3. modem \in [state : ModemStates, tx : BOOLEAN, cred : Creds, fails : 0..MaxFails,
                  raced : BOOLEAN]
    <3>1. 0 \in 0..MaxFails BY ServiceAssumption
    <3>2. {FALSE} \subseteq BOOLEAN OBVIOUS
    <3>3. {"off", "idle"} \subseteq ModemStates BY DEF ModemStates
    <3>4. /\ modem = [state |-> modem.state, tx |-> modem.tx, cred |-> modem.cred,
                      fails |-> modem.fails, raced |-> modem.raced]
          /\ modem.state \in {"off", "idle"} /\ modem.tx \in {FALSE}
          /\ modem.cred = cred /\ modem.fails = 0 /\ modem.raced \in {FALSE}
      BY <2>2
    <3>5. modem.tx \in BOOLEAN /\ modem.raced \in BOOLEAN BY <3>2, <3>4, Zenon
    <3>6. modem.state \in ModemStates BY <3>3, <3>4
    <3> QED BY <2>2, <3>1, <3>4, <3>5, <3>6
  <2>4. resets = 0 BY DEF Init
  <2>5. resets \in 0..MaxResets BY <2>4, ServiceAssumption
  <2> QED BY <2>1, <2>3, <2>5 DEF BackendOK
<1>5. CounterOK BY ServiceAssumption DEF Init, CounterOK
<1> QED BY <1>1, <1>2, <1>3, <1>4, <1>5 DEF TypeOK

\* Whatever the threads, the dispatcher and the modem do in whatever order, the queue
\* never holds more than its capacity and the retry counter stays within -1..255.
THEOREM TypeCorrect == Spec => []TypeOK
<1>1. Init => TypeOK /\ CounterOK BY TypeInit
<1>2. TypeOK /\ CounterOK /\ [Next]_vars => TypeOK' /\ CounterOK' BY TypeStep
<1> QED BY <1>1, <1>2, PTL DEF Spec

-----------------------------------------------------------------------------
(* One start of the backend, and the ownership of the uplink *)

\* A move outside the start of the backend keeps StartsOnce, provided the backend is
\* untouched or already started.
LEMMA StartMove ==
    ASSUME ControlOK, StartsOnce, NEW a \in Threads \cup {Disp}, NEW l,
           pc' = [pc EXCEPT ![a] = l], l \notin Starting, UNCHANGED <<started, handler>>,
           handler \/ UNCHANGED <<ready, modem>>
    PROVE  StartsOnce'
<1>1. \A t \in Threads : pc'[t] \in Starting => pc[t] \in Starting BY DEF ControlOK
<1> QED BY <1>1 DEF StartsOnce

\* The modem leaves only when no uplink is outstanding.
LEMMA LeaveOwnership ==
    ASSUME TypeOK, StartsOnce, TxOwnership, NEW a \in Threads \cup {Disp}, NEW l,
           Leave(a, l, "publish_ready")
    PROVE  StartsOnce' /\ TxOwnership'
<1> USE DEF TypeOK
<1>1. handler /\ tx_pending = FALSE
  BY DEF Leave, usp_leave_ok, StartsOnce, BackendOK
<1>2. pc' = [pc EXCEPT ![a] = "publish_ready"] /\ UNCHANGED <<started, handler, tx_pending>>
  BY DEF Leave, Goto, GotoWith, service
<1>3. StartsOnce' BY <1>1, <1>2, StartMove, ZenonT(60) DEF Starting
<1>4. modem'.tx = FALSE BY DEF Leave, ModemLeave, BackendOK
<1> QED BY <1>1, <1>2, <1>3, <1>4 DEF TxOwnership

\* Every step of an application thread keeps both.
LEMMA ThreadOwnership ==
    ASSUME TypeOK, StartsOnce, TxOwnership, NEW t \in Threads, ThreadNext(t)
    PROVE  StartsOnce' /\ TxOwnership'
<1> USE DEF TypeOK
<1>a. t \in Threads \cup {Disp} /\ t # Disp BY ServiceAssumption
<1>b. \A l \in {"idle", "on_started", "publish_stopped", "policy", "get_attempts", "build_config",
        "cas", "set_retries", "own", "publish_joining", "backend_join", "was_active",
        "clear_active", "clear_retries", "disown", "is_joined", "stop_leave", "publish_ready",
        "send"} : l \notin Starting
  BY DEF Starting
<1>c. ASSUME NEW l, l \notin Starting, pc' = [pc EXCEPT ![t] = l], UNCHANGED started, UNCHANGED backend
      PROVE  StartsOnce' /\ TxOwnership'
  <2>1. UNCHANGED <<handler, ready, tx_pending, modem>> BY <1>c DEF backend
  <2>2. StartsOnce' BY <1>a, <1>c, <2>1, StartMove
  <2> QED BY <2>1, <2>2 DEF TxOwnership
<1>1. CASE InitCall(t)
  <2>1. started = FALSE /\ started' = TRUE /\ pc' = [pc EXCEPT ![t] = "publish_starting"]
    BY <1>1 DEF InitCall, Goto, GotoWith, ServiceOK
  <2>2. UNCHANGED <<handler, ready, tx_pending, modem>> BY <1>1 DEF InitCall, backend
  <2>3. ~handler /\ \A u \in Threads : pc[u] \notin Starting BY <2>1 DEF StartsOnce
  <2>4. StartsOnce' BY <2>1, <2>2, <2>3 DEF StartsOnce, ControlOK
  <2> QED BY <2>2, <2>4 DEF TxOwnership
<1>2. CASE InitPublish(t)
  <2>1. pc[t] \in Starting /\ pc' = [pc EXCEPT ![t] = "backend_start"]
    BY <1>2 DEF InitPublish, At, Goto, GotoWith, Starting
  <2>2. UNCHANGED <<started, handler, ready, tx_pending, modem>> BY <1>2 DEF InitPublish, service, backend
  <2>3. \A u \in Threads : pc'[u] \in Starting => pc[u] \in Starting BY <2>1 DEF ControlOK
  <2>4. StartsOnce' BY <2>2, <2>3 DEF StartsOnce
  <2> QED BY <2>2, <2>4 DEF TxOwnership
<1>3. CASE InitStart(t)
  <2>1. pc[t] \in Starting /\ pc' = [pc EXCEPT ![t] = "on_started"]
    BY <1>3 DEF InitStart, At, Goto, GotoWith, Starting
  <2>2. started /\ ~handler /\ modem.state \in {"off", "idle"} BY <2>1 DEF StartsOnce
  <2>3. started' = started /\ handler' = TRUE /\ modem' = modem BY <1>3 DEF InitStart, service
  <2>4. \A u \in Threads : pc'[u] \notin Starting
    BY <2>1, <1>b DEF StartsOnce, ControlOK
  <2>5. StartsOnce' BY <2>2, <2>3, <2>4 DEF StartsOnce
  <2>6. modem.tx = FALSE /\ tx_pending = FALSE BY <2>2 DEF TxOwnership, BackendOK
  <2>7. tx_pending' = FALSE BY <1>3, <2>6 DEF InitStart, HandleReset
  <2> QED BY <2>3, <2>5, <2>6, <2>7 DEF TxOwnership
<1>4. CASE InitOnStarted(t)
  BY <1>4, <1>b, <1>c DEF InitOnStarted, Goto, GotoWith, service
<1>5. CASE InitFails(t)
  <2>1. pc[t] \in Starting /\ pc' = [pc EXCEPT ![t] = "publish_stopped"]
    BY <1>5 DEF InitFails, At, Goto, GotoWith, Starting
  <2>2. UNCHANGED <<handler, ready, tx_pending, modem>> BY <1>5 DEF InitFails, backend
  <2>3. ~handler /\ \A u \in Threads : pc'[u] \notin Starting
    BY <2>1, <1>b DEF StartsOnce, ControlOK
  <2>4. StartsOnce' BY <2>2, <2>3 DEF StartsOnce
  <2> QED BY <2>2, <2>4 DEF TxOwnership
<1>6. CASE InitStopped(t)
  BY <1>6, <1>b, <1>c DEF InitStopped, Goto, GotoWith, service
<1>7. CASE \E start \in {"start", "stop", "keep"}, att \in Attempts \cup {Keep} : JoinCall(t, start, att)
  BY <1>7, <1>b, <1>c DEF JoinCall, GotoWith, service
<1>8. CASE JoinPolicy(t)
  BY <1>8, <1>b, <1>c DEF JoinPolicy, Goto, GotoWith, service
<1>9. CASE JoinPolicyFails(t)
  BY <1>9, <1>b, <1>c DEF JoinPolicyFails, Goto, GotoWith, service
<1>10. CASE BeginReadFails(t)
  BY <1>10, <1>b, <1>c DEF BeginReadFails, Goto, GotoWith, service
<1>11. CASE BeginAttempts(t)
  BY <1>11, <1>b, <1>c DEF BeginAttempts, Goto, GotoWith, service
<1>12. CASE BeginConfig(t)
  BY <1>12, <1>b, <1>c DEF BeginConfig, Goto, GotoWith, service
<1>13. CASE BeginCas(t)
  BY <1>13, <1>b, <1>c DEF BeginCas, Goto, GotoWith, service
<1>14. CASE BeginRetries(t)
  BY <1>14, <1>b, <1>c DEF BeginRetries, Goto, GotoWith, service
<1>15. CASE BeginOwn(t)
  BY <1>15, <1>b, <1>c DEF BeginOwn, Goto, GotoWith, service
<1>16. CASE BeginPublish(t)
  BY <1>16, <1>b, <1>c DEF BeginPublish, Goto, GotoWith, service
<1>17. CASE BeginJoin(t)
  <2>1. handler /\ modem.state = "idle" /\ modem.tx = FALSE
    BY <1>17 DEF BeginJoin, UspEnter, modem_join_ok, StartsOnce, TxOwnership, BackendOK
  <2>2. pc' = [pc EXCEPT ![t] = "idle"] /\ UNCHANGED <<started, handler, tx_pending>>
    BY <1>17 DEF BeginJoin, Goto, GotoWith, service
  <2>3. StartsOnce' BY <1>a, <1>b, <2>1, <2>2, StartMove
  <2>4. modem'.tx = modem.tx BY <1>17 DEF BeginJoin, BackendOK
  <2> QED BY <2>1, <2>2, <2>3, <2>4 DEF TxOwnership
<1>18. CASE BeginJoinFails(t)
  BY <1>18, <1>b, <1>c DEF BeginJoinFails, Goto, GotoWith, service
<1>19. CASE ClearActive(t)
  BY <1>19, <1>b, <1>c DEF ClearActive, Goto, GotoWith, service
<1>20. CASE ClearRetries(t)
  BY <1>20, <1>b, <1>c DEF ClearRetries, Goto, GotoWith, service
<1>21. CASE Disown(t)
  <2>1. loc[t].then \notin Starting BY <1>b DEF ControlOK, Locals
  <2>2. pc' = [pc EXCEPT ![t] = loc[t].then] BY <1>21, <1>a DEF Disown, Goto, GotoWith
  <2> QED BY <1>21, <2>1, <2>2, <1>c DEF Disown
<1>22. CASE StopRead(t)
  BY <1>22, <1>b, <1>c DEF StopRead, Goto, GotoWith, service
<1>23. CASE StopIsJoined(t)
  BY <1>23, <1>b, <1>c DEF StopIsJoined, Goto, GotoWith, service
<1>24. CASE StopLeave(t)
  <2>1. CASE Leave(t, "stop_leave", "publish_ready") BY <2>1, <1>a, LeaveOwnership
  <2>2. CASE LeaveFails(t, "stop_leave", "idle")
    BY <2>2, <1>b, <1>c DEF LeaveFails, Goto, GotoWith, service
  <2> QED BY <1>24, <2>1, <2>2 DEF StopLeave
<1>25. CASE LeaveCall(t)
  BY <1>25, <1>a, LeaveOwnership DEF LeaveCall
<1>26. CASE PublishReady(t)
  BY <1>26, <1>b, <1>c DEF PublishReady, Goto, GotoWith, service
<1>27. CASE SendCall(t)
  BY <1>27, <1>b, <1>c DEF SendCall, Goto, GotoWith, service
<1>28. CASE Send(t)
  <2>1. pc' = [pc EXCEPT ![t] = "idle"] /\ UNCHANGED <<started, handler, ready>>
    BY <1>28 DEF Send, Goto, GotoWith, service
  <2>2. CASE tx_pending' = TRUE /\ modem' = [modem EXCEPT !.tx = TRUE] /\ modem.state = "joined" /\ ready
    <3>1. handler BY <2>2 DEF StartsOnce
    <3>2. StartsOnce' BY <1>a, <1>b, <2>1, <3>1, StartMove
    <3>3. modem'.tx = TRUE /\ modem'.state = "joined" BY <2>2 DEF BackendOK
    <3> QED BY <2>2, <3>2, <3>3 DEF TxOwnership
  <2>3. CASE UNCHANGED <<tx_pending, modem>>
    BY <1>a, <1>b, <2>1, <2>3, StartMove DEF TxOwnership
  <2> QED BY <1>28, <2>2, <2>3 DEF Send
<1>29. CASE \E c \in Creds : SetCred(t, c)
  BY <1>29 DEF SetCred, StartsOnce, TxOwnership, backend
<1>30. CASE InitRegionFails(t)
  <2>1. pc[t] \in Starting /\ pc' = [pc EXCEPT ![t] = "idle"]
    BY <1>30 DEF InitRegionFails, At, Goto, GotoWith, Starting
  <2>2. UNCHANGED <<handler, ready, tx_pending, modem>> BY <1>30 DEF InitRegionFails, backend
  <2>3. ~handler /\ \A u \in Threads : pc'[u] \notin Starting
    BY <2>1, <1>b DEF StartsOnce, ControlOK
  <2>4. StartsOnce' BY <2>2, <2>3 DEF StartsOnce
  <2> QED BY <2>2, <2>4 DEF TxOwnership
<1> QED BY <1>1, <1>2, <1>3, <1>4, <1>5, <1>6, <1>7, <1>8, <1>9, <1>10, <1>11, <1>12, <1>13, <1>14, <1>15, <1>16, <1>17, <1>18, <1>19, <1>20, <1>21, <1>22, <1>23, <1>24, <1>25, <1>26, <1>27, <1>28, <1>29, <1>30 DEF ThreadNext

\* Every step of the dispatcher keeps both.
LEMMA DispOwnership ==
    ASSUME TypeOK, StartsOnce, TxOwnership, DispNext
    PROVE  StartsOnce' /\ TxOwnership'
<1> USE DEF TypeOK
<1>1. CASE Leave(Disp, "limit_leave", "publish_ready") BY <1>1, LeaveOwnership
<1>2. CASE ~Leave(Disp, "limit_leave", "publish_ready")
  <2>1. PICK l : pc' = [pc EXCEPT ![Disp] = l]
    BY <1>2 DEF DispNext, DispGet, DispSwallow, DispCheckRetries, DispDecrement, ClearActive,
       ClearRetries, Disown, DispLimitLeave, LeaveFails, DispPublishReady, DispDeliver,
       DispCheckOverflow, DispDeliverOverflow, Goto, GotoWith
  <2>2. UNCHANGED <<started, handler, ready, tx_pending, modem>>
    BY <1>2 DEF DispNext, DispGet, DispSwallow, DispCheckRetries, DispDecrement, ClearActive,
       ClearRetries, Disown, DispLimitLeave, LeaveFails, DispPublishReady, DispDeliver,
       DispCheckOverflow, DispDeliverOverflow, service, backend
  <2>3. \A t \in Threads : pc'[t] = pc[t] BY <2>1, ServiceAssumption DEF ControlOK
  <2> QED BY <2>2, <2>3 DEF StartsOnce, TxOwnership
<1> QED BY <1>1, <1>2

\* Every step of the modem engine keeps both.
LEMMA EngineOwnership ==
    ASSUME TypeOK, StartsOnce, TxOwnership, EngineNext
    PROVE  StartsOnce' /\ TxOwnership'
<1> USE DEF TypeOK
<1>1. handler /\ UNCHANGED <<started, handler, pc>>
  BY DEF EngineNext, ModemReset, ModemJoinFail, ModemJoined, ModemTxDone, ModemDownlink, EngineStep,
     service, backend
<1>2. StartsOnce' BY <1>1 DEF StartsOnce
<1>3. CASE ModemReset
  <2>1. tx_pending' = FALSE /\ modem'.tx = FALSE BY <1>3 DEF ModemReset, HandleReset, BackendOK
  <2> QED BY <1>2, <2>1 DEF TxOwnership
<1>4. CASE ModemJoinFail
  <2>1. modem'.tx = modem.tx /\ modem'.state = modem.state /\ tx_pending' = tx_pending
    BY <1>4 DEF ModemJoinFail, BackendOK
  <2> QED BY <1>2, <2>1 DEF TxOwnership
<1>5. CASE ModemJoined
  <2>1. modem'.tx = modem.tx /\ modem'.state = "joined" /\ tx_pending' = tx_pending
    BY <1>5 DEF ModemJoined, BackendOK
  <2> QED BY <1>2, <2>1 DEF TxOwnership
<1>6. CASE ModemTxDone
  <2>1. modem'.tx = FALSE /\ tx_pending' = FALSE BY <1>6 DEF ModemTxDone, BackendOK
  <2> QED BY <1>2, <2>1 DEF TxOwnership
<1>7. CASE ModemDownlink
  BY <1>2, <1>7 DEF ModemDownlink, backend, TxOwnership
<1> QED BY <1>3, <1>4, <1>5, <1>6, <1>7 DEF EngineNext

\* StartsOnce and TxOwnership are inductive together: the reset usp_start() replays clears
\* tx_pending, which is sound only because no uplink can exist before the first start.
LEMMA OwnershipStep ==
    TypeOK /\ StartsOnce /\ TxOwnership /\ [Next]_vars => StartsOnce' /\ TxOwnership'
<1> SUFFICES ASSUME TypeOK, StartsOnce, TxOwnership, [Next]_vars PROVE StartsOnce' /\ TxOwnership'
  OBVIOUS
<1>1. ASSUME NEW t \in Threads, ThreadNext(t) PROVE StartsOnce' /\ TxOwnership'
  BY <1>1, ThreadOwnership
<1>2. CASE DispNext BY <1>2, DispOwnership
<1>3. CASE EngineNext BY <1>3, EngineOwnership
<1>4. ASSUME NEW a \in Actors, FlagOverflow(a) PROVE StartsOnce' /\ TxOwnership'
  BY <1>4 DEF FlagOverflow, service, backend, StartsOnce, TxOwnership
<1>5. CASE UNCHANGED vars BY <1>5 DEF vars, StartsOnce, TxOwnership
<1> QED BY <1>1, <1>2, <1>3, <1>4, <1>5 DEF Next

\* No uplink and no started backend at boot.
LEMMA OwnershipInit == Init => StartsOnce /\ TxOwnership
<1> SUFFICES ASSUME Init PROVE StartsOnce /\ TxOwnership OBVIOUS
<1>1. /\ handler = FALSE /\ ready = FALSE /\ tx_pending = FALSE
      /\ modem.state \in {"off", "idle"} /\ modem.tx = FALSE
  BY DEF Init
<1>2. \A t \in Threads : pc[t] = "idle" BY ServiceAssumption DEF Init
<1> QED BY <1>1, <1>2 DEF StartsOnce, TxOwnership, Starting

\* For every number of threads: the backend is started once, however many threads call
\* init() and however often a start fails, and tx_pending is always the uplink the modem
\* holds, across sends, leaves, retry limits and resets.
THEOREM ServiceIsConsistent == Spec => []ServiceConsistent
<1>1. Init => TypeOK /\ CounterOK /\ StartsOnce /\ TxOwnership BY TypeInit, OwnershipInit
<1>2. TypeOK /\ CounterOK /\ StartsOnce /\ TxOwnership /\ [Next]_vars
        => TypeOK' /\ CounterOK' /\ StartsOnce' /\ TxOwnership'
  BY TypeStep, OwnershipStep
<1>3. TypeOK /\ StartsOnce /\ TxOwnership => ServiceConsistent BY DEF ServiceConsistent
<1> QED BY <1>1, <1>2, <1>3, PTL DEF Spec

\* No second start of the backend can begin while one is going on or after one succeeded.
THEOREM StartedOnce == Spec => []StartsOnce
<1>1. ServiceConsistent => StartsOnce BY DEF ServiceConsistent
<1> QED BY <1>1, ServiceIsConsistent, PTL

\* Every TX_DONE belongs to the send that was accepted.
THEOREM UplinkOwned == Spec => []TxOwnership
<1>1. ServiceConsistent => TxOwnership BY DEF ServiceConsistent
<1> QED BY <1>1, ServiceIsConsistent, PTL

-----------------------------------------------------------------------------
(* The end of a session is announced *)

\* The antecedent of LossReported without the history of events.
OutOfNetwork == ready /\ modem.state # "joined" /\ ~lost

\* The dispatcher counts failures only while it holds one.
Deciding == pc[Disp] \in {"check_retries", "decrement"} => event = "JOIN_FAILED"

\* A step keeps LossReported when it neither ends a session, nor makes JOINED the last
\* word, nor moves an actor that is about to publish READY.
LEMMA LossKept ==
    ASSUME LossReported, OutOfNetwork' => OutOfNetwork, JoinedIsLast' => JoinedIsLast,
           \A a \in Threads \cup {Disp} : pc[a] = "publish_ready" => pc'[a] = "publish_ready"
    PROVE  LossReported'
BY DEF LossReported, OutOfNetwork

\* Publishing an event that is no Network event does not make JOINED the last word.
LEMMA PlainPublish ==
    ASSUME QueueOK, NEW a, NEW e \in Events \ Network, publish(a, e), ~lost',
           Holding' = Holding, UNCHANGED <<event, told>>, JoinedIsLast'
    PROVE  JoinedIsLast
<1>1. queue' = Append(queue, e) BY DEF publish
<1>2. /\ queue \in Seq(Events) /\ Len(queue) \in Nat /\ Len(queue') = Len(queue) + 1
      /\ queue'[Len(queue) + 1] = e /\ \A i \in 1..Len(queue) : queue'[i] = queue[i]
  BY <1>1 DEF QueueOK
<1>3. e # "JOINED" /\ e \notin ReadyEvents BY DEF Network
<1>4. NoneReady' => NoneReady BY <1>2 DEF NoneReady
<1>5. CASE \E i \in 1..Len(queue') : /\ queue'[i] = "JOINED"
                                     /\ \A j \in i + 1..Len(queue') : queue'[j] \notin ReadyEvents
  <2>1. PICK i \in 1..Len(queue') : /\ queue'[i] = "JOINED"
                                    /\ \A j \in i + 1..Len(queue') : queue'[j] \notin ReadyEvents
    BY <1>5
  <2>2. i \in 1..Len(queue) BY <1>2, <1>3, <2>1
  <2>3. queue[i] = "JOINED" /\ \A j \in i + 1..Len(queue) : queue[j] \notin ReadyEvents
    BY <1>2, <2>1, <2>2
  <2> QED BY <2>2, <2>3 DEF JoinedIsLast
<1>6. CASE NoneReady' /\ Holding' /\ event' = "JOINED"
  BY <1>4, <1>6 DEF JoinedIsLast
<1>7. CASE NoneReady' /\ ~(Holding' /\ event' \in ReadyEvents) /\ told' = "JOINED"
  BY <1>4, <1>7 DEF JoinedIsLast
<1> QED BY <1>5, <1>6, <1>7 DEF JoinedIsLast

\* After a READY that was not dropped, JOINED is not the last word.
LEMMA ReadyPublish ==
    ASSUME QueueOK, NEW a, NEW e \in ReadyEvents, publish(a, e), ~lost'
    PROVE  ~JoinedIsLast'
<1>1. queue' = Append(queue, e) BY DEF publish
<1>2. /\ queue \in Seq(Events) /\ Len(queue) \in Nat /\ Len(queue') = Len(queue) + 1
      /\ queue'[Len(queue) + 1] = e
  BY <1>1 DEF QueueOK, Events, Network
<1>3. Len(queue) + 1 \in 1..Len(queue') BY <1>2
<1>4. ~NoneReady' BY <1>2, <1>3 DEF NoneReady
<1>5. ASSUME NEW i \in 1..Len(queue'), queue'[i] = "JOINED",
             \A j \in i + 1..Len(queue') : queue'[j] \notin ReadyEvents
      PROVE  FALSE
  <2>1. i # Len(queue) + 1 BY <1>2, <1>5 DEF ReadyEvents
  <2>2. Len(queue) + 1 \in i + 1..Len(queue') BY <1>2, <2>1
  <2> QED BY <1>2, <1>5, <2>2
<1> QED BY <1>4, <1>5 DEF JoinedIsLast

\* The answer to a reset, whoever handles it, announces READY or leaves the backend unready.
LEMMA ResetLoss ==
    ASSUME QueueOK, NEW a, HandleReset(a)
    PROVE  LossReported'
<1>1. CASE ready' = TRUE /\ publish(a, "READY")
  <2>1. CASE lost' BY <2>1 DEF LossReported
  <2>2. CASE ~lost'
    <3>1. ~JoinedIsLast' BY <1>1, <2>2, ReadyPublish DEF ReadyEvents
    <3> QED BY <3>1 DEF LossReported
  <2> QED BY <2>1, <2>2
<1>2. CASE ready' = FALSE BY <1>2 DEF LossReported
<1> QED BY <1>1, <1>2 DEF HandleReset

\* Leaving puts the actor at the step that publishes READY.
LEMMA LeaveLoss ==
    ASSUME ControlOK, NEW a \in Threads \cup {Disp}, NEW l, Leave(a, l, "publish_ready")
    PROVE  LossReported'
<1>1. pc'[a] = "publish_ready" BY DEF Leave, Goto, GotoWith, ControlOK
<1> QED BY <1>1 DEF LossReported

\* Publishing READY keeps LossReported whatever else happens.
LEMMA PublishLoss ==
    ASSUME QueueOK, NEW a, publish(a, "STATE_READY")
    PROVE  LossReported'
<1>1. CASE lost' BY <1>1 DEF LossReported
<1>2. CASE ~lost'
  <2>1. ~JoinedIsLast' BY <1>2, ReadyPublish DEF ReadyEvents
  <2> QED BY <2>1 DEF LossReported
<1> QED BY <1>1, <1>2

\* Every step of an application thread keeps LossReported.
LEMMA ThreadLoss ==
    ASSUME TypeOK, LossReported, Deciding, NEW t \in Threads, ThreadNext(t)
    PROVE  LossReported' /\ Deciding'
<1> USE DEF TypeOK
<1>a. t # Disp /\ t \in Threads \cup {Disp} BY ServiceAssumption
<1>d. Deciding'
  <2>1. pc'[Disp] = pc[Disp] /\ event' = event
    BY <1>a DEF ThreadNext, InitCall, InitRegionFails, InitPublish, InitStart, InitOnStarted, InitFails, InitStopped,
       JoinCall, JoinPolicy, JoinPolicyFails, BeginReadFails, BeginAttempts, BeginConfig, BeginCas,
       BeginRetries, BeginOwn, BeginPublish, BeginJoin, BeginJoinFails, ClearActive, ClearRetries,
       Disown, StopRead, StopIsJoined, StopLeave, LeaveCall, Leave, LeaveFails, PublishReady,
       SendCall, Send, SetCred, Goto, GotoWith, ControlOK
  <2> QED BY <2>1 DEF Deciding
<1>m. ASSUME NEW l, NEW k, pc[t] = k, k # "publish_ready", pc' = [pc EXCEPT ![t] = l]
      PROVE  /\ \A a \in Threads \cup {Disp} : pc[a] = "publish_ready" => pc'[a] = "publish_ready"
             /\ Holding' = Holding
  BY <1>a, <1>m DEF ControlOK, Holding
\* Steps that touch neither the events nor what the modem is in.
<1>q. ASSUME NEW l, NEW k, pc[t] = k, k # "publish_ready", pc' = [pc EXCEPT ![t] = l],
             UNCHANGED <<queue, lost, event, told, ready>>, modem'.state = "joined" \/ modem.state # "joined"
      PROVE  LossReported'
  <2>1. Holding' = Holding BY <1>m, <1>q
  <2>2. JoinedIsLast' => JoinedIsLast BY <1>q, <2>1 DEF JoinedIsLast, NoneReady
  <2>3. OutOfNetwork' => OutOfNetwork BY <1>q DEF OutOfNetwork
  <2> QED BY <1>m, <1>q, <2>2, <2>3, LossKept
\* Steps that publish an event which is not about the network.
<1>p. ASSUME NEW l, NEW k, pc[t] = k, k # "publish_ready", pc' = [pc EXCEPT ![t] = l],
             publish(t, Other), UNCHANGED <<event, told, ready, modem>>
      PROVE  LossReported'
  <2>1. Other \in Events \ Network BY DEF Other, Events, Network, ReadyEvents
  <2>2. Holding' = Holding BY <1>m, <1>p
  <2>3. ~lost' /\ JoinedIsLast' => JoinedIsLast BY <1>p, <2>1, <2>2, PlainPublish
  <2>4. OutOfNetwork' => OutOfNetwork BY <1>p DEF OutOfNetwork, publish
  <2>5. CASE lost' BY <2>5 DEF LossReported
  <2>6. CASE ~lost'
    BY <1>m, <1>p, <2>3, <2>4, <2>6, LossKept
  <2> QED BY <2>5, <2>6
<1>1. CASE InitCall(t)
  BY <1>1, <1>d, <1>q DEF InitCall, At, Goto, GotoWith, events, backend
<1>2. CASE InitPublish(t)
  BY <1>2, <1>d, <1>p DEF InitPublish, At, Goto, GotoWith, backend
<1>3. CASE InitStart(t)
  <2>1. CASE modem.state = "off"
    BY <1>3, <2>1, <1>d, <1>q DEF InitStart, At, Goto, GotoWith, events
  <2>2. CASE modem.state # "off"
    BY <1>3, <2>2, <1>d, ResetLoss DEF InitStart
  <2> QED BY <2>1, <2>2
<1>4. CASE InitOnStarted(t)
  BY <1>4, <1>d, <1>q DEF InitOnStarted, At, Goto, GotoWith, events, backend
<1>5. CASE InitFails(t)
  BY <1>5, <1>d, <1>q DEF InitFails, At, Goto, GotoWith, events, backend
<1>6. CASE InitStopped(t)
  BY <1>6, <1>d, <1>p DEF InitStopped, At, Goto, GotoWith, backend
<1>7. CASE \E start \in {"start", "stop", "keep"}, att \in Attempts \cup {Keep} : JoinCall(t, start, att)
  BY <1>7, <1>d, <1>q DEF JoinCall, At, GotoWith, events, backend
<1>8. CASE JoinPolicy(t)
  BY <1>8, <1>d, <1>q DEF JoinPolicy, At, Goto, GotoWith, events, backend
<1>9. CASE JoinPolicyFails(t)
  BY <1>9, <1>d, <1>q DEF JoinPolicyFails, At, Goto, GotoWith, events, backend
<1>10. CASE BeginReadFails(t)
  BY <1>10, <1>d, <1>q DEF BeginReadFails, At, Goto, GotoWith, events, backend
<1>11. CASE BeginAttempts(t)
  BY <1>11, <1>d, <1>q DEF BeginAttempts, At, Goto, GotoWith, events, backend
<1>12. CASE BeginConfig(t)
  BY <1>12, <1>d, <1>q DEF BeginConfig, At, Goto, GotoWith, events, backend
<1>13. CASE BeginCas(t)
  BY <1>13, <1>d, <1>q DEF BeginCas, At, Goto, GotoWith, events, backend
<1>14. CASE BeginRetries(t)
  BY <1>14, <1>d, <1>q DEF BeginRetries, At, Goto, GotoWith, events, backend
<1>15. CASE BeginOwn(t)
  BY <1>15, <1>d, <1>q DEF BeginOwn, At, Goto, GotoWith, events, backend
<1>16. CASE BeginPublish(t)
  BY <1>16, <1>d, <1>p DEF BeginPublish, At, Goto, GotoWith, backend
<1>17. CASE BeginJoin(t)
  <2>1. modem.state # "joined" BY <1>17 DEF BeginJoin, modem_join_ok
  <2> QED BY <1>17, <2>1, <1>d, <1>q DEF BeginJoin, At, Goto, GotoWith, events
<1>18. CASE BeginJoinFails(t)
  BY <1>18, <1>d, <1>q DEF BeginJoinFails, At, Goto, GotoWith, events, backend
<1>19. CASE ClearActive(t)
  BY <1>19, <1>d, <1>q DEF ClearActive, At, Goto, GotoWith, events, backend
<1>20. CASE ClearRetries(t)
  BY <1>20, <1>d, <1>q DEF ClearRetries, At, Goto, GotoWith, events, backend
<1>21. CASE Disown(t)
  BY <1>21, <1>d, <1>q DEF Disown, At, Goto, GotoWith, events, backend
<1>22. CASE StopRead(t)
  BY <1>22, <1>d, <1>q DEF StopRead, At, Goto, GotoWith, events, backend
<1>23. CASE StopIsJoined(t)
  BY <1>23, <1>d, <1>q DEF StopIsJoined, At, Goto, GotoWith, events, backend
<1>24. CASE StopLeave(t)
  <2>1. CASE Leave(t, "stop_leave", "publish_ready") BY <2>1, <1>a, <1>d, LeaveLoss
  <2>2. CASE LeaveFails(t, "stop_leave", "idle")
    BY <2>2, <1>d, <1>q DEF LeaveFails, At, Goto, GotoWith, events, backend
  <2> QED BY <1>24, <2>1, <2>2 DEF StopLeave
<1>25. CASE LeaveCall(t)
  BY <1>25, <1>a, <1>d, LeaveLoss DEF LeaveCall
<1>26. CASE PublishReady(t)
  BY <1>26, <1>d, PublishLoss DEF PublishReady
<1>27. CASE SendCall(t)
  BY <1>27, <1>d, <1>q DEF SendCall, At, Goto, GotoWith, events, backend
<1>28. CASE Send(t)
  <2>1. modem'.state = modem.state BY <1>28 DEF Send, BackendOK
  <2> QED BY <1>28, <2>1, <1>d, <1>q DEF Send, At, Goto, GotoWith, events
<1>29. CASE \E c \in Creds : SetCred(t, c)
  <2>1. UNCHANGED <<pc, queue, lost, event, told, ready, modem>> BY <1>29 DEF SetCred, events, backend
  <2> QED BY <1>d, <2>1 DEF LossReported, JoinedIsLast, NoneReady, Holding
<1>30. CASE InitRegionFails(t)
  BY <1>30, <1>d, <1>q DEF InitRegionFails, At, Goto, GotoWith, events, backend
<1> QED BY <1>1, <1>2, <1>3, <1>4, <1>5, <1>6, <1>7, <1>8, <1>9, <1>10, <1>11, <1>12, <1>13, <1>14, <1>15, <1>16, <1>17, <1>18, <1>19, <1>20, <1>21, <1>22, <1>23, <1>24, <1>25, <1>26, <1>27, <1>28, <1>29, <1>30 DEF ThreadNext

\* Every step of the dispatcher keeps LossReported.
LEMMA DispLoss ==
    ASSUME TypeOK, LossReported, Deciding, DispNext
    PROVE  LossReported' /\ Deciding'
<1> USE DEF TypeOK
<1>m. ASSUME NEW l, pc[Disp] # "publish_ready", pc' = [pc EXCEPT ![Disp] = l]
      PROVE  /\ \A a \in Threads \cup {Disp} : pc[a] = "publish_ready" => pc'[a] = "publish_ready"
             /\ pc'[Disp] = l
  BY <1>m DEF ControlOK
\* Steps that hold on to the event in hand, or have none.
<1>q. ASSUME NEW l, pc[Disp] # "publish_ready", pc' = [pc EXCEPT ![Disp] = l], Holding' = Holding,
             UNCHANGED <<queue, lost, event, told, ready, modem>>
      PROVE  LossReported'
  <2>1. JoinedIsLast' => JoinedIsLast BY <1>q DEF JoinedIsLast, NoneReady
  <2>2. OutOfNetwork' => OutOfNetwork BY <1>q DEF OutOfNetwork
  <2> QED BY <1>m, <1>q, <2>1, <2>2, LossKept
<1>1. CASE DispGet
  <2>1. /\ pc[Disp] = "get" /\ pc' = [pc EXCEPT ![Disp] = "swallow"]
        /\ queue # <<>> /\ event' = Head(queue) /\ queue' = Tail(queue)
        /\ UNCHANGED <<lost, told, ready, modem>>
    BY <1>1 DEF DispGet, At, Goto, GotoWith, backend
  <2>2. ~Holding /\ Holding' BY <2>1, <1>m DEF Holding
  <2>3. /\ queue \in Seq(Events) /\ Len(queue) \in Nat \ {0} /\ Len(queue') = Len(queue) - 1
        /\ event' = queue[1] /\ \A i \in 1..Len(queue') : queue'[i] = queue[i + 1]
    BY <2>1 DEF QueueOK
  <2>4. NoneReady' /\ event' \notin ReadyEvents => NoneReady
    <3> SUFFICES ASSUME NoneReady', event' \notin ReadyEvents, NEW j \in 1..Len(queue)
                 PROVE  queue[j] \notin ReadyEvents
      BY DEF NoneReady
    <3>1. CASE j = 1 BY <2>3, <3>1
    <3>2. CASE j # 1
      <4>1. j - 1 \in 1..Len(queue') BY <2>3, <3>2
      <4>2. queue'[j - 1] = queue[j] BY <2>3, <4>1
      <4> QED BY <4>1, <4>2 DEF NoneReady
    <3> QED BY <3>1, <3>2
  <2>5. ASSUME JoinedIsLast' PROVE JoinedIsLast
    <3>1. ASSUME NEW i \in 1..Len(queue'), queue'[i] = "JOINED",
                 \A j \in i + 1..Len(queue') : queue'[j] \notin ReadyEvents
          PROVE  JoinedIsLast
      <4>1. i + 1 \in 1..Len(queue) /\ queue[i + 1] = "JOINED" BY <2>3, <3>1
      <4>2. ASSUME NEW j \in (i + 1) + 1..Len(queue) PROVE queue[j] \notin ReadyEvents
        <5>1. j - 1 \in i + 1..Len(queue') /\ j - 1 \in 1..Len(queue') BY <2>3, <4>2
        <5>2. queue'[j - 1] = queue[j] BY <2>3, <5>1
        <5> QED BY <3>1, <5>1, <5>2
      <4> QED BY <4>1, <4>2 DEF JoinedIsLast
    <3>2. CASE NoneReady' /\ event' = "JOINED"
      <4>1. 1 \in 1..Len(queue) /\ queue[1] = "JOINED" BY <2>3, <3>2
      <4>2. NoneReady BY <2>4, <3>2 DEF ReadyEvents
      <4>3. \A j \in 1 + 1..Len(queue) : queue[j] \notin ReadyEvents BY <2>3, <4>2 DEF NoneReady
      <4> QED BY <4>1, <4>3 DEF JoinedIsLast
    <3>3. CASE NoneReady' /\ event' \notin ReadyEvents /\ told' = "JOINED"
      BY <2>1, <2>2, <2>4, <3>3 DEF JoinedIsLast
    <3> QED BY <2>2, <2>5, <3>1, <3>2, <3>3 DEF JoinedIsLast
  <2>6. OutOfNetwork' => OutOfNetwork BY <2>1 DEF OutOfNetwork
  <2>7. LossReported' BY <1>m, <2>1, <2>5, <2>6, LossKept
  <2>8. Deciding' BY <1>m, <2>1 DEF Deciding
  <2> QED BY <2>7, <2>8
<1>2. CASE DispSwallow
  <2>1. PICK l : /\ pc[Disp] = "swallow" /\ pc' = [pc EXCEPT ![Disp] = l]
                 /\ l \in {"clear_active", "deliver"} \/ (l = "check_retries" /\ event = "JOIN_FAILED")
    BY <1>2 DEF DispSwallow, At, Goto, GotoWith
  <2>2. UNCHANGED <<queue, lost, event, told, ready, modem>> BY <1>2 DEF DispSwallow, events, backend
  <2>3. Holding' = Holding BY <1>m, <2>1 DEF Holding
  <2>4. LossReported' BY <1>q, <2>1, <2>2, <2>3
  <2>5. Deciding' BY <1>m, <2>1, <2>2 DEF Deciding
  <2> QED BY <2>4, <2>5
<1>3. CASE DispCheckRetries
  <2>1. PICK l : pc[Disp] = "check_retries" /\ pc' = [pc EXCEPT ![Disp] = l] /\ l \in {"decrement", "clear_active"}
    BY <1>3 DEF DispCheckRetries, At, Goto, GotoWith
  <2>2. UNCHANGED <<queue, lost, event, told, ready, modem>> BY <1>3 DEF DispCheckRetries, events, backend
  <2>3. Holding' = Holding BY <1>m, <2>1 DEF Holding
  <2>4. LossReported' BY <1>q, <2>1, <2>2, <2>3
  <2>5. Deciding' BY <1>3, <1>m, <2>1, <2>2 DEF Deciding
  <2> QED BY <2>4, <2>5
<1>4. CASE DispDecrement
  <2>1. /\ pc[Disp] = "decrement" /\ pc' = [pc EXCEPT ![Disp] = "check_overflow"]
        /\ UNCHANGED <<queue, lost, told, ready, modem>>
    BY <1>4 DEF DispDecrement, At, Goto, GotoWith, events, backend
  <2>2. event = "JOIN_FAILED" BY <2>1 DEF Deciding
  <2>3. Holding /\ ~Holding' BY <1>m, <2>1 DEF Holding
  <2>4. JoinedIsLast' => JoinedIsLast BY <2>1, <2>2, <2>3 DEF JoinedIsLast, NoneReady, ReadyEvents
  <2>5. OutOfNetwork' => OutOfNetwork BY <2>1 DEF OutOfNetwork
  <2>6. LossReported' BY <1>m, <2>1, <2>4, <2>5, LossKept
  <2> QED BY <1>m, <2>1, <2>6 DEF Deciding
<1>5. CASE ClearActive(Disp)
  <2>1. PICK l : pc[Disp] = "clear_active" /\ pc' = [pc EXCEPT ![Disp] = l] /\ l \in {"clear_retries"}
    BY <1>5 DEF ClearActive, At, Goto, GotoWith
  <2>2. UNCHANGED <<queue, lost, event, told, ready, modem>> BY <1>5 DEF ClearActive, events, backend
  <2>3. Holding' = Holding BY <1>m, <2>1 DEF Holding
  <2>4. LossReported' BY <1>q, <2>1, <2>2, <2>3
  <2>5. Deciding' BY <1>5, <1>m, <2>1, <2>2 DEF Deciding
  <2> QED BY <2>4, <2>5
<1>6. CASE ClearRetries(Disp)
  <2>1. PICK l : pc[Disp] = "clear_retries" /\ pc' = [pc EXCEPT ![Disp] = l] /\ l \in {"disown"}
    BY <1>6 DEF ClearRetries, At, Goto, GotoWith
  <2>2. UNCHANGED <<queue, lost, event, told, ready, modem>> BY <1>6 DEF ClearRetries, events, backend
  <2>3. Holding' = Holding BY <1>m, <2>1 DEF Holding
  <2>4. LossReported' BY <1>q, <2>1, <2>2, <2>3
  <2>5. Deciding' BY <1>6, <1>m, <2>1, <2>2 DEF Deciding
  <2> QED BY <2>4, <2>5
<1>7. CASE Disown(Disp)
  <2>1. PICK l : pc[Disp] = "disown" /\ pc' = [pc EXCEPT ![Disp] = l] /\ l \in {"deliver", "limit_leave"}
    BY <1>7 DEF Disown, At, Goto, GotoWith
  <2>2. UNCHANGED <<queue, lost, event, told, ready, modem>> BY <1>7 DEF Disown, events, backend
  <2>3. Holding' = Holding BY <1>m, <2>1 DEF Holding
  <2>4. LossReported' BY <1>q, <2>1, <2>2, <2>3
  <2>5. Deciding' BY <1>7, <1>m, <2>1, <2>2 DEF Deciding
  <2> QED BY <2>4, <2>5
<1>8. CASE DispLimitLeave
  <2>1. pc[Disp] = "limit_leave" /\ pc' = [pc EXCEPT ![Disp] = "publish_ready"]
    BY <1>8 DEF DispLimitLeave, Leave, LeaveFails, At, Goto, GotoWith
  <2>2. LossReported' BY <1>m, <2>1 DEF LossReported
  <2> QED BY <1>m, <2>1, <2>2 DEF Deciding
<1>9. CASE DispPublishReady
  <2>1. pc'[Disp] = "deliver" BY <1>9 DEF DispPublishReady, Goto, GotoWith, ControlOK
  <2> QED BY <1>9, <2>1, PublishLoss DEF DispPublishReady, Deciding
<1>10. CASE DispDeliver
  <2>1. /\ pc[Disp] = "deliver" /\ pc' = [pc EXCEPT ![Disp] = "check_overflow"]
        /\ UNCHANGED <<queue, lost, ready, modem>>
        /\ told' = IF event \in Network THEN event ELSE told
    BY <1>10 DEF DispDeliver, At, Goto, GotoWith, events, backend
  <2>2. Holding /\ ~Holding' BY <1>m, <2>1 DEF Holding
  <2>3. JoinedIsLast' => JoinedIsLast
    BY <2>1, <2>2 DEF JoinedIsLast, NoneReady, Network, ReadyEvents
  <2>4. OutOfNetwork' => OutOfNetwork BY <2>1 DEF OutOfNetwork
  <2>5. LossReported' BY <1>m, <2>1, <2>3, <2>4, LossKept
  <2> QED BY <1>m, <2>1, <2>5 DEF Deciding
<1>11. CASE DispCheckOverflow
  <2>1. PICK l : pc[Disp] = "check_overflow" /\ pc' = [pc EXCEPT ![Disp] = l] /\ l \in {"deliver_overflow", "get"}
    BY <1>11 DEF DispCheckOverflow, At, Goto, GotoWith
  <2>2. UNCHANGED <<queue, lost, event, told, ready, modem>> BY <1>11 DEF DispCheckOverflow, events, backend
  <2>3. Holding' = Holding BY <1>m, <2>1 DEF Holding
  <2>4. LossReported' BY <1>q, <2>1, <2>2, <2>3
  <2>5. Deciding' BY <1>11, <1>m, <2>1, <2>2 DEF Deciding
  <2> QED BY <2>4, <2>5
<1>12. CASE DispDeliverOverflow
  <2>1. PICK l : pc[Disp] = "deliver_overflow" /\ pc' = [pc EXCEPT ![Disp] = l] /\ l \in {"get"}
    BY <1>12 DEF DispDeliverOverflow, At, Goto, GotoWith
  <2>2. UNCHANGED <<queue, lost, event, told, ready, modem>> BY <1>12 DEF DispDeliverOverflow, events, backend
  <2>3. Holding' = Holding BY <1>m, <2>1 DEF Holding
  <2>4. LossReported' BY <1>q, <2>1, <2>2, <2>3
  <2>5. Deciding' BY <1>12, <1>m, <2>1, <2>2 DEF Deciding
  <2> QED BY <2>4, <2>5
<1> QED BY <1>1, <1>2, <1>3, <1>4, <1>5, <1>6, <1>7, <1>8, <1>9, <1>10, <1>11, <1>12 DEF DispNext

\* Every step of the modem engine keeps LossReported.
LEMMA EngineLoss ==
    ASSUME TypeOK, LossReported, Deciding, EngineNext
    PROVE  LossReported' /\ Deciding'
<1> USE DEF TypeOK
<1>d. UNCHANGED <<pc, event, told>>
  BY DEF EngineNext, ModemReset, ModemJoinFail, ModemJoined, ModemTxDone, ModemDownlink
<1>e. Deciding' /\ Holding' = Holding BY <1>d DEF Deciding, Holding
<1>p. ASSUME NEW e \in Events \ Network, publish(Engine, e), ready' = ready, modem'.state = modem.state
      PROVE  LossReported'
  <2>1. CASE lost' BY <2>1 DEF LossReported
  <2>2. CASE ~lost'
    <3>1. JoinedIsLast' => JoinedIsLast BY <1>d, <1>e, <1>p, <2>2, PlainPublish
    <3>2. OutOfNetwork' => OutOfNetwork BY <1>p DEF OutOfNetwork, publish
    <3> QED BY <1>d, <3>1, <3>2, LossKept
  <2> QED BY <2>1, <2>2
<1>n. {"JOIN_FAILED", Other} \subseteq Events \ Network BY DEF Other, Events, Network, ReadyEvents
<1>1. CASE ModemReset
  BY <1>1, <1>e, ResetLoss DEF ModemReset
<1>2. CASE ModemJoinFail
  BY <1>2, <1>e, <1>n, <1>p DEF ModemJoinFail, BackendOK
<1>3. CASE ModemJoined
  <2>1. modem'.state = "joined" BY <1>3 DEF ModemJoined, BackendOK
  <2> QED BY <1>e, <2>1 DEF LossReported
<1>4. CASE ModemTxDone
  BY <1>4, <1>e, <1>n, <1>p DEF ModemTxDone, BackendOK
<1>5. CASE ModemDownlink
  BY <1>5, <1>e, <1>n, <1>p DEF ModemDownlink, backend
<1> QED BY <1>1, <1>2, <1>3, <1>4, <1>5 DEF EngineNext

\* LossReported, with the dispatcher's knowledge of what it holds, is inductive.
LEMMA LossStep == TypeOK /\ LossReported /\ Deciding /\ [Next]_vars => LossReported' /\ Deciding'
<1> SUFFICES ASSUME TypeOK, LossReported, Deciding, [Next]_vars PROVE LossReported' /\ Deciding'
  OBVIOUS
<1>1. ASSUME NEW t \in Threads, ThreadNext(t) PROVE LossReported' /\ Deciding'
  BY <1>1, ThreadLoss
<1>2. CASE DispNext BY <1>2, DispLoss
<1>3. CASE EngineNext BY <1>3, EngineLoss
<1>4. ASSUME NEW a \in Actors, FlagOverflow(a) PROVE LossReported' /\ Deciding'
  BY <1>4 DEF FlagOverflow, backend, LossReported, JoinedIsLast, NoneReady, Holding, Deciding
<1>5. CASE UNCHANGED vars
  BY <1>5 DEF vars, LossReported, JoinedIsLast, NoneReady, Holding, Deciding
<1> QED BY <1>1, <1>2, <1>3, <1>4, <1>5 DEF Next

\* For every number of threads and every queue size: a session that a leave, a stop, the
\* retry limit or a modem reset ended is always followed by a READY event, as long as
\* the queue has not overflowed.
THEOREM LossIsReported == Spec => []LossReported
<1>1. Init => TypeOK /\ CounterOK /\ LossReported /\ Deciding
  <2>1. Init => LossReported /\ Deciding BY DEF Init, LossReported, Deciding
  <2> QED BY <2>1, TypeInit
<1>2. TypeOK /\ CounterOK /\ LossReported /\ Deciding /\ [Next]_vars
        => TypeOK' /\ CounterOK' /\ LossReported' /\ Deciding'
  BY TypeStep, LossStep
<1> QED BY <1>1, <1>2, PTL DEF Spec

-----------------------------------------------------------------------------
(* The credentials a modem joins with *)

\* begin_join() carries the stored credentials, unless they were changed since it read them.
ConfigCurrent == \A t \in Threads : pc[t] \in Reading => loc[t].cfg = cred \/ loc[t].raced

\* A step that leaves the threads where they are, gives up the credentials or keeps
\* them, and begins no join.
LEMMA CredentialsFrame ==
    ASSUME ConfigCurrent, CredentialsUsed,
           \A t \in Threads : pc'[t] = pc[t], loc' = loc, cred' = cred, owned' => owned,
           modem'.state = "joining" =>
               modem.state = "joining" /\ modem'.cred = modem.cred /\ modem'.raced = modem.raced
    PROVE  ConfigCurrent' /\ CredentialsUsed'
BY DEF ConfigCurrent, CredentialsUsed

\* A thread goes on outside begin_join(), or gives up the credentials.
LEMMA CredentialsMove ==
    ASSUME ControlOK, ConfigCurrent, CredentialsUsed, NEW t \in Threads, NEW l,
           pc' = [pc EXCEPT ![t] = l], l \notin Reading, cred' = cred,
           \A u \in Threads : u # t => loc'[u] = loc[u],
           owned' => owned /\ pc[t] \notin Claiming,
           modem'.state = "joining" =>
               modem.state = "joining" /\ modem'.cred = modem.cred /\ modem'.raced = modem.raced
    PROVE  ConfigCurrent' /\ CredentialsUsed'
<1>1. pc'[t] = l /\ \A u \in Threads : u # t => pc'[u] = pc[u] BY DEF ControlOK
<1>2. ConfigCurrent' BY <1>1 DEF ConfigCurrent
<1>3. owned' => \A u \in Threads : pc'[u] \notin Claiming => pc[u] \notin Claiming BY <1>1
<1> QED BY <1>2, <1>3 DEF CredentialsUsed

\* A thread takes another step of begin_join(), without changing what it carries.
LEMMA CredentialsCarry ==
    ASSUME ControlOK, ConfigCurrent, CredentialsUsed, NEW t \in Threads, NEW l,
           pc' = [pc EXCEPT ![t] = l], pc[t] \in Reading, loc' = loc, cred' = cred, modem' = modem,
           l \in Claiming \/ (owned' => owned /\ pc[t] \notin Claiming)
    PROVE  ConfigCurrent' /\ CredentialsUsed'
<1>1. pc'[t] = l /\ \A u \in Threads : u # t => pc'[u] = pc[u] BY DEF ControlOK
<1>2. ConfigCurrent' BY <1>1 DEF ConfigCurrent
<1>3. CASE l \in Claiming BY <1>1, <1>2, <1>3 DEF CredentialsUsed
<1>4. CASE owned' => owned /\ pc[t] \notin Claiming
  <2>1. owned' => \A u \in Threads : pc'[u] \notin Claiming => pc[u] \notin Claiming BY <1>1, <1>4
  <2> QED BY <1>2, <1>4, <2>1 DEF CredentialsUsed
<1> QED BY <1>3, <1>4

\* Every step of a thread: the stored credentials change only while no sequence owns them,
\* and a begin_join() that has read them is then marked.
LEMMA ThreadCredentials ==
    ASSUME TypeOK, ConfigCurrent, CredentialsUsed, NEW t \in Threads, ThreadNext(t)
    PROVE  ConfigCurrent' /\ CredentialsUsed'
<1> USE DEF TypeOK
<1>a. t # Disp BY ServiceAssumption
<1>b. /\ \A l \in {"idle", "publish_starting", "backend_start", "on_started", "publish_stopped",
             "policy", "get_attempts", "build_config", "was_active", "clear_active",
             "clear_retries", "disown", "is_joined", "stop_leave", "publish_ready", "send"} :
           l \notin Reading
      /\ \A l \in {"idle", "publish_starting", "backend_start", "on_started", "publish_stopped",
             "policy", "get_attempts", "build_config", "was_active", "cas", "set_retries", "own",
             "is_joined", "stop_leave", "publish_ready", "send"} : l \notin Claiming
  BY DEF Reading, Claiming
<1>f. (\E c \in Creds : SetCred(t, c)) \/ \A u \in Threads : u # t => loc'[u] = loc[u]
  BY DEF ThreadNext, InitCall, InitRegionFails, InitPublish, InitStart, InitOnStarted, InitFails,
     InitStopped, JoinCall, JoinPolicy, JoinPolicyFails, BeginReadFails, BeginAttempts, BeginConfig,
     BeginCas, BeginRetries, BeginOwn, BeginPublish, BeginJoin, BeginJoinFails, ClearActive,
     ClearRetries, Disown, StopRead, StopIsJoined, StopLeave, LeaveCall, Leave, LeaveFails,
     PublishReady, SendCall, Send, Goto, GotoWith, ControlOK
<1>29. CASE \E c \in Creds : SetCred(t, c)
  <2>1. PICK c \in Creds : SetCred(t, c) BY <1>29
  <2>2. ~owned /\ ~owned' /\ pc' = pc /\ StoreCred(c) BY <2>1 DEF SetCred
  <2>3. ASSUME NEW u \in Threads, pc[u] \in Reading PROVE loc'[u].cfg = cred' \/ loc'[u].raced
    BY <2>2, <2>3, StoreFields DEF StoreCred, ConfigCurrent
  <2> QED BY <2>2, <2>3 DEF ConfigCurrent, CredentialsUsed
<1> SUFFICES ASSUME \A u \in Threads : u # t => loc'[u] = loc[u]
             PROVE  ConfigCurrent' /\ CredentialsUsed'
  BY <1>f, <1>29
<1>c. ASSUME NEW l, l \notin Reading, pc' = [pc EXCEPT ![t] = l], pc[t] \notin Claiming,
             cred' = cred, owned' = owned, modem' = modem
      PROVE  ConfigCurrent' /\ CredentialsUsed'
  BY <1>c, CredentialsMove
<1>1. CASE InitCall(t) \/ InitRegionFails(t)
  BY <1>1, <1>b, <1>c DEF InitCall, InitRegionFails, At, Goto, GotoWith, backend
<1>2. CASE InitPublish(t)
  BY <1>2, <1>b, <1>c DEF InitPublish, At, Goto, GotoWith, service, backend
<1>3. CASE InitStart(t)
  BY <1>3, <1>b, <1>c DEF InitStart, At, Goto, GotoWith, service
<1>4. CASE InitOnStarted(t)
  BY <1>4, <1>b, <1>c DEF InitOnStarted, At, Goto, GotoWith, service, backend
<1>5. CASE InitFails(t)
  BY <1>5, <1>b, <1>c DEF InitFails, At, Goto, GotoWith, backend
<1>6. CASE InitStopped(t)
  BY <1>6, <1>b, <1>c DEF InitStopped, At, Goto, GotoWith, service, backend
<1>7. CASE \E start \in {"start", "stop", "keep"}, att \in Attempts \cup {Keep} : JoinCall(t, start, att)
  BY <1>7, <1>b, <1>c DEF JoinCall, At, GotoWith, service, backend
<1>8. CASE JoinPolicy(t)
  BY <1>8, <1>b, <1>c DEF JoinPolicy, At, GotoWith, backend
<1>9. CASE JoinPolicyFails(t) \/ BeginReadFails(t)
  BY <1>9, <1>b, <1>c DEF JoinPolicyFails, BeginReadFails, At, Goto, GotoWith, service, backend
<1>11. CASE BeginAttempts(t)
  BY <1>11, <1>b, <1>c DEF BeginAttempts, At, GotoWith, service, backend
<1>12. CASE BeginConfig(t)
  <2>1. /\ pc[t] \notin Claiming /\ pc' = [pc EXCEPT ![t] = "cas"] /\ loc' = [loc EXCEPT ![t].cfg = cred]
        /\ UNCHANGED <<cred, owned, modem>>
    BY <1>12, <1>b DEF BeginConfig, At, GotoWith, service, backend
  <2>2. loc'[t].cfg = cred /\ \A u \in Threads : u # t => pc'[u] = pc[u] /\ loc'[u] = loc[u]
    BY <2>1 DEF ControlOK, Locals
  <2>3. ConfigCurrent' BY <2>1, <2>2 DEF ConfigCurrent
  <2>4. \A u \in Threads : pc'[u] \notin Claiming => pc[u] \notin Claiming BY <2>1, <2>2
  <2> QED BY <2>1, <2>3, <2>4 DEF CredentialsUsed
<1>13. CASE BeginCas(t)
  <2>1. pc[t] = "cas" /\ UNCHANGED <<cred, owned, modem>>
    BY <1>13 DEF BeginCas, At, service, backend
  <2>2. CASE active
    <3>1. pc' = [pc EXCEPT ![t] = "idle"] BY <1>13, <2>2 DEF BeginCas, Goto, GotoWith
    <3> QED BY <1>b, <1>c, <2>1, <3>1
  <2>3. CASE ~active
    <3>1. pc' = [pc EXCEPT ![t] = "set_retries"] /\ loc' = loc
      BY <1>13, <2>3 DEF BeginCas, Goto, GotoWith
    <3>2. "cas" \in Reading BY DEF Reading
    <3> QED BY <1>b, <2>1, <3>1, <3>2, CredentialsCarry
  <2> QED BY <2>2, <2>3
<1>14. CASE BeginRetries(t)
  <2>1. pc[t] = "set_retries" /\ pc' = [pc EXCEPT ![t] = "own"] /\ loc' = loc /\ UNCHANGED <<cred, owned, modem>>
    BY <1>14 DEF BeginRetries, At, Goto, GotoWith, backend
  <2>2. "set_retries" \in Reading BY DEF Reading
  <2> QED BY <1>b, <2>1, <2>2, CredentialsCarry
<1>15. CASE BeginOwn(t)
  <2>1. pc[t] = "own" /\ pc' = [pc EXCEPT ![t] = "publish_joining"] /\ loc' = loc /\ UNCHANGED <<cred, modem>>
    BY <1>15 DEF BeginOwn, At, Goto, GotoWith, backend
  <2>2. "own" \in Reading /\ "publish_joining" \in Claiming BY DEF Reading, Claiming
  <2> QED BY <2>1, <2>2, CredentialsCarry
<1>16. CASE BeginPublish(t)
  <2>1. pc[t] = "publish_joining" /\ pc' = [pc EXCEPT ![t] = "backend_join"] /\ loc' = loc /\ UNCHANGED <<cred, modem>>
    BY <1>16 DEF BeginPublish, At, Goto, GotoWith, service, backend
  <2>2. "publish_joining" \in Reading /\ "backend_join" \in Claiming BY DEF Reading, Claiming
  <2> QED BY <2>1, <2>2, CredentialsCarry
<1>17. CASE BeginJoin(t)
  <2>1. /\ pc[t] = "backend_join" /\ pc' = [pc EXCEPT ![t] = "idle"] /\ cred' = cred
        /\ loc' = [loc EXCEPT ![t] = NoLoc]
        /\ modem' = [modem EXCEPT !.state = "joining", !.cred = loc[t].cfg, !.fails = 0,
                                  !.raced = loc[t].raced]
    BY <1>17 DEF BeginJoin, At, Goto, GotoWith, service
  <2>2. loc[t].cfg = cred \/ loc[t].raced BY <2>1 DEF ConfigCurrent, Reading
  <2>3. modem'.cred = cred' \/ modem'.raced BY <2>1, <2>2 DEF BackendOK
  <2>4. ConfigCurrent' BY <1>b, <2>1 DEF ConfigCurrent, ControlOK
  <2> QED BY <2>3, <2>4 DEF CredentialsUsed
<1>e. ASSUME NEW l \in {"clear_active", "clear_retries", "disown"}, pc' = [pc EXCEPT ![t] = l],
             UNCHANGED <<cred, modem>>, \A u \in Threads : u # t => loc'[u] = loc[u]
      PROVE  ConfigCurrent' /\ CredentialsUsed'
  <2>1. pc'[t] \in Claiming /\ pc'[t] \notin Reading BY <1>e DEF ControlOK, Claiming, Reading
  <2>2. \A u \in Threads : u # t => pc'[u] = pc[u] BY <1>e DEF ControlOK
  <2> QED BY <1>e, <2>1, <2>2 DEF ConfigCurrent, CredentialsUsed
<1>18. CASE BeginJoinFails(t)
  BY <1>18, <1>e DEF BeginJoinFails, GotoWith, service, backend, ControlOK
<1>19. CASE ClearActive(t)
  BY <1>19, <1>e DEF ClearActive, Goto, GotoWith, backend
<1>20. CASE ClearRetries(t)
  BY <1>20, <1>e DEF ClearRetries, Goto, GotoWith, backend
<1>21. CASE Disown(t)
  <2>1. loc[t].then \notin Reading BY <1>b DEF ControlOK, Locals
  <2>2. pc' = [pc EXCEPT ![t] = loc[t].then] BY <1>21, <1>a DEF Disown, Goto, GotoWith
  <2>3. owned' = FALSE /\ cred' = cred /\ modem' = modem BY <1>21 DEF Disown, backend
  <2> QED BY <2>1, <2>2, <2>3, CredentialsMove
<1>22. CASE StopRead(t)
  BY <1>22, <1>b, <1>c DEF StopRead, At, GotoWith, service, backend
<1>23. CASE StopIsJoined(t)
  BY <1>23, <1>b, <1>c DEF StopIsJoined, At, Goto, GotoWith, service, backend
<1>d. ASSUME NEW l, NEW after, l \notin Claiming, after \notin Reading, Leave(t, l, after)
      PROVE  ConfigCurrent' /\ CredentialsUsed'
  <2>1. pc[t] \notin Claiming /\ pc' = [pc EXCEPT ![t] = after] /\ UNCHANGED <<cred, owned>>
    BY <1>d DEF Leave, At, Goto, GotoWith, service
  <2>2. modem'.state = "idle" BY <1>d DEF Leave, ModemLeave, BackendOK
  <2> QED BY <1>d, <2>1, <2>2, CredentialsMove
<1>24. CASE StopLeave(t)
  <2>1. CASE Leave(t, "stop_leave", "publish_ready") BY <2>1, <1>b, <1>d
  <2>2. CASE LeaveFails(t, "stop_leave", "idle")
    BY <2>2, <1>b, <1>c DEF LeaveFails, At, Goto, GotoWith, service, backend
  <2> QED BY <1>24, <2>1, <2>2 DEF StopLeave
<1>25. CASE LeaveCall(t)
  BY <1>25, <1>b, <1>d DEF LeaveCall
<1>26. CASE PublishReady(t)
  BY <1>26, <1>b, <1>c DEF PublishReady, At, Goto, GotoWith, service, backend
<1>27. CASE SendCall(t)
  BY <1>27, <1>b, <1>c DEF SendCall, At, Goto, GotoWith, service, backend
<1>28. CASE Send(t)
  <2>1. pc[t] \notin Claiming /\ pc' = [pc EXCEPT ![t] = "idle"] /\ UNCHANGED <<cred, owned>>
    BY <1>28, <1>b DEF Send, At, Goto, GotoWith, service
  <2>2. modem'.state = modem.state /\ modem'.cred = modem.cred /\ modem'.raced = modem.raced
    BY <1>28 DEF Send, BackendOK
  <2> QED BY <1>b, <2>1, <2>2, CredentialsMove
<1> QED BY <1>1, <1>2, <1>3, <1>4, <1>5, <1>6, <1>7, <1>8, <1>9, <1>11, <1>12, <1>13, <1>14, <1>15, <1>16, <1>17, <1>18, <1>19, <1>20, <1>21, <1>22, <1>23, <1>24, <1>25, <1>26, <1>27, <1>28, <1>29 DEF ThreadNext

\* The dispatcher can only give the credentials up, and take the modem out of a join.
LEMMA DispCredentials ==
    ASSUME TypeOK, ConfigCurrent, CredentialsUsed, DispNext
    PROVE  ConfigCurrent' /\ CredentialsUsed'
<1> USE DEF TypeOK
<1>1. PICK l \in DispLabels : Goto(Disp, l)
  BY DEF DispNext, DispGet, DispSwallow, DispCheckRetries, DispDecrement, ClearActive, ClearRetries,
     Disown, DispLimitLeave, Leave, LeaveFails, DispPublishReady, DispDeliver, DispCheckOverflow,
     DispDeliverOverflow, DispLabels
<1>2. l # "idle" BY DEF DispLabels
<1>3. loc' = loc /\ \A t \in Threads : pc'[t] = pc[t]
  BY <1>1, <1>2, ServiceAssumption DEF Goto, GotoWith, ControlOK
<1>4. cred' = cred /\ (owned' => owned)
  BY DEF DispNext, DispGet, DispSwallow, DispCheckRetries, DispDecrement, ClearActive, ClearRetries,
     Disown, DispLimitLeave, Leave, LeaveFails, DispPublishReady, DispDeliver, DispCheckOverflow,
     DispDeliverOverflow, service
<1>5. modem' = modem \/ ModemLeave
  BY DEF DispNext, DispGet, DispSwallow, DispCheckRetries, DispDecrement, ClearActive, ClearRetries,
     Disown, DispLimitLeave, Leave, LeaveFails, DispPublishReady, DispDeliver, DispCheckOverflow,
     DispDeliverOverflow, backend
<1>6. modem'.state = "joining" =>
          modem.state = "joining" /\ modem'.cred = modem.cred /\ modem'.raced = modem.raced
  BY <1>5 DEF ModemLeave, BackendOK
<1> QED BY <1>3, <1>4, <1>6, CredentialsFrame

\* The engine begins no join.
LEMMA EngineCredentials ==
    ASSUME TypeOK, ConfigCurrent, CredentialsUsed, EngineNext
    PROVE  ConfigCurrent' /\ CredentialsUsed'
<1>1. pc' = pc /\ loc' = loc /\ UNCHANGED service
  BY DEF EngineNext, ModemReset, ModemJoinFail, ModemJoined, ModemTxDone, ModemDownlink
<1>2. modem'.state = "joining" =>
          modem.state = "joining" /\ modem'.cred = modem.cred /\ modem'.raced = modem.raced
  BY DEF EngineNext, ModemReset, ModemJoinFail, ModemJoined, ModemTxDone, ModemDownlink, backend,
     TypeOK, BackendOK
<1> QED BY <1>1, <1>2, CredentialsFrame DEF service

\* For any number of threads, and whatever the dispatcher, resets and failing calls do in
\* between: while a sequence owns the credentials the modem joins with the stored ones,
\* unless another thread changed them after the begin_join() of this join had read them.
THEOREM CredentialsAreUsed == Spec => []CredentialsUsed
<1>1. Init => ConfigCurrent /\ CredentialsUsed
  <2> SUFFICES ASSUME Init PROVE ConfigCurrent /\ CredentialsUsed OBVIOUS
  <2>1. owned = FALSE /\ \A t \in Threads : pc[t] = "idle" BY ServiceAssumption DEF Init
  <2>2. "idle" \notin Reading BY DEF Reading
  <2> QED BY <2>1, <2>2 DEF ConfigCurrent, CredentialsUsed
<1>2. TypeOK /\ ConfigCurrent /\ CredentialsUsed /\ [Next]_vars => ConfigCurrent' /\ CredentialsUsed'
  <2> SUFFICES ASSUME TypeOK, ConfigCurrent, CredentialsUsed, [Next]_vars PROVE ConfigCurrent' /\ CredentialsUsed'
    OBVIOUS
  <2>1. ASSUME NEW t \in Threads, ThreadNext(t) PROVE ConfigCurrent' /\ CredentialsUsed'
    BY <2>1, ThreadCredentials
  <2>2. CASE DispNext BY <2>2, DispCredentials
  <2>3. CASE EngineNext BY <2>3, EngineCredentials
  <2>4. ASSUME NEW a \in Actors, FlagOverflow(a) PROVE ConfigCurrent' /\ CredentialsUsed'
    BY <2>4, CredentialsFrame DEF FlagOverflow, service, backend
  <2>5. CASE UNCHANGED vars BY <2>5, CredentialsFrame DEF vars
  <2> QED BY <2>1, <2>2, <2>3, <2>4, <2>5 DEF Next
<1> QED BY <1>1, <1>2, TypeCorrect, PTL DEF Spec

-----------------------------------------------------------------------------
(* A sequence that nobody will end *)

\* The application neither stops nor leaves, the modem does not reset on its own, and LBM
\* spaces its attempts.
QuietClient == (\A t \in Threads : Ops[t] \cap {"stop", "leave"} = {}) /\ MaxResets = 0 /\ Backoff

\* No thread is, or will be, in stop_join().
NoStops ==
    \A t \in Threads : /\ pc[t] \notin {"was_active", "is_joined", "stop_leave"}
                       /\ loc[t].start # "stop" /\ loc[t].then # "is_joined"

\* What the dispatcher works on at the steps of swallow_join_event().
WorksOn ==
    /\ pc[Disp] \in {"check_retries", "decrement", "limit_leave"} => event = "JOIN_FAILED"
    /\ pc[Disp] \in {"clear_active", "clear_retries", "disown"} => event \in {"JOINED", "JOIN_FAILED"}

\* A JOIN_FAILED in the dispatcher's hands or in the queue is about the join the modem is
\* still trying, and there is at most one.
HeldFailure ==
    event = "JOIN_FAILED" /\ pc[Disp] \in {"swallow", "check_retries", "decrement", "clear_active",
                                           "clear_retries", "disown", "limit_leave"}
        => modem.state = "joining"
NoneFailed == \A i \in 1..Len(queue) : queue[i] # "JOIN_FAILED"
OneFailed ==
    \A i, j \in 1..Len(queue) : queue[i] = "JOIN_FAILED" /\ queue[j] = "JOIN_FAILED" => i = j
QueuedFailure == NoneFailed \/ (modem.state = "joining" /\ event # "JOIN_FAILED" /\ OneFailed)

\* The dispatcher has ended the sequence and is about to stop the modem.
Cleared == event = "JOIN_FAILED" /\ pc[Disp] \in {"clear_retries", "disown", "limit_leave"}
Beginning == {"set_retries", "own", "publish_joining", "backend_join", "clear_active"}

\* A thread will join or clear an active sequence, or the modem works on it and the
\* dispatcher is not about to stop it.
Carried ==
    active => \/ \E t \in Threads : pc[t] \in Beginning
              \/ modem.state \in {"joining", "joined"} /\ ~Cleared

BlockInv == NoStops /\ WorksOn /\ HeldFailure /\ QueuedFailure /\ Carried

\* Publishing any other event keeps the count of failures.
LEMMA PublishOther ==
    ASSUME QueueOK, NEW a, NEW e, e # "JOIN_FAILED", publish(a, e)
    PROVE  (NoneFailed => NoneFailed') /\ (OneFailed => OneFailed')
<1>1. CASE queue' = queue BY <1>1 DEF NoneFailed, OneFailed
<1>2. CASE queue' = Append(queue, e)
  <2>1. queue \in Seq(Events) /\ Len(queue) \in Nat BY DEF QueueOK
  <2>2. /\ Len(queue') = Len(queue) + 1 /\ queue'[Len(queue) + 1] = e
        /\ \A i \in 1..Len(queue) : queue'[i] = queue[i]
    BY <1>2, <2>1
  <2>3. \A i \in 1..Len(queue') : queue'[i] = "JOIN_FAILED" => i \in 1..Len(queue) /\ queue[i] = "JOIN_FAILED"
    BY <2>1, <2>2
  <2> QED BY <2>3 DEF NoneFailed, OneFailed
<1> QED BY <1>1, <1>2 DEF publish

\* A step of thread t that leaves the modem's join and the dispatcher alone.
LEMMA BlockMove ==
    ASSUME ControlOK, BlockInv, NEW t \in Threads, NEW l,
           l \notin {"was_active", "is_joined", "stop_leave"}, pc' = [pc EXCEPT ![t] = l],
           loc' = loc \/ loc' = [loc EXCEPT ![t] = NoLoc],
           active' => active, pc[t] \in Beginning => l \in Beginning \/ ~active',
           event' = event, modem'.state = modem.state, QueuedFailure'
    PROVE  BlockInv'
<1>1. t # Disp /\ pc'[t] = l /\ pc'[Disp] = pc[Disp] BY ServiceAssumption DEF ControlOK
<1>2. NoStops'
  <2>1. NoLoc.start # "stop" /\ NoLoc.then # "is_joined" BY DEF NoLoc
  <2> QED BY <1>1, <2>1 DEF BlockInv, NoStops, ControlOK
<1>3. WorksOn' /\ HeldFailure' /\ Cleared' = Cleared
  BY <1>1 DEF BlockInv, WorksOn, HeldFailure, Cleared
<1>4. Carried'
  <2> SUFFICES ASSUME active' PROVE Carried' BY DEF Carried
  <2>1. CASE \E u \in Threads : pc[u] \in Beginning
    <3>1. PICK u \in Threads : pc[u] \in Beginning BY <2>1
    <3>2. pc'[u] \in Beginning BY <1>1, <3>1 DEF ControlOK
    <3> QED BY <3>2 DEF Carried
  <2>2. CASE modem.state \in {"joining", "joined"} /\ ~Cleared
    BY <1>3, <2>2 DEF Carried
  <2> QED BY <2>1, <2>2 DEF BlockInv, Carried
<1> QED BY <1>2, <1>3, <1>4 DEF BlockInv

\* Every step of a thread: only BeginCas makes a sequence active, and its caller stays
\* responsible for it until the modem has taken the join or the flag is cleared.
LEMMA ThreadBlock ==
    ASSUME QuietClient, TypeOK, BlockInv, NEW t \in Threads, ThreadNext(t)
    PROVE  BlockInv'
<1> USE DEF TypeOK
<1>a. t # Disp BY ServiceAssumption
<1>b. /\ "leave" \notin Ops[t] /\ "stop" \notin Ops[t] BY DEF QuietClient
<1>s. /\ pc[t] \notin {"was_active", "is_joined", "stop_leave"}
      /\ loc[t].start # "stop" /\ loc[t].then # "is_joined"
  BY DEF BlockInv, NoStops
<1>q. ASSUME queue' = queue, event' = event, modem'.state = modem.state PROVE QueuedFailure'
  BY <1>q DEF BlockInv, QueuedFailure, NoneFailed, OneFailed
<1>p. ASSUME NEW e, e # "JOIN_FAILED", publish(t, e), event' = event, modem'.state = modem.state
      PROVE  QueuedFailure'
  BY <1>p, PublishOther DEF BlockInv, QueuedFailure
<1>g. ASSUME NEW l, Goto(t, l)
      PROVE  pc' = [pc EXCEPT ![t] = l] /\ (loc' = loc \/ loc' = [loc EXCEPT ![t] = NoLoc])
  BY <1>g DEF Goto, GotoWith
<1>r. Other # "JOIN_FAILED" BY DEF Other
<1>1. CASE InitCall(t)
  <2>1. pc[t] \notin Beginning /\ Goto(t, "publish_starting") /\ UNCHANGED <<queue, event, modem, active>>
    BY <1>1 DEF InitCall, At, Beginning, events, backend
  <2> QED BY <2>1, <1>q, <1>g, BlockMove
<1>2. CASE InitRegionFails(t)
  <2>1. pc[t] \notin Beginning /\ Goto(t, "idle") /\ UNCHANGED <<queue, event, modem, active>>
    BY <1>2 DEF InitRegionFails, At, Beginning, events, backend
  <2> QED BY <2>1, <1>q, <1>g, BlockMove
<1>3. CASE InitPublish(t)
  <2>1. pc[t] \notin Beginning /\ Goto(t, "backend_start") /\ publish(t, Other) /\ UNCHANGED <<event, modem, active>>
    BY <1>3 DEF InitPublish, At, Beginning, service, backend
  <2> QED BY <2>1, <1>p, <1>r, <1>g, BlockMove
<1>4. CASE InitStart(t)
  <2>1. pc[t] \notin Beginning /\ Goto(t, "on_started") /\ UNCHANGED <<event, modem, active>>
    BY <1>4 DEF InitStart, At, Beginning, service
  <2>2. queue' = queue \/ publish(t, Other) \/ publish(t, "READY")
    BY <1>4 DEF InitStart, HandleReset, events
  <2>3. QueuedFailure' BY <2>1, <2>2, <1>q, <1>p, <1>r
  <2> QED BY <2>1, <2>3, <1>g, BlockMove
<1>5. CASE InitOnStarted(t)
  <2>1. pc[t] \notin Beginning /\ Goto(t, "idle") /\ UNCHANGED <<queue, event, modem, active>>
    BY <1>5 DEF InitOnStarted, At, Beginning, service, events, backend
  <2> QED BY <2>1, <1>q, <1>g, BlockMove
<1>6. CASE InitFails(t)
  <2>1. pc[t] \notin Beginning /\ Goto(t, "publish_stopped") /\ UNCHANGED <<queue, event, modem, active>>
    BY <1>6 DEF InitFails, At, Beginning, events, backend
  <2> QED BY <2>1, <1>q, <1>g, BlockMove
<1>7. CASE InitStopped(t)
  <2>1. pc[t] \notin Beginning /\ Goto(t, "idle") /\ publish(t, Other) /\ UNCHANGED <<event, modem, active>>
    BY <1>7 DEF InitStopped, At, Beginning, service, backend
  <2> QED BY <2>1, <1>p, <1>r, <1>g, BlockMove
<1>8. CASE \E start \in {"start", "stop", "keep"}, att \in Attempts \cup {Keep} : JoinCall(t, start, att)
  <2>1. PICK start \in {"start", "stop", "keep"}, att \in Attempts \cup {Keep} : JoinCall(t, start, att) BY <1>8
  <2>2. start # "stop" BY <2>1, <1>b DEF JoinCall
  <2>3. /\ pc[t] = "idle" /\ pc' = [pc EXCEPT ![t] = "policy"]
        /\ loc' = [loc EXCEPT ![t] = [NoLoc EXCEPT !.start = start, !.att = att]]
        /\ UNCHANGED <<queue, event, modem, active>>
    BY <2>1 DEF JoinCall, At, GotoWith, service, events, backend
  <2>4. loc'[t].start = start /\ loc'[t].then = "idle" BY <2>3, NoLocType DEF ControlOK, NoLoc, Locals
  <2>5. NoStops' BY <2>2, <2>3, <2>4 DEF BlockInv, NoStops, ControlOK
  <2>6. pc'[Disp] = pc[Disp] BY <2>3, <1>a DEF ControlOK
  <2>7. WorksOn' /\ HeldFailure' BY <2>3, <2>6 DEF BlockInv, WorksOn, HeldFailure
  <2>8. \A u \in Threads : pc[u] \in Beginning => pc'[u] \in Beginning
    BY <2>3 DEF ControlOK, Beginning
  <2>9. Carried' BY <2>3, <2>6, <2>8 DEF BlockInv, Carried, Cleared
  <2> QED BY <2>3, <2>5, <2>7, <2>9, <1>q DEF BlockInv
<1>9. CASE JoinPolicy(t)
  <2>1. pc[t] \notin Beginning /\ UNCHANGED <<queue, event, modem, active>>
    BY <1>9 DEF JoinPolicy, At, Beginning, events, backend
  <2>2. PICK l \in {"get_attempts", "idle"} : pc' = [pc EXCEPT ![t] = l]
    BY <1>9, <1>s DEF JoinPolicy, GotoWith
  <2>3. loc' = [loc EXCEPT ![t] = NoLoc] BY <1>9 DEF JoinPolicy, GotoWith
  <2> QED BY <2>1, <2>2, <2>3, <1>q, BlockMove
<1>10. CASE JoinPolicyFails(t)
  <2>1. pc[t] \notin Beginning /\ Goto(t, "idle") /\ UNCHANGED <<queue, event, modem, active>>
    BY <1>10 DEF JoinPolicyFails, At, Beginning, service, events, backend
  <2> QED BY <2>1, <1>q, <1>g, BlockMove
<1>11. CASE BeginReadFails(t)
  <2>1. pc[t] \notin Beginning /\ Goto(t, "idle") /\ UNCHANGED <<queue, event, modem, active>>
    BY <1>11 DEF BeginReadFails, At, Beginning, service, events, backend
  <2> QED BY <2>1, <1>q, <1>g, BlockMove
<1>l. ASSUME NEW l, NEW x, l \notin {"was_active", "is_joined", "stop_leave"}, GotoWith(t, l, x),
             x[t].start # "stop", x[t].then # "is_joined", \A u \in Threads \ {t} : x[u] = loc[u],
             pc[t] \in Beginning => l \in Beginning,
             UNCHANGED <<queue, event, modem, active>>
      PROVE  BlockInv'
  <2>1. pc' = [pc EXCEPT ![t] = l] /\ loc' = x /\ pc'[Disp] = pc[Disp]
    BY <1>l, <1>a DEF GotoWith, ControlOK
  <2>2. NoStops' BY <1>l, <2>1 DEF BlockInv, NoStops, ControlOK
  <2>3. WorksOn' /\ HeldFailure' BY <1>l, <2>1 DEF BlockInv, WorksOn, HeldFailure
  <2>4. \A u \in Threads : pc[u] \in Beginning => pc'[u] \in Beginning BY <1>l, <2>1 DEF ControlOK
  <2>5. Carried' BY <1>l, <2>1, <2>4 DEF BlockInv, Carried, Cleared
  <2> QED BY <1>l, <2>2, <2>3, <2>5, <1>q DEF BlockInv
<1>12. CASE BeginAttempts(t)
  <2>1. /\ pc[t] \notin Beginning /\ GotoWith(t, "build_config", [loc EXCEPT ![t].att = attempts])
        /\ UNCHANGED <<queue, event, modem, active>>
    BY <1>12 DEF BeginAttempts, At, Beginning, service, events, backend
  <2> DEFINE x == [loc EXCEPT ![t].att = attempts]
  <2>2. x[t].start = loc[t].start /\ x[t].then = loc[t].then /\ \A u \in Threads \ {t} : x[u] = loc[u]
    BY DEF ControlOK, Locals
  <2> HIDE DEF x
  <2>3. GotoWith(t, "build_config", x) BY <2>1 DEF x
  <2> QED BY <2>1, <2>2, <2>3, <1>s, <1>l
<1>13. CASE BeginConfig(t)
  <2>1. /\ pc[t] \notin Beginning /\ GotoWith(t, "cas", [loc EXCEPT ![t].cfg = cred])
        /\ UNCHANGED <<queue, event, modem, active>>
    BY <1>13 DEF BeginConfig, At, Beginning, service, events, backend
  <2> DEFINE x == [loc EXCEPT ![t].cfg = cred]
  <2>2. x[t].start = loc[t].start /\ x[t].then = loc[t].then /\ \A u \in Threads \ {t} : x[u] = loc[u]
    BY DEF ControlOK, Locals
  <2> HIDE DEF x
  <2>3. GotoWith(t, "cas", x) BY <2>1 DEF x
  <2> QED BY <2>1, <2>2, <2>3, <1>s, <1>l
<1>14. CASE BeginCas(t)
  <2>1. pc[t] = "cas" /\ UNCHANGED <<queue, event, modem>>
    BY <1>14 DEF BeginCas, At, events, backend
  <2>2. CASE active
    <3>1. Goto(t, "idle") /\ active' = active BY <1>14, <2>2 DEF BeginCas, ServiceOK
    <3> QED BY <2>1, <3>1, <1>q, <1>g, BlockMove DEF Beginning
  <2>3. CASE ~active
    <3>1. pc' = [pc EXCEPT ![t] = "set_retries"] /\ loc' = loc
      BY <1>14, <2>3 DEF BeginCas, Goto, GotoWith
    <3>2. pc'[t] \in Beginning /\ pc'[Disp] = pc[Disp] BY <3>1, <1>a DEF ControlOK, Beginning
    <3>3. NoStops' BY <3>1 DEF BlockInv, NoStops, ControlOK
    <3>4. WorksOn' /\ HeldFailure' BY <2>1, <3>2 DEF BlockInv, WorksOn, HeldFailure
    <3>5. Carried' BY <3>2 DEF Carried
    <3> QED BY <2>1, <3>3, <3>4, <3>5, <1>q DEF BlockInv
  <2> QED BY <2>2, <2>3
<1>15. CASE BeginRetries(t)
  <2>1. Goto(t, "own") /\ UNCHANGED <<queue, event, modem, active>>
    BY <1>15 DEF BeginRetries, events, backend
  <2>2. "own" \in Beginning BY DEF Beginning
  <2> QED BY <2>1, <2>2, <1>q, <1>g, BlockMove
<1>16. CASE BeginOwn(t)
  <2>1. Goto(t, "publish_joining") /\ UNCHANGED <<queue, event, modem, active>>
    BY <1>16 DEF BeginOwn, events, backend
  <2>2. "publish_joining" \in Beginning BY DEF Beginning
  <2> QED BY <2>1, <2>2, <1>q, <1>g, BlockMove
<1>17. CASE BeginPublish(t)
  <2>1. Goto(t, "backend_join") /\ publish(t, Other) /\ UNCHANGED <<event, modem, active>>
    BY <1>17 DEF BeginPublish, service, backend
  <2>2. "backend_join" \in Beginning BY DEF Beginning
  <2> QED BY <2>1, <2>2, <1>p, <1>r, <1>g, BlockMove
<1>18. CASE BeginJoin(t)
  <2>1. /\ modem.state = "idle" /\ Goto(t, "idle") /\ UNCHANGED <<queue, event, active>>
        /\ modem' = [modem EXCEPT !.state = "joining", !.cred = loc[t].cfg, !.fails = 0,
                                  !.raced = loc[t].raced]
    BY <1>18 DEF BeginJoin, modem_join_ok, service, events
  <2>2. modem'.state = "joining" BY <2>1 DEF BackendOK
  <2>3. pc'[Disp] = pc[Disp] BY <2>1, <1>g, <1>a DEF ControlOK
  <2>4. NoStops'
    <3>1. NoLoc.start # "stop" /\ NoLoc.then # "is_joined" BY DEF NoLoc
    <3> QED BY <2>1, <3>1, <1>g DEF BlockInv, NoStops, ControlOK
  <2>5. NoneFailed BY <2>1 DEF BlockInv, QueuedFailure
  <2>6. ~Cleared BY <2>1 DEF BlockInv, HeldFailure, Cleared
  <2>7. Carried' BY <2>1, <2>2, <2>3, <2>6 DEF Carried, Cleared
  <2>8. WorksOn' /\ HeldFailure' BY <2>1, <2>2, <2>3 DEF BlockInv, WorksOn, HeldFailure
  <2>9. QueuedFailure' BY <2>1, <2>5 DEF QueuedFailure, NoneFailed
  <2> QED BY <2>4, <2>7, <2>8, <2>9 DEF BlockInv
<1>19. CASE BeginJoinFails(t)
  <2>1. /\ GotoWith(t, "clear_active", [loc EXCEPT ![t].then = "publish_ready"])
        /\ UNCHANGED <<queue, event, modem, active>>
    BY <1>19 DEF BeginJoinFails, service, events, backend
  <2> DEFINE x == [loc EXCEPT ![t].then = "publish_ready"]
  <2>2. x[t].start = loc[t].start /\ x[t].then = "publish_ready" /\ \A u \in Threads \ {t} : x[u] = loc[u]
    BY DEF ControlOK, Locals
  <2> HIDE DEF x
  <2>3. GotoWith(t, "clear_active", x) BY <2>1 DEF x
  <2>4. "clear_active" \in Beginning BY DEF Beginning
  <2> QED BY <2>1, <2>2, <2>3, <2>4, <1>s, <1>l
<1>20. CASE ClearActive(t)
  <2>1. Goto(t, "clear_retries") /\ active' = FALSE /\ UNCHANGED <<queue, event, modem>>
    BY <1>20 DEF ClearActive, events, backend
  <2> QED BY <2>1, <1>q, <1>g, BlockMove
<1>21. CASE ClearRetries(t)
  <2>1. pc[t] \notin Beginning /\ Goto(t, "disown") /\ UNCHANGED <<queue, event, modem, active>>
    BY <1>21 DEF ClearRetries, At, Beginning, events, backend
  <2> QED BY <2>1, <1>q, <1>g, BlockMove
<1>22. CASE Disown(t)
  <2>1. pc[t] \notin Beginning /\ Goto(t, loc[t].then) /\ UNCHANGED <<queue, event, modem, active>>
    BY <1>22, <1>a DEF Disown, At, Beginning, events, backend
  <2>2. loc[t].then \in {"idle", "publish_ready"} BY <1>s DEF ControlOK, Locals
  <2> QED BY <2>1, <2>2, <1>q, <1>g, BlockMove
<1>23. CASE StopRead(t) \/ StopIsJoined(t) \/ StopLeave(t)
  BY <1>23, <1>s DEF StopRead, StopIsJoined, StopLeave, Leave, LeaveFails, At
<1>24. CASE LeaveCall(t) BY <1>24, <1>b DEF LeaveCall
<1>25. CASE PublishReady(t)
  <2>1. pc[t] \notin Beginning /\ Goto(t, "idle") /\ publish(t, "STATE_READY") /\ UNCHANGED <<event, modem, active>>
    BY <1>25 DEF PublishReady, At, Beginning, service, backend
  <2> QED BY <2>1, <1>p, <1>g, BlockMove
<1>26. CASE SendCall(t)
  <2>1. pc[t] \notin Beginning /\ Goto(t, "send") /\ UNCHANGED <<queue, event, modem, active>>
    BY <1>26 DEF SendCall, At, Beginning, service, events, backend
  <2> QED BY <2>1, <1>q, <1>g, BlockMove
<1>27. CASE Send(t)
  <2>1. pc[t] \notin Beginning /\ Goto(t, "idle") /\ UNCHANGED <<queue, event, active>>
    BY <1>27 DEF Send, At, Beginning, service, events
  <2>2. modem'.state = modem.state BY <1>27 DEF Send, BackendOK
  <2> QED BY <2>1, <2>2, <1>q, <1>g, BlockMove
<1>28. CASE \E c \in Creds : SetCred(t, c)
  <2>1. UNCHANGED <<queue, event, modem, active, pc>>
    BY <1>28 DEF SetCred, events, backend
  <2>2. \A u \in Threads : loc'[u].start = loc[u].start /\ loc'[u].then = loc[u].then
    BY <1>28, StoreFields DEF SetCred
  <2> QED BY <2>1, <2>2 DEF BlockInv, NoStops, WorksOn, HeldFailure, QueuedFailure, NoneFailed, OneFailed, Carried, Cleared
<1> QED BY <1>1, <1>2, <1>3, <1>4, <1>5, <1>6, <1>7, <1>8, <1>9, <1>10, <1>11, <1>12, <1>13, <1>14, <1>15, <1>16, <1>17, <1>18, <1>19, <1>20, <1>21, <1>22, <1>23, <1>24, <1>25, <1>26, <1>27, <1>28 DEF ThreadNext

\* The dispatcher goes on at l, with the modem's join and the threads left alone.
LEMMA DispBlockMove ==
    ASSUME ControlOK, BlockInv, NEW l \in DispLabels, Goto(Disp, l), active' => active,
           modem' = modem, WorksOn', HeldFailure', QueuedFailure', active' /\ Cleared' => Cleared
    PROVE  BlockInv'
<1>1. l # "idle" BY DEF DispLabels
<1>2. loc' = loc /\ \A t \in Threads : pc'[t] = pc[t]
  BY <1>1, ServiceAssumption DEF Goto, GotoWith, ControlOK
<1>3. NoStops' BY <1>2 DEF BlockInv, NoStops
<1>4. Carried' BY <1>2 DEF BlockInv, Carried
<1> QED BY <1>3, <1>4 DEF BlockInv

\* Every step of the dispatcher: it stops the modem only for the failure it holds, which is
\* the modem's current join, and after it has cleared the sequence.
LEMMA DispBlock ==
    ASSUME TypeOK, BlockInv, DispNext
    PROVE  BlockInv'
<1> USE DEF TypeOK
<1>g. ASSUME NEW l, Goto(Disp, l) PROVE pc'[Disp] = l
  BY <1>g DEF Goto, GotoWith, ControlOK
<1>q. ASSUME queue' = queue, event' = event \/ event' # "JOIN_FAILED", modem' = modem
      PROVE  QueuedFailure'
  BY <1>q DEF BlockInv, QueuedFailure, NoneFailed, OneFailed
<1>1. CASE DispGet
  <2>1. /\ queue # <<>> /\ event' = Head(queue) /\ queue' = Tail(queue) /\ Goto(Disp, "swallow")
        /\ UNCHANGED <<active, modem>>
    BY <1>1 DEF DispGet, service, backend
  <2>2. queue \in Seq(Events) /\ Len(queue) \in Nat \ {0} BY <2>1 DEF QueueOK
  <2>3. event' = queue[1] /\ 1 \in 1..Len(queue) BY <2>1, <2>2
  <2>4. Len(queue') = Len(queue) - 1 /\ \A i \in 1..Len(queue') : i + 1 \in 1..Len(queue) /\ queue'[i] = queue[i + 1]
    BY <2>1, <2>2
  <2>5. pc'[Disp] = "swallow" BY <2>1, <1>g
  <2>6. WorksOn' /\ ~Cleared' BY <2>5 DEF WorksOn, Cleared
  <2>7. CASE NoneFailed
    <3>1. event' # "JOIN_FAILED" BY <2>3, <2>7 DEF NoneFailed
    <3>2. NoneFailed' BY <2>4, <2>7 DEF NoneFailed
    <3>3. HeldFailure' /\ QueuedFailure' BY <3>1, <3>2 DEF HeldFailure, QueuedFailure
    <3> QED BY <2>1, <2>6, <3>3, DispBlockMove DEF DispLabels
  <2>8. CASE modem.state = "joining" /\ OneFailed
    <3>1. HeldFailure' BY <2>1, <2>8 DEF HeldFailure
    <3>2. CASE event' = "JOIN_FAILED"
      <4>1. \A i \in 1..Len(queue) : queue[i] = "JOIN_FAILED" => i = 1 BY <2>3, <2>8, <3>2 DEF OneFailed
      <4>2. ASSUME NEW i \in 1..Len(queue') PROVE queue'[i] # "JOIN_FAILED"
        <5>1. i + 1 # 1 /\ i + 1 \in 1..Len(queue) /\ queue'[i] = queue[i + 1] BY <2>2, <2>4
        <5> QED BY <4>1, <5>1
      <4>3. QueuedFailure' BY <4>2 DEF QueuedFailure, NoneFailed
      <4> QED BY <2>1, <2>6, <3>1, <4>3, DispBlockMove DEF DispLabels
    <3>3. CASE event' # "JOIN_FAILED"
      <4>1. ASSUME NEW i \in 1..Len(queue'), NEW j \in 1..Len(queue'),
                   queue'[i] = "JOIN_FAILED", queue'[j] = "JOIN_FAILED"
            PROVE  i = j
        <5>1. i + 1 \in 1..Len(queue) /\ j + 1 \in 1..Len(queue) BY <2>4
        <5>2. queue[i + 1] = "JOIN_FAILED" /\ queue[j + 1] = "JOIN_FAILED" BY <2>4, <4>1
        <5>3. i + 1 = j + 1 BY <2>8, <5>1, <5>2 DEF OneFailed
        <5>4. i \in Int /\ j \in Int BY <2>2, <2>4
        <5> QED BY <5>3, <5>4
      <4>2. QueuedFailure' BY <2>1, <2>8, <3>3, <4>1 DEF QueuedFailure, OneFailed
      <4> QED BY <2>1, <2>6, <3>1, <4>2, DispBlockMove DEF DispLabels
    <3> QED BY <3>2, <3>3
  <2> QED BY <2>7, <2>8 DEF BlockInv, QueuedFailure
<1>2. CASE DispSwallow
  <2>1. /\ pc[Disp] = "swallow" /\ UNCHANGED <<queue, event, active, modem>>
        /\ \/ event = "JOINED" /\ Goto(Disp, "clear_active")
           \/ event = "JOIN_FAILED" /\ Goto(Disp, "check_retries")
           \/ Goto(Disp, "deliver")
    BY <1>2 DEF DispSwallow, At, service, events, backend
  <2>2. WorksOn' /\ ~Cleared' BY <2>1, <1>g DEF WorksOn, Cleared
  <2>3. HeldFailure' BY <2>1 DEF BlockInv, HeldFailure
  <2> QED BY <2>1, <2>2, <2>3, <1>q, DispBlockMove DEF DispLabels
<1>3. CASE DispCheckRetries
  <2>1. /\ pc[Disp] = "check_retries" /\ UNCHANGED <<queue, event, active, modem>>
        /\ Goto(Disp, "decrement") \/ Goto(Disp, "clear_active")
    BY <1>3 DEF DispCheckRetries, At, service, events, backend
  <2>2. event = "JOIN_FAILED" BY <2>1 DEF BlockInv, WorksOn
  <2>3. WorksOn' /\ ~Cleared' BY <2>1, <2>2, <1>g DEF WorksOn, Cleared
  <2>4. HeldFailure' BY <2>1 DEF BlockInv, HeldFailure
  <2> QED BY <2>1, <2>3, <2>4, <1>q, DispBlockMove DEF DispLabels
<1>4. CASE DispDecrement \/ DispDeliver
  <2>1. event' = None /\ Goto(Disp, "check_overflow") /\ UNCHANGED <<queue, active, modem>>
    BY <1>4 DEF DispDecrement, DispDeliver, service, events, backend
  <2>2. None # "JOIN_FAILED" BY DEF None
  <2>3. WorksOn' /\ HeldFailure' /\ ~Cleared' BY <2>1, <2>2, <1>g DEF WorksOn, HeldFailure, Cleared
  <2> QED BY <2>1, <2>2, <2>3, <1>q, DispBlockMove DEF DispLabels
<1>5. CASE ClearActive(Disp)
  <2>1. pc[Disp] = "clear_active" /\ active' = FALSE /\ Goto(Disp, "clear_retries") /\ UNCHANGED <<queue, event, modem>>
    BY <1>5 DEF ClearActive, At, events, backend
  <2>2. WorksOn' /\ HeldFailure' BY <2>1, <1>g DEF BlockInv, WorksOn, HeldFailure
  <2> QED BY <2>1, <2>2, <1>q, DispBlockMove DEF DispLabels
<1>6. CASE ClearRetries(Disp)
  <2>1. pc[Disp] = "clear_retries" /\ Goto(Disp, "disown") /\ UNCHANGED <<queue, event, active, modem>>
    BY <1>6 DEF ClearRetries, At, events, backend
  <2>2. WorksOn' /\ HeldFailure' /\ (Cleared' => Cleared)
    BY <2>1, <1>g DEF BlockInv, WorksOn, HeldFailure, Cleared
  <2> QED BY <2>1, <2>2, <1>q, DispBlockMove DEF DispLabels
<1>7. CASE Disown(Disp)
  <2>1. /\ pc[Disp] = "disown" /\ UNCHANGED <<queue, event, active, modem>>
        /\ \/ event = "JOINED" /\ Goto(Disp, "deliver")
           \/ event # "JOINED" /\ Goto(Disp, "limit_leave")
    BY <1>7 DEF Disown, At, events, backend
  <2>2. event \in {"JOINED", "JOIN_FAILED"} BY <2>1 DEF BlockInv, WorksOn
  <2>3. WorksOn' /\ HeldFailure' /\ (Cleared' => Cleared)
    BY <2>1, <2>2, <1>g DEF BlockInv, WorksOn, HeldFailure, Cleared
  <2> QED BY <2>1, <2>3, <1>q, DispBlockMove DEF DispLabels
<1>8. CASE DispLimitLeave
  <2>1. pc[Disp] = "limit_leave" /\ Goto(Disp, "publish_ready") /\ UNCHANGED <<queue, event, active>>
    BY <1>8 DEF DispLimitLeave, Leave, LeaveFails, At, service, events
  <2>2. event = "JOIN_FAILED" BY <2>1 DEF BlockInv, WorksOn
  <2>3. Cleared /\ NoneFailed BY <2>1, <2>2 DEF Cleared, BlockInv, QueuedFailure
  <2>4. pc'[Disp] = "publish_ready" BY <2>1, <1>g
  <2>5. WorksOn' /\ HeldFailure' BY <2>4 DEF WorksOn, HeldFailure
  <2>6. QueuedFailure' BY <2>1, <2>3 DEF QueuedFailure, NoneFailed
  <2>7. loc' = loc /\ \A t \in Threads : pc'[t] = pc[t]
    BY <2>1, ServiceAssumption DEF Goto, GotoWith, ControlOK
  <2>8. NoStops' BY <2>7 DEF BlockInv, NoStops
  <2>9. Carried' BY <2>1, <2>3, <2>7 DEF BlockInv, Carried
  <2> QED BY <2>5, <2>6, <2>8, <2>9 DEF BlockInv
<1>9. CASE DispPublishReady
  <2>1. Goto(Disp, "deliver") /\ publish(Disp, "STATE_READY") /\ UNCHANGED <<event, active, modem>>
    BY <1>9 DEF DispPublishReady, service, backend
  <2>2. QueuedFailure' BY <2>1, PublishOther DEF BlockInv, QueuedFailure
  <2>3. WorksOn' /\ HeldFailure' /\ ~Cleared' BY <2>1, <1>g DEF WorksOn, HeldFailure, Cleared
  <2> QED BY <2>1, <2>2, <2>3, DispBlockMove DEF DispLabels
<1>10. CASE DispCheckOverflow \/ DispDeliverOverflow
  <2>1. PICK l \in {"get", "deliver_overflow"} : Goto(Disp, l)
    BY <1>10 DEF DispCheckOverflow, DispDeliverOverflow
  <2>2. UNCHANGED <<queue, event, active, modem>>
    BY <1>10 DEF DispCheckOverflow, DispDeliverOverflow, service, events, backend
  <2>3. WorksOn' /\ HeldFailure' /\ ~Cleared' BY <2>1, <1>g DEF WorksOn, HeldFailure, Cleared
  <2> QED BY <2>1, <2>2, <2>3, <1>q, DispBlockMove DEF DispLabels
<1> QED BY <1>1, <1>2, <1>3, <1>4, <1>5, <1>6, <1>7, <1>8, <1>9, <1>10 DEF DispNext

\* Every step of the engine: an attempt ends only when no earlier failure is on its way.
LEMMA EngineBlock ==
    ASSUME QuietClient, TypeOK, BlockInv, EngineNext
    PROVE  BlockInv'
<1> USE DEF TypeOK
<1>1. pc' = pc /\ loc' = loc /\ event' = event /\ active' = active
  BY DEF EngineNext, ModemReset, ModemJoinFail, ModemJoined, ModemTxDone, ModemDownlink, service
<1>2. NoStops' /\ WorksOn' /\ Cleared' = Cleared BY <1>1 DEF BlockInv, NoStops, WorksOn, Cleared
<1>3. CASE ModemReset
  <2>1. modem.state = "off" BY <1>3, ServiceAssumption DEF ModemReset, QuietClient, BackendOK
  <2>2. NoneFailed BY <2>1 DEF BlockInv, QueuedFailure
  <2>3. publish(Engine, "READY") \/ publish(Engine, Other) BY <1>3 DEF ModemReset, HandleReset
  <2>4. NoneFailed' BY <2>2, <2>3, PublishOther DEF Other
  <2>5. HeldFailure' BY <1>1, <2>1 DEF BlockInv, HeldFailure
  <2>6. Carried' BY <1>1, <2>1 DEF BlockInv, Carried
  <2> QED BY <1>2, <2>4, <2>5, <2>6 DEF BlockInv, QueuedFailure
<1>a. ASSUME AttemptEnds PROVE modem.state = "joining" /\ event # "JOIN_FAILED" /\ NoneFailed /\ ~Cleared
  BY <1>a DEF AttemptEnds, QuietClient, NoneFailed, Cleared
<1>4. CASE ModemJoinFail
  <2>1. AttemptEnds /\ publish(Engine, "JOIN_FAILED") BY <1>4 DEF ModemJoinFail
  <2>2. modem'.state = "joining" BY <1>4, <2>1, <1>a DEF ModemJoinFail, BackendOK
  <2>3. HeldFailure' /\ Carried' BY <1>1, <1>2, <2>1, <2>2, <1>a DEF HeldFailure, Carried
  <2>4. CASE queue' = queue
    BY <1>1, <1>2, <2>1, <2>3, <2>4, <1>a DEF BlockInv, QueuedFailure, NoneFailed
  <2>5. CASE queue' = Append(queue, "JOIN_FAILED")
    <3>1. queue \in Seq(Events) /\ Len(queue) \in Nat BY DEF QueueOK
    <3>2. Len(queue') = Len(queue) + 1 /\ \A i \in 1..Len(queue) : queue'[i] = queue[i]
      BY <2>5, <3>1
    <3>3. \A i \in 1..Len(queue') : queue'[i] = "JOIN_FAILED" => i = Len(queue')
      BY <2>1, <3>1, <3>2, <1>a DEF NoneFailed
    <3>4. OneFailed' BY <3>3 DEF OneFailed
    <3>5. event' # "JOIN_FAILED" BY <1>1, <2>1, <1>a
    <3> QED BY <1>2, <2>2, <2>3, <3>4, <3>5 DEF BlockInv, QueuedFailure
  <2> QED BY <2>1, <2>4, <2>5 DEF publish
<1>5. CASE ModemJoined
  <2>1. AttemptEnds /\ publish(Engine, "JOINED") BY <1>5 DEF ModemJoined
  <2>2. modem'.state = "joined" BY <1>5 DEF ModemJoined, BackendOK
  <2>3. NoneFailed' BY <2>1, <1>a, PublishOther
  <2>4. HeldFailure' BY <1>1, <2>1, <1>a DEF HeldFailure
  <2>5. Carried' BY <1>2, <2>1, <2>2, <1>a DEF Carried
  <2> QED BY <1>2, <2>3, <2>4, <2>5 DEF BlockInv, QueuedFailure
<1>6. CASE ModemTxDone \/ ModemDownlink
  <2>1. publish(Engine, Other) BY <1>6 DEF ModemTxDone, ModemDownlink
  <2>2. modem'.state = modem.state BY <1>6 DEF ModemTxDone, ModemDownlink, backend, BackendOK
  <2>3. (NoneFailed => NoneFailed') /\ (OneFailed => OneFailed') BY <2>1, PublishOther DEF Other
  <2>4. QueuedFailure' BY <1>1, <2>2, <2>3 DEF BlockInv, QueuedFailure
  <2>5. HeldFailure' /\ Carried' BY <1>1, <1>2, <2>2 DEF BlockInv, HeldFailure, Carried
  <2> QED BY <1>2, <2>4, <2>5 DEF BlockInv
<1> QED BY <1>3, <1>4, <1>5, <1>6 DEF EngineNext

\* Once a READY was announced and nothing is going on, an idle modem is free to join again,
\* for any number of threads, any queue size and any failing call, as long as the
\* application does not stop or leave and the modem does not reset: an active sequence is
\* in the hands of a thread or of the modem until JOINED, the retry limit or a refused join
\* clears it, even when the event that should have ended it was dropped.
THEOREM JoinIsNotBlocked == ASSUME QuietClient PROVE Spec => []JoinNotBlocked
<1>1. Init => BlockInv
  <2> SUFFICES ASSUME Init PROVE BlockInv OBVIOUS
  <2>1. /\ active = FALSE /\ event = None /\ queue = <<>> /\ pc[Disp] = "get"
        /\ \A t \in Threads : pc[t] = "idle" /\ loc[t] = NoLoc
    BY ServiceAssumption DEF Init
  <2>2. NoLoc.start # "stop" /\ NoLoc.then # "is_joined" BY DEF NoLoc
  <2>3. NoStops BY <2>1, <2>2 DEF NoStops
  <2>4. NoneFailed BY <2>1 DEF NoneFailed
  <2> QED BY <2>1, <2>3, <2>4 DEF BlockInv, WorksOn, HeldFailure, QueuedFailure, Carried
<1>2. TypeOK /\ BlockInv /\ [Next]_vars => BlockInv'
  <2> SUFFICES ASSUME TypeOK, BlockInv, [Next]_vars PROVE BlockInv' OBVIOUS
  <2>1. ASSUME NEW t \in Threads, ThreadNext(t) PROVE BlockInv' BY <2>1, ThreadBlock
  <2>2. CASE DispNext BY <2>2, DispBlock
  <2>3. CASE EngineNext BY <2>3, EngineBlock
  <2>4. CASE UNCHANGED <<queue, event, modem, active, pc, loc>>
    BY <2>4 DEF BlockInv, NoStops, WorksOn, HeldFailure, QueuedFailure, NoneFailed, OneFailed,
       Carried, Cleared
  <2>5. ASSUME NEW a \in Actors, FlagOverflow(a) PROVE BlockInv'
    BY <2>4, <2>5 DEF FlagOverflow, service, backend
  <2>6. CASE UNCHANGED vars BY <2>4, <2>6 DEF vars
  <2> QED BY <2>1, <2>2, <2>3, <2>5, <2>6 DEF Next
<1>3. BlockInv => JoinNotBlocked
  <2>1. "idle" \notin Beginning BY DEF Beginning
  <2> QED BY <2>1 DEF BlockInv, Carried, JoinNotBlocked, Quiescent
<1> QED BY <1>1, <1>2, <1>3, TypeCorrect, PTL DEF Spec
=============================================================================
