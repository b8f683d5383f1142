----------------------------- MODULE FuotaProofs -----------------------------
(***************************************************************************)
(* Proofs about Fuota, for any applying threads, image size and scenarios, *)
(* so for any number of sessions, joins and resets: the types and the      *)
(* keepalive, what is true at rest, and what MCUboot finds.                *)
(***************************************************************************)
EXTENDS Fuota, SequenceTheorems, TLAPS

\* Behind event i, or in the whole queue for i = 0, there is one with a type in S.
Behind(i, S) == \E j \in (i + 1)..Len(inbox) : inbox[j].type \in S

\* An actor goes on to l, at once or after its report.
GoesTo(a, l) == pc[a] = l \/ (pc[a] = "report" /\ then[a] = l)

\* The labels of the dispatcher, and of an installer with what it has copied.
DispOK == /\ then[Disp] \in {"idle", "schedule", "submit"}
          /\ pc[Disp] \in {"idle", "report", "schedule", "submit"}
InstallerOK(a) ==
    /\ then[a] \in {"idle", "copy"} /\ (pc[a] # "report" => then[a] = "idle")
    /\ pc[a] \in {"idle", "report", "copy", "boot", "reboot", "failed", "send", "return"}
    /\ copied[a] <= size[a]
    /\ pc[a] \notin {"copy", "boot", "reboot"} => size[a] = 0
    /\ pc[a] \in {"boot", "reboot"} => copied[a] = size[a]
    /\ ~ImgManager => size[a] = 0 /\ pc[a] \notin {"boot", "reboot", "failed"}
ControlInv == DispOK /\ \A a \in Installers : InstallerOK(a)

\* In READY and FAILED the keepalive is scheduled or about to be, or it was missed; only a
\* handler that runs is being cancelled.
KeepInv ==
    /\ canceling => pc[Workq] \in {"send", "return"}
    /\ Keepalive /\ state \in {"READY", "FAILED"} =>
        timer \/ missed \/ GoesTo(Disp, "schedule") \/ (pc[Workq] = "send" /\ ~canceling)

\* Event i starts a session, or makes an image ready; for i = 0 the state says so.
StartedAt(i) == IF i = 0 THEN state = "TRANSFERRING" ELSE inbox[i].type = "SESSION_STARTED"
ReadyAt(i) == IF i = 0 THEN image_ready /\ state # "TRANSFERRING" /\ ~covered ELSE inbox[i].type = "DONE"

\* Fragments may arrive; the events that say anything of a session.
Receiving == session /\ ~done
Talk == EventTypes \ {"REBOOT"}

\* The last word of the queue: a started session is active or its end is queued, ...
TransferInv ==
    \A i \in 0..Len(inbox) : StartedAt(i) /\ ~Behind(i, Setters) =>
        session \/ cut \/ Behind(i, {"SESSION_ENDED"}) \/ (i = 0 /\ image_ready)
\* ... a ready image is whole, ...
ReadyInv == \A i \in 0..Len(inbox) : ReadyAt(i) /\ ~Behind(i, Setters) => Whole
\* ... and while fragments may arrive it is that a session started.
ReceiveInv ==
    Receiving =>
        \E i \in 0..Len(inbox) : /\ ~Behind(i, Talk)
                                 /\ IF i = 0 THEN ~ReadyAt(0) ELSE inbox[i].type = "SESSION_STARTED"
QueueInv ==
    /\ ~started => ~image_ready /\ state # "TRANSFERRING"
    /\ state = "IDLE" => ~image_ready
    /\ session => joined /\ sessions # 0
    /\ dropped \/ (TransferInv /\ ReadyInv /\ ReceiveInv)

\* What a has copied comes from the image in the area, and its size is not zero, unless harm
\* was done.
CopyInv(a) ==
    /\ Installing(a) /\ "overwritten" \notin harm[a] => Whole /\ \A i \in 1..copied[a] : slot[i] = area.from
    /\ Unsized(a) /\ "rejoined" \notin harm[a] => image_size # 0
    /\ pc[a] \in {"boot", "reboot"} /\ size[a] = 0 => "rejoined" \in harm[a]
AreaInv ==
    /\ image_ready \/ Behind(0, {"DONE"}) => area.image # 0
    /\ area.header => area.size # 0
    /\ session => sessions # 0
InstallInv == AreaInv /\ \A a \in Installers : CopyInv(a)

Base == TypeOK /\ ControlInv /\ KeepInv

-----------------------------------------------------------------------------
(* The types *)

LEMMA ScenarioBounds ==
    ASSUME scenario \in Scenarios
    PROVE  /\ scenario.img_manager \in BOOLEAN /\ scenario.auto_apply \in BOOLEAN /\ scenario.sets_size \in BOOLEAN
           /\ scenario.keepalive \in BOOLEAN /\ scenario.sessions \in Nat
           /\ scenario.joins \in Nat /\ scenario.resets \in Nat /\ scenario.events \in Nat \ {0}
BY FuotaAssumption DEF Scenario

LEMMA ActorsAre == /\ Disp \in Actors /\ Disp \notin Installers /\ Workq \in Installers
                   /\ Appliers \subseteq Installers /\ Installers \subseteq Actors /\ Actors = Installers \cup {Disp}
BY FuotaAssumption DEF Actors, Installers, Disp, Workq

\* How each variable may change.
LEMMA Writes ==
    ASSUME Next
    PROVE  /\ scenario' = scenario /\ up
           /\ up' = up \/ up' = FALSE
           /\ started' = started \/ started' = TRUE
           /\ image_ready' = image_ready \/ image_ready' = FALSE \/ image_ready' = TRUE
           /\ state' = state \/ state' \in States
           /\ held' = held \/ held' = TRUE \/ held' = FALSE
           /\ \/ apply_work' = apply_work \/ apply_work' = FALSE \/ apply_work' = (apply_work \/ AutoApply)
              \/ apply_work' = (apply_work \/ (AutoApply /\ image_ready))
           /\ \/ timer' = timer \/ timer' = FALSE \/ timer' = (timer \/ ~canceling)
              \/ timer' = (timer \/ (Keepalive /\ ~canceling))
           /\ expected_size' = expected_size \/ expected_size' \in 1..Chunks
           /\ \/ image_size' = image_size \/ image_size' = expected_size \/ image_size' \in 1..Chunks
              \/ inbox # <<>> /\ image_size' = detect_image_size(Head(inbox).size)
           /\ size' = size \/ \E a \in Installers : size' = [size EXCEPT ![a] = image_size] \/ size' = [size EXCEPT ![a] = 0]
           /\ \/ copied' = copied
              \/ \E a \in Installers : \/ copied[a] < size[a] /\ copied' = [copied EXCEPT ![a] = copied[a] + 1]
                                       \/ copied' = [copied EXCEPT ![a] = 0]
           /\ \/ slot' = slot
              \/ \E a \in Installers : copied[a] < size[a]
                    /\ slot' = [slot EXCEPT ![copied[a] + 1] = IF Whole THEN area.from ELSE 0]
           /\ upgrade' = upgrade \/ \E a \in Installers : upgrade' = [image |-> [i \in 1..size[a] |-> slot[i]], harm |-> harm[a]]
           /\ joined' = joined \/ joined' = FALSE \/ joined' = TRUE
           /\ session' = session \/ session' = FALSE \/ session' = TRUE
           /\ done' = done \/ done' = FALSE \/ done' = TRUE
           /\ canceling' = canceling \/ canceling' = FALSE \/ canceling' = (canceling \/ pc[Workq] \in {"send", "return"})
           /\ missed' = missed \/ missed' = FALSE \/ missed' = canceling
           /\ cut' = cut \/ cut' = FALSE \/ cut' = (cut \/ session)
           /\ dropped' = dropped \/ dropped' = TRUE \/ \E t \in EventTypes : dropped' = (dropped /\ t \notin Setters)
           /\ covered' = covered \/ \E a \in Actors : covered' = (a # Disp /\ (covered \/ state = "TRANSFERRING"))
           /\ \/ harm' = harm
              \/ \E S \in SUBSET Installers, h \in {"rejoined", "overwritten"} : harm' = Harmed(S, h)
              \/ \E a \in Installers, H \in {{}, {"overwritten"}} : harm' = [harm EXCEPT ![a] = H]
           /\ sessions' = sessions \/ (sessions < scenario.sessions /\ sessions' = sessions + 1)
           /\ joins' = joins \/ (joins < scenario.joins /\ joins' = joins + 1)
           /\ resets' = resets \/ (resets < scenario.resets /\ resets' = resets + 1)
           /\ \/ area' = area
              \/ area' = [from |-> sessions, image |-> area.image, size |-> 0, header |-> FALSE]
              \/ \E n \in 1..Chunks, h \in BOOLEAN : area' = [from |-> sessions, image |-> sessions, size |-> n, header |-> h]
<1> USE DEF Next, Running, DispNext, InstallNext, WorkqNext, BackendNext, OnJoined, OnLeft, OnSessionStarted,
       OnSessionEnded, OnTransferDone, OnTransferFailed, OnReboot, NotStarted, Report, AfterReport, ApplyUnsupported,
       CopyStart, CopyChunk, CopyFails, ApplyFailed, BootUpgrade, Reboot, ApplyCall, ApplyWork, Apply, KeepaliveFires,
       KeepaliveSent, KeepaliveReturns, Start, SetExpectedSize, Join, JoinFail, LeaveNetwork, ModemReset, StartSession, Fragment,
       Reconstruct, Abandon, EndSession, RequestReboot, Take, Raise, set_state_locked, Goto, schedule_keepalive,
       cancel_keepalive, States, Busy, coordinator, keepalive, works, control, flash, queue, backend
<1>1. scenario' = scenario /\ up
  OBVIOUS
<1>2. up' = up \/ up' = FALSE
  OBVIOUS
<1>3. started' = started \/ started' = TRUE
  OBVIOUS
<1>4. image_ready' = image_ready \/ image_ready' = FALSE \/ image_ready' = TRUE
  OBVIOUS
<1>5. state' = state \/ state' \in States
  OBVIOUS
<1>6. held' = held \/ held' = TRUE \/ held' = FALSE
  OBVIOUS
<1>7. \/ apply_work' = apply_work \/ apply_work' = FALSE \/ apply_work' = (apply_work \/ AutoApply)
      \/ apply_work' = (apply_work \/ (AutoApply /\ image_ready))
  OBVIOUS
<1>8. \/ timer' = timer \/ timer' = FALSE \/ timer' = (timer \/ ~canceling)
      \/ timer' = (timer \/ (Keepalive /\ ~canceling))
  OBVIOUS
<1>9. expected_size' = expected_size \/ expected_size' \in 1..Chunks
  OBVIOUS
<1>10. \/ image_size' = image_size \/ image_size' = expected_size \/ image_size' \in 1..Chunks
       \/ inbox # <<>> /\ image_size' = detect_image_size(Head(inbox).size)
  OBVIOUS
<1>11. size' = size \/ \E a \in Installers : size' = [size EXCEPT ![a] = image_size] \/ size' = [size EXCEPT ![a] = 0]
  OBVIOUS
<1>12. \/ copied' = copied
       \/ \E a \in Installers : \/ copied[a] < size[a] /\ copied' = [copied EXCEPT ![a] = copied[a] + 1]
                                \/ copied' = [copied EXCEPT ![a] = 0]
  OBVIOUS
<1>13. \/ slot' = slot
       \/ \E a \in Installers : copied[a] < size[a]
             /\ slot' = [slot EXCEPT ![copied[a] + 1] = IF Whole THEN area.from ELSE 0]
  OBVIOUS
<1>14. upgrade' = upgrade \/ \E a \in Installers : upgrade' = [image |-> [i \in 1..size[a] |-> slot[i]], harm |-> harm[a]]
  OBVIOUS
<1>15. joined' = joined \/ joined' = FALSE \/ joined' = TRUE
  OBVIOUS
<1>16. session' = session \/ session' = FALSE \/ session' = TRUE
  OBVIOUS
<1>17. done' = done \/ done' = FALSE \/ done' = TRUE
  OBVIOUS
<1>18. sessions' = sessions \/ (sessions < scenario.sessions /\ sessions' = sessions + 1)
  OBVIOUS
<1>19. joins' = joins \/ (joins < scenario.joins /\ joins' = joins + 1)
  OBVIOUS
<1>20. resets' = resets \/ (resets < scenario.resets /\ resets' = resets + 1)
  OBVIOUS
<1>21. \/ area' = area
       \/ area' = [from |-> sessions, image |-> area.image, size |-> 0, header |-> FALSE]
       \/ \E n \in 1..Chunks, h \in BOOLEAN : area' = [from |-> sessions, image |-> sessions, size |-> n, header |-> h]
  OBVIOUS
<1>22. canceling' = canceling \/ canceling' = FALSE \/ canceling' = (canceling \/ pc[Workq] \in {"send", "return"})
  OBVIOUS
<1>23. missed' = missed \/ missed' = FALSE \/ missed' = canceling
  OBVIOUS
<1>24. cut' = cut \/ cut' = FALSE \/ cut' = (cut \/ session)
  OBVIOUS
<1>25. dropped' = dropped \/ dropped' = TRUE \/ \E t \in EventTypes : dropped' = (dropped /\ t \notin Setters)
  BY DEF EventTypes
<1>26. covered' = covered \/ \E a \in Actors : covered' = (a # Disp /\ (covered \/ state = "TRANSFERRING"))
  BY ActorsAre
<1>27. \/ harm' = harm
       \/ \E S \in SUBSET Installers, h \in {"rejoined", "overwritten"} : harm' = Harmed(S, h)
       \/ \E a \in Installers, H \in {{}, {"overwritten"}} : harm' = [harm EXCEPT ![a] = H]
  BY ActorsAre
<1> HIDE DEF Next, Running, DispNext, InstallNext, WorkqNext, BackendNext, OnJoined, OnLeft, OnSessionStarted,
       OnSessionEnded, OnTransferDone, OnTransferFailed, OnReboot, NotStarted, Report, AfterReport, ApplyUnsupported,
       CopyStart, CopyChunk, CopyFails, ApplyFailed, BootUpgrade, Reboot, ApplyCall, ApplyWork, Apply, KeepaliveFires,
       KeepaliveSent, KeepaliveReturns, Start, SetExpectedSize, Join, JoinFail, LeaveNetwork, ModemReset, StartSession, Fragment,
       Reconstruct, Abandon, EndSession, RequestReboot, Take, Raise, set_state_locked, Goto, schedule_keepalive,
       cancel_keepalive, States, Busy, coordinator, keepalive, works, control, flash, queue, backend
<1> QED BY <1>1, <1>2, <1>3, <1>4, <1>5, <1>6, <1>7, <1>8, <1>9, <1>10, <1>11, <1>12,
           <1>13, <1>14, <1>15, <1>16, <1>17, <1>18, <1>19, <1>20, <1>21, <1>22, <1>23, <1>24, <1>25, <1>26, <1>27, Zenon

LEMMA FlagTypes ==
    ASSUME TypeOK, Next
    PROVE  /\ up' \in BOOLEAN /\ started' \in BOOLEAN /\ image_ready' \in BOOLEAN /\ held' \in BOOLEAN
           /\ joined' \in BOOLEAN /\ session' \in BOOLEAN /\ done' \in BOOLEAN /\ timer' \in BOOLEAN
           /\ apply_work' \in BOOLEAN /\ state' \in States /\ canceling' \in BOOLEAN /\ missed' \in BOOLEAN
           /\ cut' \in BOOLEAN /\ dropped' \in BOOLEAN /\ covered' \in BOOLEAN
<1>0. /\ up \in BOOLEAN /\ started \in BOOLEAN /\ image_ready \in BOOLEAN /\ held \in BOOLEAN /\ timer \in BOOLEAN
      /\ joined \in BOOLEAN /\ session \in BOOLEAN /\ done \in BOOLEAN /\ apply_work \in BOOLEAN
      /\ state \in States /\ canceling \in BOOLEAN /\ missed \in BOOLEAN /\ cut \in BOOLEAN
      /\ dropped \in BOOLEAN /\ covered \in BOOLEAN
  BY DEF TypeOK
<1>1. up' \in BOOLEAN
  BY <1>0, Writes, Zenon
<1>2. started' \in BOOLEAN
  BY <1>0, Writes, Zenon
<1>3. image_ready' \in BOOLEAN
  BY <1>0, Writes, Zenon
<1>4. held' \in BOOLEAN
  BY <1>0, Writes, Zenon
<1>5. joined' \in BOOLEAN
  BY <1>0, Writes, Zenon
<1>6. session' \in BOOLEAN
  BY <1>0, Writes, Zenon
<1>7. done' \in BOOLEAN
  BY <1>0, Writes, Zenon
<1>8. state' \in States
  BY <1>0, Writes, Zenon
<1>9. missed' \in BOOLEAN
  BY <1>0, Writes, Zenon
<1>10. apply_work' \in BOOLEAN
  <2>1. (apply_work \/ AutoApply) \in BOOLEAN
    BY SMT
  <2>2. (apply_work \/ (AutoApply /\ image_ready)) \in BOOLEAN
    BY SMT
  <2> QED BY <1>0, <2>1, <2>2, Writes, Zenon
<1>11. timer' \in BOOLEAN
  <2>1. (timer \/ ~canceling) \in BOOLEAN
    BY SMT
  <2>2. (timer \/ (Keepalive /\ ~canceling)) \in BOOLEAN
    BY SMT
  <2> QED BY <1>0, <2>1, <2>2, Writes, Zenon
<1>12. canceling' \in BOOLEAN
  <2>1. (canceling \/ pc[Workq] \in {"send", "return"}) \in BOOLEAN
    BY SMT
  <2> QED BY <1>0, <2>1, Writes, Zenon
<1>13. cut' \in BOOLEAN
  <2>1. (cut \/ session) \in BOOLEAN
    BY SMT
  <2> QED BY <1>0, <2>1, Writes, Zenon
<1>14. dropped' \in BOOLEAN
  <2>1. ASSUME NEW t PROVE (dropped /\ t \notin Setters) \in BOOLEAN
    BY SMT
  <2> QED BY <1>0, <2>1, Writes, Zenon
<1>15. covered' \in BOOLEAN
  <2>1. ASSUME NEW a PROVE (a # Disp /\ (covered \/ state = "TRANSFERRING")) \in BOOLEAN
    BY SMT
  <2> QED BY <1>0, <2>1, Writes, Zenon
<1> QED BY <1>1, <1>2, <1>3, <1>4, <1>5, <1>6, <1>7, <1>8, <1>9, <1>10, <1>11, <1>12, <1>13, <1>14, <1>15, Zenon

LEMMA HarmTypes ==
    ASSUME TypeOK, Next
    PROVE  harm' \in [Installers -> SUBSET {"rejoined", "overwritten"}]
<1>0. harm \in [Installers -> SUBSET {"rejoined", "overwritten"}]
  BY DEF TypeOK
<1>1. ASSUME NEW S, NEW h \in {"rejoined", "overwritten"}, harm' = Harmed(S, h)
      PROVE  harm' \in [Installers -> SUBSET {"rejoined", "overwritten"}]
  BY <1>0, <1>1 DEF Harmed
<1>2. ASSUME NEW a \in Installers, NEW H \in {{}, {"overwritten"}}, harm' = [harm EXCEPT ![a] = H]
      PROVE  harm' \in [Installers -> SUBSET {"rejoined", "overwritten"}]
  BY <1>0, <1>2
<1> QED BY <1>0, <1>1, <1>2, Writes, Zenon

LEMMA SizeTypes ==
    ASSUME TypeOK, Next
    PROVE  image_size' \in 0..Chunks /\ expected_size' \in 0..Chunks
<1>1. Chunks \in Nat /\ image_size \in 0..Chunks /\ expected_size \in 0..Chunks /\ area.size \in 0..Chunks
  BY FuotaAssumption DEF TypeOK
<1>2. expected_size' = expected_size \/ expected_size' \in 1..Chunks
  BY Writes, Zenon
<1>3. \/ image_size' = image_size \/ image_size' = expected_size \/ image_size' \in 1..Chunks
      \/ inbox # <<>> /\ image_size' = detect_image_size(Head(inbox).size)
  BY Writes, Zenon
<1>4. ASSUME inbox # <<>> PROVE detect_image_size(Head(inbox).size) \in 0..Chunks
  <2>1. Head(inbox) \in Events
    BY <1>4 DEF TypeOK
  <2>2. Head(inbox).size \in 0..Chunks
    BY <2>1 DEF Events
  <2> QED BY <1>1, <2>2 DEF detect_image_size
<1> QED BY <1>1, <1>2, <1>3, <1>4

LEMMA CopyTypes ==
    ASSUME TypeOK, Next
    PROVE  /\ copied' \in [Installers -> 0..Chunks] /\ size' \in [Installers -> 0..Chunks]
           /\ slot' \in [1..Chunks -> 0..scenario.sessions] /\ upgrade'.image \in Seq(0..scenario.sessions)
<1>0. /\ Chunks \in Nat /\ scenario.sessions \in Nat /\ slot \in [1..Chunks -> 0..scenario.sessions]
      /\ upgrade.image \in Seq(0..scenario.sessions) /\ area.from \in 0..scenario.sessions /\ image_size \in 0..Chunks
      /\ copied \in [Installers -> 0..Chunks] /\ size \in [Installers -> 0..Chunks]
  BY FuotaAssumption, ScenarioBounds DEF TypeOK
<1>1. size' \in [Installers -> 0..Chunks]
  <2>1. CASE size' = size
    BY <1>0, <2>1
  <2>2. ASSUME NEW a \in Installers, size' = [size EXCEPT ![a] = image_size] \/ size' = [size EXCEPT ![a] = 0]
        PROVE  size' \in [Installers -> 0..Chunks]
    <3>1. 0 \in 0..Chunks /\ image_size \in 0..Chunks
      BY <1>0
    <3>2. PICK v \in 0..Chunks : size' = [size EXCEPT ![a] = v]
      BY <2>2, <3>1
    <3>3. \A S : size \in [Installers -> S] /\ v \in S => size' \in [Installers -> S]
      BY <3>2
    <3> QED BY <1>0, <3>3
  <2> QED BY <2>1, <2>2, Writes, Zenon
<1>2. copied' \in [Installers -> 0..Chunks]
  <2>1. CASE copied' = copied
    BY <1>0, <2>1
  <2>2. ASSUME NEW a \in Installers, copied[a] < size[a], copied' = [copied EXCEPT ![a] = copied[a] + 1]
        PROVE  copied' \in [Installers -> 0..Chunks]
    <3>1. copied[a] + 1 \in 0..Chunks
      BY <1>0, <2>2
    <3> QED BY <1>0, <2>2, <3>1
  <2>3. ASSUME NEW a \in Installers, copied' = [copied EXCEPT ![a] = 0]
        PROVE  copied' \in [Installers -> 0..Chunks]
    BY <1>0, <2>3
  <2> QED BY <2>1, <2>2, <2>3, Writes, Zenon
<1>3. slot' \in [1..Chunks -> 0..scenario.sessions]
  <2>1. CASE slot' = slot
    BY <1>0, <2>1
  <2>2. ASSUME NEW a \in Installers, copied[a] < size[a],
               slot' = [slot EXCEPT ![copied[a] + 1] = IF Whole THEN area.from ELSE 0]
        PROVE  slot' \in [1..Chunks -> 0..scenario.sessions]
    <3>1. (IF Whole THEN area.from ELSE 0) \in 0..scenario.sessions
      BY <1>0
    <3> QED BY <1>0, <2>2, <3>1
  <2> QED BY <2>1, <2>2, Writes, Zenon
<1>4. ASSUME NEW a \in Installers PROVE [i \in 1..size[a] |-> slot[i]] \in Seq(0..scenario.sessions)
  <2>1. size[a] \in Nat /\ [i \in 1..size[a] |-> slot[i]] \in [1..size[a] -> 0..scenario.sessions]
    BY <1>0
  <2> QED BY <2>1, SeqDef
<1>5. upgrade'.image \in Seq(0..scenario.sessions)
  <2>1. CASE upgrade' = upgrade
    BY <1>0, <2>1
  <2>2. ASSUME NEW a \in Installers, upgrade' = [image |-> [i \in 1..size[a] |-> slot[i]], harm |-> harm[a]]
        PROVE  upgrade'.image \in Seq(0..scenario.sessions)
    <3>1. upgrade'.image = [i \in 1..size[a] |-> slot[i]]
      BY <2>2
    <3> QED BY <1>4, <3>1, Zenon
  <2> QED BY <2>1, <2>2, Writes, Zenon
<1> QED BY <1>1, <1>2, <1>3, <1>5

\* An actor moves to a label, its own or the one after its report.
LEMMA ControlTypes ==
    ASSUME TypeOK, Next
    PROVE  pc' \in [Actors -> Labels] /\ then' \in [Actors -> Labels]
<1>0. pc \in [Actors -> Labels] /\ then \in [Actors -> Labels]
  BY DEF TypeOK
<1>1. CASE DispNext
  BY <1>0, <1>1, ActorsAre DEF Labels, States, DispNext, OnJoined, OnLeft, OnSessionStarted, OnSessionEnded, OnTransferDone, OnTransferFailed,
       OnReboot, NotStarted, Report, AfterReport, Take, set_state_locked, Goto, schedule_keepalive, cancel_keepalive,
       coordinator, keepalive, works, control, flash, queue, backend
<1>2. ASSUME NEW a \in Installers, InstallNext(a)
      PROVE  pc' \in [Actors -> Labels] /\ then' \in [Actors -> Labels]
  BY <1>0, <1>2, ActorsAre DEF Labels, States, InstallNext, Report, ApplyUnsupported, CopyStart, CopyChunk, CopyFails, ApplyFailed, BootUpgrade, Reboot,
       set_state_locked, Goto, coordinator, keepalive, works, control, flash, queue, backend
<1>3. CASE (\E t \in Appliers : ApplyCall(t)) \/ ApplyWork
  BY <1>0, <1>3, ActorsAre DEF Labels, ApplyCall, Apply, ApplyWork, set_state_locked, Goto, control
<1>5. CASE KeepaliveFires \/ KeepaliveSent \/ KeepaliveReturns
  BY <1>0, <1>5, ActorsAre DEF Labels, KeepaliveFires, KeepaliveSent, KeepaliveReturns, Goto
<1>6. CASE Start \/ \E n \in 1..Chunks : SetExpectedSize(n)
  BY <1>0, <1>6 DEF Start, SetExpectedSize, control
<1>4. CASE BackendNext
  BY <1>0, <1>4 DEF BackendNext, Join, JoinFail, LeaveNetwork, ModemReset, StartSession, Fragment, Reconstruct, Abandon,
       EndSession, RequestReboot, Raise, coordinator, keepalive, works, control, flash, queue, backend
<1> QED BY <1>1, <1>2, <1>3, <1>4, <1>5, <1>6, Zenon DEF Next, WorkqNext

\* The queue of events changes at one of its ends.
LEMMA InboxStep ==
    ASSUME TypeOK, Next
    PROVE  \/ inbox' = inbox
           \/ inbox # <<>> /\ inbox' = Tail(inbox)
           \/ \E e \in Events : Len(inbox) < scenario.events /\ inbox' = Append(inbox, e)
<1>1. CASE DispNext
  BY <1>1 DEF DispNext, OnJoined, OnLeft, OnSessionStarted, OnSessionEnded, OnTransferDone, OnTransferFailed,
       OnReboot, NotStarted, Report, AfterReport, Take, set_state_locked, Goto, schedule_keepalive, cancel_keepalive,
       coordinator, keepalive, works, control, flash, queue, backend
<1>2. CASE \E a \in Installers : InstallNext(a)
  BY <1>2 DEF InstallNext, Report, ApplyUnsupported, CopyStart, CopyChunk, CopyFails, ApplyFailed, BootUpgrade, Reboot,
       set_state_locked, Goto, coordinator, keepalive, works, control, flash, queue, backend
<1>3. CASE (\E t \in Appliers : ApplyCall(t)) \/ WorkqNext \/ Start \/ (\E n \in 1..Chunks : SetExpectedSize(n))
  BY <1>3 DEF ApplyCall, Apply, WorkqNext, ApplyWork, KeepaliveFires, KeepaliveSent, KeepaliveReturns, Start, SetExpectedSize,
       set_state_locked, Goto, schedule_keepalive, coordinator, keepalive, works, control, flash, queue, backend
<1>4. CASE BackendNext
  <2>1. ASSUME NEW t \in EventTypes, NEW n \in 0..Chunks, Raise(t, n)
        PROVE  inbox' = inbox \/ \E e \in Events : Len(inbox) < scenario.events /\ inbox' = Append(inbox, e)
    <3>1. Event(t, n) \in Events
      BY DEF Event, Events
    <3> QED BY <2>1, <3>1 DEF Raise
  <2>2. \/ inbox' = inbox
        \/ \E t \in EventTypes, n \in 0..Chunks : Raise(t, n)
    BY <1>4, FuotaAssumption DEF EventTypes, BackendNext, Join, JoinFail, LeaveNetwork, ModemReset, StartSession,
       Fragment, Reconstruct, Abandon, EndSession, RequestReboot, queue
  <2> QED BY <2>1, <2>2
<1> QED BY <1>1, <1>2, <1>3, <1>4, Zenon DEF Next

LEMMA InboxTypes ==
    ASSUME TypeOK, Next
    PROVE  inbox' \in Seq(Events) /\ Len(inbox') <= scenario.events
<1>1. inbox \in Seq(Events) /\ Len(inbox) <= scenario.events /\ scenario.events \in Nat
  BY ScenarioBounds DEF TypeOK
<1> QED BY <1>1, InboxStep

LEMMA BackendTypes ==
    ASSUME TypeOK, Next
    PROVE  /\ sessions' \in 0..scenario.sessions /\ joins' \in 0..scenario.joins /\ resets' \in 0..scenario.resets
           /\ area' \in [from : 0..scenario.sessions, image : 0..scenario.sessions, size : 0..Chunks, header : BOOLEAN]
<1>0. /\ scenario.sessions \in Nat /\ Chunks \in Nat /\ scenario.joins \in Nat /\ scenario.resets \in Nat
      /\ sessions \in 0..scenario.sessions /\ joins \in 0..scenario.joins /\ resets \in 0..scenario.resets
      /\ area \in [from : 0..scenario.sessions, image : 0..scenario.sessions, size : 0..Chunks, header : BOOLEAN]
  BY FuotaAssumption, ScenarioBounds DEF TypeOK
<1>1. /\ sessions' = sessions \/ (sessions < scenario.sessions /\ sessions' = sessions + 1)
      /\ joins' = joins \/ (joins < scenario.joins /\ joins' = joins + 1)
      /\ resets' = resets \/ (resets < scenario.resets /\ resets' = resets + 1)
  BY Writes, Zenon
<1>2. area' \in [from : 0..scenario.sessions, image : 0..scenario.sessions, size : 0..Chunks, header : BOOLEAN]
  <2>1. CASE area' = area
    BY <1>0, <2>1
  <2>2. CASE area' = [from |-> sessions, image |-> area.image, size |-> 0, header |-> FALSE]
    BY <1>0, <2>2
  <2>3. ASSUME NEW n \in 1..Chunks, NEW h \in BOOLEAN,
               area' = [from |-> sessions, image |-> sessions, size |-> n, header |-> h]
        PROVE  area' \in [from : 0..scenario.sessions, image : 0..scenario.sessions, size : 0..Chunks, header : BOOLEAN]
    BY <1>0, <2>3
  <2> QED BY <2>1, <2>2, <2>3, Writes, Zenon
<1> QED BY <1>0, <1>1, <1>2

LEMMA TypesNext ==
    ASSUME TypeOK, Next
    PROVE  TypeOK'
<1>1. scenario \in Scenarios /\ scenario' = scenario
  BY Writes, Zenon DEF TypeOK
<1> QED BY <1>1, FlagTypes, HarmTypes, SizeTypes, ControlTypes, CopyTypes, InboxTypes, BackendTypes, Zenon DEF TypeOK

-----------------------------------------------------------------------------
(* Control and keepalive *)

\* Where an actor goes on after set_state_locked().
LEMMA SetState ==
    ASSUME TypeOK, NEW a \in Actors, NEW next, NEW l, set_state_locked(a, next, l)
    PROVE  /\ state' = next /\ UNCHANGED <<copied, size>>
           /\ \/ pc'[a] = l /\ then'[a] = then[a]
              \/ pc'[a] = "report" /\ then'[a] = l
           /\ \A b \in Actors \ {a} : pc'[b] = pc[b] /\ then'[b] = then[b]
BY DEF TypeOK, set_state_locked, Goto

LEMMA GotoStep ==
    ASSUME TypeOK, NEW a \in Actors, NEW l, Goto(a, l)
    PROVE  /\ UNCHANGED <<copied, size>> /\ pc'[a] = l /\ UNCHANGED then
           /\ \A b \in Actors \ {a} : pc'[b] = pc[b]
BY DEF TypeOK, Goto

LEMMA ReportStep ==
    ASSUME TypeOK, NEW a \in Actors, Report(a)
    PROVE  /\ UNCHANGED <<copied, size>> /\ pc[a] = "report" /\ pc'[a] = then[a] /\ then'[a] = "idle"
           /\ \A b \in Actors \ {a} : pc'[b] = pc[b] /\ then'[b] = then[b]
BY DEF TypeOK, Report

LEMMA DispMoves ==
    ASSUME TypeOK, ControlInv, DispNext
    PROVE  /\ UNCHANGED <<copied, size>> /\ DispOK'
           /\ \A b \in Installers : pc'[b] = pc[b] /\ then'[b] = then[b]
<1>0. DispOK /\ Disp \in Actors /\ \A b \in Installers : b \in Actors \ {Disp}
  BY ActorsAre DEF ControlInv
<1> DEFINE Goal == /\ UNCHANGED <<copied, size>> /\ DispOK'
                   /\ \A b \in Installers : pc'[b] = pc[b] /\ then'[b] = then[b]
<1>1. ASSUME NEW next, NEW l \in {"idle", "schedule", "submit"}, set_state_locked(Disp, next, l) PROVE Goal
  BY <1>0, <1>1, SetState DEF DispOK
<1>2. ASSUME Report(Disp) PROVE Goal
  BY <1>0, <1>2, ReportStep DEF DispOK
<1>3. ASSUME NEW l \in {"idle"}, Goto(Disp, l) PROVE Goal
  BY <1>0, <1>3, GotoStep DEF DispOK
<1>4. ASSUME UNCHANGED control PROVE Goal
  BY <1>0, <1>4 DEF DispOK, control
<1> HIDE DEF Goal
<1>5. \/ \E next \in States, l \in {"idle", "schedule", "submit"} : set_state_locked(Disp, next, l)
      \/ Report(Disp) \/ Goto(Disp, "idle") \/ UNCHANGED control
  BY DEF States, DispNext, OnJoined, OnLeft, OnSessionStarted, OnSessionEnded, OnTransferDone, OnTransferFailed,
     OnReboot, NotStarted, AfterReport
<1>6. Goal
  BY <1>1, <1>2, <1>3, <1>4, <1>5
<1> QED BY <1>6 DEF Goal

\* A step of an installer is its own: the rest of its step of rzi_fuota_apply() or of the
\* system work queue.
OwnStep(a) == \/ InstallNext(a)
              \/ a \in Appliers /\ ApplyCall(a)
              \/ a = Workq /\ WorkqNext

LEMMA InstallerMoves ==
    ASSUME TypeOK, ControlInv, NEW a \in Installers, OwnStep(a), UNCHANGED scenario
    PROVE  /\ InstallerOK(a)' /\ pc'[Disp] = pc[Disp] /\ then'[Disp] = then[Disp]
           /\ \A b \in Installers \ {a} : /\ pc'[b] = pc[b] /\ then'[b] = then[b]
                                          /\ copied'[b] = copied[b] /\ size'[b] = size[b]
<1>0. /\ a \in Actors /\ Disp \in Actors \ {a} /\ InstallerOK(a) /\ \A b \in Installers \ {a} : b \in Actors \ {a}
      /\ ImgManager' = ImgManager
  BY ActorsAre DEF ControlInv, ImgManager
<1>00. /\ copied \in [Installers -> 0..Chunks] /\ size \in [Installers -> 0..Chunks] /\ image_size \in 0..Chunks
       /\ Chunks \in Nat /\ pc \in [Actors -> Labels]
  BY FuotaAssumption DEF TypeOK
<1> DEFINE Goal == /\ InstallerOK(a)' /\ pc'[Disp] = pc[Disp] /\ then'[Disp] = then[Disp]
                   /\ \A b \in Installers \ {a} : /\ pc'[b] = pc[b] /\ then'[b] = then[b]
                                                  /\ copied'[b] = copied[b] /\ size'[b] = size[b]
<1> SUFFICES Goal
  OBVIOUS
<1>1. CASE Report(a)
  <2>1. InstallerOK(a)'
    BY <1>0, <1>1, ReportStep DEF InstallerOK
  <2> QED BY <1>0, <1>1, <2>1, ReportStep
<1>2. ASSUME NEW l \in {"idle", "send", "return"}, Goto(a, l), size[a] = 0, pc[a] # "report" PROVE Goal
  <2>1. InstallerOK(a)'
    BY <1>0, <1>00, <1>2, GotoStep DEF InstallerOK
  <2> QED BY <1>0, <1>2, <2>1, GotoStep
<1>3. ASSUME NEW next, NEW l \in {"idle", "copy"}, set_state_locked(a, next, l), size[a] = 0,
             pc[a] # "report"
      PROVE  Goal
  <2>1. InstallerOK(a)'
    BY <1>0, <1>00, <1>3, SetState DEF InstallerOK
  <2> QED BY <1>0, <1>3, <2>1, SetState
<1>4. CASE CopyStart(a)
  <2>1. /\ size' = [size EXCEPT ![a] = image_size] /\ UNCHANGED <<then, copied>> /\ pc[a] = "copy" /\ ImgManager
        /\ pc' = [pc EXCEPT ![a] = IF image_size = 0 THEN "boot" ELSE "copy"] /\ size[a] = 0
    BY <1>4 DEF CopyStart
  <2>2. copied[a] = 0
    BY <1>0, <1>00, <2>1 DEF InstallerOK
  <2>3. InstallerOK(a)'
    BY <1>0, <1>00, <2>1, <2>2 DEF InstallerOK
  <2> QED BY <1>0, <1>00, <2>1, <2>3
<1>5. CASE CopyChunk(a)
  <2>1. /\ copied' = [copied EXCEPT ![a] = @ + 1] /\ UNCHANGED <<then, size>> /\ pc[a] = "copy"
        /\ copied[a] < size[a]
        /\ pc' = [pc EXCEPT ![a] = IF copied'[a] = size[a] THEN "boot" ELSE "copy"]
    BY <1>5 DEF CopyChunk
  <2>2. InstallerOK(a)'
    BY <1>0, <1>00, <2>1 DEF InstallerOK
  <2> QED BY <1>0, <1>00, <2>1, <2>2
<1>6. CASE CopyFails(a)
  <2>1. /\ copied' = [copied EXCEPT ![a] = 0] /\ size' = [size EXCEPT ![a] = 0] /\ UNCHANGED then /\ ImgManager
        /\ pc[a] # "report" /\ pc' = [pc EXCEPT ![a] = "failed"]
    BY <1>6 DEF CopyFails
  <2>2. InstallerOK(a)'
    BY <1>0, <1>00, <2>1 DEF InstallerOK
  <2> QED BY <1>0, <1>00, <2>1, <2>2
<1>7. ASSUME UNCHANGED control PROVE Goal
  BY <1>0, <1>7 DEF InstallerOK, control
<1> HIDE DEF Goal
<1>8. CASE InstallNext(a)
  <2>1. CASE ApplyUnsupported(a)
    <3>1. Goto(a, "idle") /\ size[a] = 0 /\ pc[a] # "report"
      BY <1>0, <2>1 DEF ApplyUnsupported, InstallerOK
    <3> QED BY <1>2, <3>1
  <2>2. CASE ApplyFailed(a)
    <3>1. set_state_locked(a, "COMPLETE", "idle") /\ size[a] = 0 /\ pc[a] # "report"
      BY <1>0, <2>2 DEF ApplyFailed, InstallerOK
    <3> QED BY <1>3, <3>1
  <2>3. CASE BootUpgrade(a)
    <3>1. pc[a] = "boot" /\ Goto(a, "reboot")
      BY <2>3 DEF BootUpgrade
    <3>2. InstallerOK(a)'
      BY <1>0, <1>00, <3>1, GotoStep DEF InstallerOK
    <3> QED BY <1>0, <3>1, <3>2, GotoStep DEF Goal
  <2>4. CASE Reboot(a)
    BY <1>7, <2>4 DEF Reboot
  <2> QED BY <1>1, <1>4, <1>5, <1>6, <1>8, <2>1, <2>2, <2>3, <2>4 DEF InstallNext
<1>9. CASE a \in Appliers /\ ApplyCall(a)
  <2>1. set_state_locked(a, "APPLYING", "copy") /\ size[a] = 0 /\ pc[a] # "report"
    BY <1>0, <1>9 DEF ApplyCall, Apply, InstallerOK
  <2> QED BY <1>3, <2>1
<1>10. CASE a = Workq /\ WorkqNext
  <2>1. CASE ApplyWork
    <3>1. size[a] = 0 /\ pc[a] # "report" /\ (set_state_locked(a, "APPLYING", "copy") \/ UNCHANGED control)
      BY <1>0, <1>10, <2>1 DEF ApplyWork, Apply, InstallerOK
    <3> QED BY <1>3, <1>7, <3>1
  <2>2. CASE KeepaliveFires
    <3>1. size[a] = 0 /\ pc[a] # "report" /\ (Goto(a, "return") \/ Goto(a, "send"))
      BY <1>0, <1>10, <2>2 DEF KeepaliveFires, InstallerOK
    <3> QED BY <1>2, <3>1
  <2>3. CASE KeepaliveSent
    <3>1. size[a] = 0 /\ pc[a] # "report" /\ Goto(a, "return")
      BY <1>0, <1>10, <2>3 DEF KeepaliveSent, InstallerOK
    <3> QED BY <1>2, <3>1
  <2>4. CASE KeepaliveReturns
    <3>1. size[a] = 0 /\ pc[a] # "report" /\ Goto(a, "idle")
      BY <1>0, <1>10, <2>4 DEF KeepaliveReturns, InstallerOK
    <3> QED BY <1>2, <3>1
  <2> QED BY <1>10, <2>1, <2>2, <2>3, <2>4 DEF WorkqNext
<1> QED BY <1>8, <1>9, <1>10 DEF OwnStep

\* Who makes a step.
LEMMA StepOf ==
    ASSUME Next
    PROVE  /\ up /\ UNCHANGED scenario
           /\ \/ DispNext
              \/ \E a \in Installers : OwnStep(a)
              \/ Start \/ (\E n \in 1..Chunks : SetExpectedSize(n)) \/ BackendNext
BY ActorsAre DEF Next, Running, OwnStep

\* The other steps leave the control and the flash alone.
LEMMA OutsideStep ==
    ASSUME Start \/ (\E n \in 1..Chunks : SetExpectedSize(n)) \/ BackendNext
    PROVE  UNCHANGED <<up, state, image_ready, keepalive, control, flash, covered>>
BY DEF Start, SetExpectedSize, BackendNext, Join, JoinFail, LeaveNetwork, ModemReset, StartSession, Fragment, Reconstruct, Abandon,
       EndSession, RequestReboot, Raise, coordinator, keepalive, works, control, flash, queue, backend

LEMMA ControlNext ==
    ASSUME TypeOK, ControlInv, Next
    PROVE  ControlInv'
<1>0. UNCHANGED scenario /\ ImgManager' = ImgManager
  BY StepOf DEF ImgManager
<1>1. CASE DispNext
  BY <1>0, <1>1, DispMoves DEF ControlInv, InstallerOK
<1>2. ASSUME NEW a \in Installers, OwnStep(a) PROVE ControlInv'
  <2>1. DispOK'
    BY <1>0, <1>2, InstallerMoves DEF ControlInv, DispOK
  <2>2. ASSUME NEW b \in Installers \ {a} PROVE InstallerOK(b)'
    BY <1>0, <1>2, InstallerMoves DEF ControlInv, InstallerOK
  <2> QED BY <1>0, <1>2, <2>1, <2>2, InstallerMoves DEF ControlInv
<1>3. CASE Start \/ (\E n \in 1..Chunks : SetExpectedSize(n)) \/ BackendNext
  BY <1>0, <1>3, OutsideStep DEF ControlInv, DispOK, InstallerOK, control
<1> QED BY <1>1, <1>2, <1>3, StepOf


\* A schedule_keepalive() arms the timer, or comes too early.
LEMMA Scheduled ==
    ASSUME TypeOK, schedule_keepalive
    PROVE  UNCHANGED canceling /\ (Keepalive => timer' \/ missed')
<1>1. UNCHANGED canceling /\ timer' = (timer \/ (Keepalive /\ ~canceling)) /\ missed' = canceling
  BY DEF schedule_keepalive
<1>2. CASE canceling
  BY <1>1, <1>2, Zenon
<1>3. CASE ~canceling
  BY <1>1, <1>3, Zenon
<1> QED BY <1>2, <1>3

\* The keepalive: every way into READY and FAILED schedules it or misses it, and while it is off
\* its handler is about to send and schedule it again.
LEMMA KeepNext ==
    ASSUME TypeOK, ControlInv, KeepInv, Next
    PROVE  KeepInv'
<1>0. /\ Disp \in Actors /\ Workq \in Installers /\ Workq \in Actors /\ Disp # Workq
      /\ Keepalive' = Keepalive
  BY ActorsAre, StepOf DEF Keepalive
<1>1. CASE DispNext
  <2>0. pc'[Workq] = pc[Workq]
    BY <1>0, <1>1, DispMoves
  <2>1. CASE OnJoined \/ OnTransferFailed
    <3>1. UNCHANGED canceling /\ \E next : set_state_locked(Disp, next, "schedule")
      BY <2>1 DEF OnJoined, OnTransferFailed, works, keepalive
    <3>2. GoesTo(Disp, "schedule")'
      BY <1>0, <3>1, SetState DEF GoesTo
    <3> QED BY <2>0, <3>1, <3>2 DEF KeepInv
  <2>2. CASE OnLeft \/ OnSessionStarted \/ OnTransferDone
    <3>1. state' \notin {"READY", "FAILED"}
      BY <1>0, <2>2, SetState DEF OnLeft, OnSessionStarted, OnTransferDone, coordinator
    <3>2. canceling' => canceling \/ pc[Workq] \in {"send", "return"}
      BY <2>2 DEF OnLeft, OnSessionStarted, OnTransferDone, cancel_keepalive, works, keepalive
    <3> QED BY <2>0, <3>1, <3>2 DEF KeepInv
  <2>3. CASE OnSessionEnded
    <3>1. UNCHANGED canceling /\ ((Keepalive => timer' \/ missed') \/ UNCHANGED <<state, pc, then, timer, missed>>)
      BY <2>3, Scheduled DEF OnSessionEnded, control, keepalive
    <3> QED BY <1>0, <2>0, <3>1 DEF KeepInv, GoesTo
  <2>4. CASE OnReboot \/ NotStarted
    BY <1>0, <2>4 DEF OnReboot, NotStarted, KeepInv, GoesTo, coordinator, keepalive, works, control
  <2>5. CASE Report(Disp)
    <3>1. UNCHANGED <<state, timer, missed, canceling>> /\ (GoesTo(Disp, "schedule") => GoesTo(Disp, "schedule")')
      BY <1>0, <2>5, ReportStep DEF Report, GoesTo, coordinator, keepalive, works
    <3> QED BY <1>0, <2>0, <3>1 DEF KeepInv
  <2>6. CASE AfterReport
    <3>1. CASE pc[Disp] = "schedule"
      <4>1. UNCHANGED canceling /\ (Keepalive => timer' \/ missed')
        BY <2>6, <3>1, Scheduled DEF AfterReport
      <4> QED BY <1>0, <2>0, <4>1 DEF KeepInv
    <3>2. CASE pc[Disp] = "submit"
      <4>1. UNCHANGED <<state, timer, missed, canceling>>
        BY <2>6, <3>2 DEF AfterReport, coordinator, keepalive
      <4> QED BY <1>0, <2>0, <3>2, <4>1 DEF KeepInv, GoesTo
    <3> QED BY <2>6, <3>1, <3>2 DEF AfterReport
  <2> QED BY <1>1, <2>1, <2>2, <2>3, <2>4, <2>5, <2>6 DEF DispNext
<1>2. ASSUME NEW a \in Installers, OwnStep(a) PROVE KeepInv'
  <2>0. GoesTo(Disp, "schedule")' <=> GoesTo(Disp, "schedule")
    BY <1>2, InstallerMoves, StepOf DEF GoesTo
  <2>1. CASE a = Workq /\ KeepaliveSent
    <3>1. /\ pc[Workq] = "send" /\ timer' = (timer \/ ~canceling) /\ UNCHANGED <<canceling, missed, state>>
          /\ pc'[Workq] = "return"
      BY <1>0, <2>1, GotoStep DEF KeepaliveSent, coordinator
    <3> QED BY <1>0, <2>0, <3>1 DEF KeepInv
  <2>2. CASE a = Workq /\ KeepaliveFires
    <3>1. /\ pc[Workq] = "idle" /\ UNCHANGED <<state, canceling, missed>> /\ (state \notin Busy => pc'[Workq] = "send")
      BY <1>0, <2>2, GotoStep DEF KeepaliveFires, coordinator
    <3>2. ~canceling
      BY <3>1 DEF KeepInv
    <3> QED BY <3>1, <3>2 DEF KeepInv, Busy
  <2>3. CASE a = Workq /\ KeepaliveReturns
    <3>1. pc[Workq] = "return" /\ ~canceling' /\ UNCHANGED <<state, timer, missed>>
      BY <2>3 DEF KeepaliveReturns, coordinator
    <3> QED BY <1>0, <2>0, <3>1 DEF KeepInv
  <2>4. CASE ~(a = Workq /\ (KeepaliveSent \/ KeepaliveFires \/ KeepaliveReturns))
    <3>1. /\ UNCHANGED <<timer, missed, canceling>> /\ (state' \in {"READY", "FAILED"} => state' = state)
          /\ pc[a] \notin {"send", "return"}
      BY <1>2, <2>4, ActorsAre DEF OwnStep, WorkqNext, ApplyCall, Apply, ApplyWork, InstallNext, Report, ApplyUnsupported,
         CopyStart, CopyChunk, CopyFails, ApplyFailed, BootUpgrade, Reboot, set_state_locked, Goto, coordinator, keepalive,
         works, control, flash
    <3>2. pc[Workq] \in {"send", "return"} => pc'[Workq] = pc[Workq]
      BY <1>2, <3>1, InstallerMoves, StepOf, ActorsAre
    <3> QED BY <1>0, <2>0, <3>1, <3>2 DEF KeepInv
  <2> QED BY <2>1, <2>2, <2>3, <2>4
<1>3. CASE Start \/ (\E n \in 1..Chunks : SetExpectedSize(n)) \/ BackendNext
  BY <1>0, <1>3, OutsideStep DEF KeepInv, GoesTo, control, keepalive
<1> QED BY <1>1, <1>2, <1>3, StepOf

-----------------------------------------------------------------------------
(* The queue of events *)

\* The first event is taken.
LEMMA TailBehind ==
    ASSUME inbox \in Seq(Events), inbox # <<>>, inbox' = Tail(inbox)
    PROVE  /\ Len(inbox') \in Nat /\ Len(inbox) = Len(inbox') + 1 /\ inbox[1] = Head(inbox)
           /\ \A i \in 1..Len(inbox') : inbox'[i] = inbox[i + 1]
           /\ \A S, i : i \in 0..Len(inbox') => (Behind(i, S)' <=> Behind(i + 1, S))
           /\ \A S : Behind(0, S) <=> Head(inbox).type \in S \/ Behind(1, S)
<1>1. /\ Len(inbox) \in Nat \ {0} /\ Len(inbox') = Len(inbox) - 1 /\ Head(inbox) = inbox[1]
      /\ \A i \in 1..Len(inbox') : inbox'[i] = inbox[i + 1]
  OBVIOUS
<1>2. ASSUME NEW S, NEW i \in 0..Len(inbox') PROVE Behind(i, S)' <=> Behind(i + 1, S)
  <2>1. ASSUME NEW j \in (i + 1)..Len(inbox'), inbox'[j].type \in S PROVE Behind(i + 1, S)
    <3>1. j + 1 \in ((i + 1) + 1)..Len(inbox) /\ inbox[j + 1].type \in S
      BY <1>1, <2>1
    <3> QED BY <3>1 DEF Behind
  <2>2. ASSUME NEW j \in ((i + 1) + 1)..Len(inbox), inbox[j].type \in S PROVE Behind(i, S)'
    <3>1. j - 1 \in (i + 1)..Len(inbox') /\ j - 1 \in 1..Len(inbox') /\ (j - 1) + 1 = j
      BY <1>1
    <3>2. inbox'[j - 1].type \in S
      BY <1>1, <2>2, <3>1
    <3> QED BY <3>1, <3>2 DEF Behind
  <2> QED BY <2>1, <2>2 DEF Behind
<1>3. ASSUME NEW S PROVE Behind(0, S) <=> Head(inbox).type \in S \/ Behind(1, S)
  <2>1. \A j \in (0 + 1)..Len(inbox) : j = 1 \/ j \in (1 + 1)..Len(inbox)
    BY <1>1
  <2>2. 1 \in (0 + 1)..Len(inbox) /\ \A j \in (1 + 1)..Len(inbox) : j \in (0 + 1)..Len(inbox)
    BY <1>1
  <2> QED BY <1>1, <2>1, <2>2 DEF Behind
<1> QED BY <1>1, <1>2, <1>3

\* An event is queued.
LEMMA AppendBehind ==
    ASSUME inbox \in Seq(Events), NEW e \in Events, inbox' = Append(inbox, e)
    PROVE  /\ Len(inbox) \in Nat /\ Len(inbox') = Len(inbox) + 1 /\ inbox'[Len(inbox) + 1] = e
           /\ \A i \in 1..Len(inbox) : inbox'[i] = inbox[i]
           /\ \A S, i : i \in 0..Len(inbox) => (Behind(i, S)' <=> Behind(i, S) \/ e.type \in S)
           /\ \A S, i : i = Len(inbox) + 1 => ~Behind(i, S)'
<1>1. /\ Len(inbox) \in Nat /\ Len(inbox') = Len(inbox) + 1 /\ inbox'[Len(inbox) + 1] = e
      /\ \A i \in 1..Len(inbox) : inbox'[i] = inbox[i]
  OBVIOUS
<1>2. ASSUME NEW S, NEW i \in 0..Len(inbox) PROVE Behind(i, S)' <=> Behind(i, S) \/ e.type \in S
  <2>1. \A j \in (i + 1)..Len(inbox') : j = Len(inbox) + 1 \/ (j \in (i + 1)..Len(inbox) /\ inbox'[j] = inbox[j])
    BY <1>1
  <2>2. Len(inbox) + 1 \in (i + 1)..Len(inbox')
    BY <1>1
  <2>3. \A j \in (i + 1)..Len(inbox) : j \in (i + 1)..Len(inbox') /\ inbox'[j] = inbox[j]
    BY <1>1
  <2> QED BY <1>1, <2>1, <2>2, <2>3 DEF Behind
<1>3. ASSUME NEW S, NEW i, i = Len(inbox) + 1 PROVE ~Behind(i, S)'
  <2>1. (i + 1)..Len(inbox') = {}
    BY <1>1, <1>3
  <2> QED BY <2>1 DEF Behind
<1> QED BY <1>1, <1>2, <1>3

\* An event is queued or dropped.
LEMMA Raised ==
    ASSUME NEW t \in EventTypes, NEW n \in 0..Chunks, Raise(t, n)
    PROVE  \/ /\ Event(t, n) \in Events /\ Event(t, n).type = t /\ inbox' = Append(inbox, Event(t, n))
              /\ dropped' = (dropped /\ t \notin Setters)
           \/ UNCHANGED inbox /\ dropped'
BY DEF Raise, Event, Events

\* The dispatcher takes an event or leaves the queue alone; of the backend it changes nothing.
LEMMA DispTakes ==
    ASSUME TypeOK, DispNext
    PROVE  /\ UNCHANGED <<backend, slot, upgrade, up, dropped>>
           /\ inbox' = inbox \/ (inbox # <<>> /\ inbox' = Tail(inbox))
           /\ image_ready' => image_ready \/ (inbox # <<>> /\ inbox' = Tail(inbox) /\ Head(inbox).type = "DONE")
<1> USE DEF DispNext, OnJoined, OnLeft, OnSessionStarted, OnSessionEnded, OnTransferDone, OnTransferFailed,
       OnReboot, NotStarted, Report, AfterReport, Take, set_state_locked, Goto, schedule_keepalive, cancel_keepalive,
       coordinator, keepalive, works, control, flash, queue, backend
<1>1. UNCHANGED <<backend, slot, upgrade, up, dropped>>
  OBVIOUS
<1>2. inbox' = inbox \/ (inbox # <<>> /\ inbox' = Tail(inbox))
  OBVIOUS
<1>3. image_ready' => image_ready \/ (inbox # <<>> /\ inbox' = Tail(inbox) /\ Head(inbox).type = "DONE")
  OBVIOUS
<1> HIDE DEF DispNext, OnJoined, OnLeft, OnSessionStarted, OnSessionEnded, OnTransferDone, OnTransferFailed,
       OnReboot, NotStarted, Report, AfterReport, Take, set_state_locked, Goto, schedule_keepalive, cancel_keepalive,
       coordinator, keepalive, works, control, flash, queue, backend
<1> QED BY <1>1, <1>2, <1>3, Zenon

\* An installer leaves the events, the backend and the image alone; when it leaves
\* TRANSFERRING this is noted.
LEMMA OwnStepQuiet ==
    ASSUME NEW a \in Installers, OwnStep(a)
    PROVE  /\ UNCHANGED <<inbox, dropped, backend, started, image_ready, image_size, expected_size>>
           /\ \/ UNCHANGED <<state, covered>>
              \/ state' \in {"APPLYING", "COMPLETE"} /\ covered' = (covered \/ state = "TRANSFERRING")
<1>1. a # Disp
  BY ActorsAre
<1> QED BY <1>1 DEF OwnStep, ApplyCall, Apply, WorkqNext, ApplyWork, KeepaliveFires, KeepaliveSent, KeepaliveReturns,
       InstallNext, Report, ApplyUnsupported, CopyStart, CopyChunk, CopyFails, ApplyFailed, BootUpgrade, Reboot,
       set_state_locked, Goto, coordinator, keepalive, works, control, flash, queue, backend

-----------------------------------------------------------------------------
(* What is true at rest *)

LEMMA SettersAre ==
    /\ "SESSION_STARTED" \in Setters \cap Talk /\ "DONE" \in Setters \cap Talk
    /\ "SESSION_ENDED" \in Talk \ Setters /\ "REBOOT" \notin Setters \cup Talk
    /\ Setters \subseteq Talk /\ \A t \in EventTypes \ {"REBOOT"} : t \in Talk
BY DEF Setters, Talk, EventTypes

\* The dispatcher takes an event: the events behind it move up, and what is left to show is
\* about the state it leaves.
LEMMA QueueTaken ==
    ASSUME TypeOK, inbox # <<>>, inbox' = Tail(inbox), UNCHANGED <<session, cut, done, area>>,
           TransferInv, ReadyInv, ReceiveInv,
           state' = "TRANSFERRING" /\ ~Behind(1, Setters) =>
               session \/ cut \/ Behind(1, {"SESSION_ENDED"}) \/ image_ready',
           ReadyAt(0)' /\ ~Behind(1, Setters) => Whole,
           Head(inbox).type = "SESSION_STARTED" => ~ReadyAt(0)',
           Head(inbox).type = "REBOOT" /\ ~ReadyAt(0) => ~ReadyAt(0)'
    PROVE  TransferInv' /\ ReadyInv' /\ ReceiveInv'
<1>0. inbox \in Seq(Events) /\ (Whole' <=> Whole) /\ (Receiving' <=> Receiving)
  BY DEF TypeOK, Whole, Receiving
<1>1. /\ Len(inbox') \in Nat /\ Len(inbox) = Len(inbox') + 1 /\ inbox[1] = Head(inbox)
      /\ \A i \in 1..Len(inbox') : inbox'[i] = inbox[i + 1]
      /\ \A S, i : i \in 0..Len(inbox') => (Behind(i, S)' <=> Behind(i + 1, S))
      /\ \A S : Behind(0, S) <=> Head(inbox).type \in S \/ Behind(1, S)
  BY <1>0, TailBehind
<1>2. \A S : Behind(0, S)' <=> Behind(1, S)
  <2>1. 0 \in 0..Len(inbox') /\ 0 + 1 = 1
    BY <1>1
  <2> QED BY <1>1, <2>1
<1>3. ASSUME NEW i \in 1..Len(inbox')
      PROVE  /\ i \in 0..Len(inbox') /\ i # 0 /\ i + 1 # 0 /\ i + 1 \in 0..Len(inbox) /\ inbox'[i] = inbox[i + 1]
             /\ \A S : Behind(i, S)' <=> Behind(i + 1, S)
  BY <1>1
<1>4. \A i \in 0..Len(inbox') : i = 0 \/ i \in 1..Len(inbox')
  BY <1>1
<1>5. TransferInv'
  <2> SUFFICES ASSUME NEW i \in 0..Len(inbox'), StartedAt(i)', ~Behind(i, Setters)'
               PROVE  session' \/ cut' \/ Behind(i, {"SESSION_ENDED"})' \/ (i = 0 /\ image_ready')
    BY DEF TransferInv
  <2>1. CASE i = 0
    BY <1>2, <2>1 DEF StartedAt
  <2>2. CASE i \in 1..Len(inbox')
    <3>1. StartedAt(i + 1) /\ ~Behind(i + 1, Setters)
      BY <1>3, <2>2 DEF StartedAt
    <3> QED BY <1>3, <2>2, <3>1 DEF TransferInv
  <2> QED BY <1>4, <2>1, <2>2
<1>6. ReadyInv'
  <2> SUFFICES ASSUME NEW i \in 0..Len(inbox'), ReadyAt(i)', ~Behind(i, Setters)' PROVE Whole
    BY <1>0 DEF ReadyInv
  <2>1. CASE i = 0
    BY <1>2, <2>1
  <2>2. CASE i \in 1..Len(inbox')
    <3>1. ReadyAt(i + 1) /\ ~Behind(i + 1, Setters)
      BY <1>3, <2>2 DEF ReadyAt
    <3> QED BY <1>3, <2>2, <3>1 DEF ReadyInv
  <2> QED BY <1>4, <2>1, <2>2
<1>7. ASSUME Receiving PROVE ReceiveInv'
  <2>1. PICK i \in 0..Len(inbox) : /\ ~Behind(i, Talk)
                                   /\ IF i = 0 THEN ~ReadyAt(0) ELSE inbox[i].type = "SESSION_STARTED"
    BY <1>7 DEF ReceiveInv
  <2>2. CASE i = 0
    <3>1. Head(inbox).type \notin Talk /\ ~Behind(1, Talk)
      BY <1>1, <2>1, <2>2
    <3>2. Head(inbox).type \in EventTypes
      <4>1. Head(inbox) \in Events
        BY <1>0
      <4> QED BY <4>1 DEF Events
    <3>3. Head(inbox).type = "REBOOT"
      BY <3>1, <3>2 DEF Talk
    <3>4. ~ReadyAt(0)' /\ ~Behind(0, Talk)' /\ 0 \in 0..Len(inbox')
      BY <1>1, <1>2, <2>1, <2>2, <3>1, <3>3
    <3> QED BY <3>4 DEF ReceiveInv
  <2>3. CASE i = 1
    <3>1. ~ReadyAt(0)' /\ ~Behind(0, Talk)' /\ 0 \in 0..Len(inbox')
      BY <1>1, <1>2, <2>1, <2>3
    <3> QED BY <3>1 DEF ReceiveInv
  <2>4. CASE i # 0 /\ i # 1
    <3>1. i - 1 \in 1..Len(inbox') /\ (i - 1) + 1 = i
      BY <1>1, <2>4
    <3>2. inbox'[i - 1].type = "SESSION_STARTED" /\ ~Behind(i - 1, Talk)' /\ i - 1 \in 0..Len(inbox') /\ i - 1 # 0
      BY <1>3, <2>1, <2>4, <3>1
    <3> QED BY <3>2 DEF ReceiveInv
  <2> QED BY <2>2, <2>3, <2>4
<1> QED BY <1>0, <1>5, <1>6, <1>7 DEF ReceiveInv

LEMMA QueueDisp ==
    ASSUME TypeOK, QueueInv, DispNext
    PROVE  QueueInv'
<1>0. inbox \in Seq(Events) /\ Disp \in Actors /\ UNCHANGED <<session, cut, done, area, joined, sessions, dropped>>
  BY ActorsAre, DispTakes DEF TypeOK, backend
<1> DEFINE Flags == /\ ~started' => ~image_ready' /\ state' # "TRANSFERRING"
                    /\ state' = "IDLE" => ~image_ready'
           Queue == dropped \/ (TransferInv' /\ ReadyInv' /\ ReceiveInv')
<1>1. Flags /\ Queue => QueueInv'
  BY <1>0 DEF QueueInv
<1>2. ASSUME inbox # <<>>, Head(inbox).type = "DONE" PROVE inbox[1].type = "DONE" /\ 1 \in 0..Len(inbox) /\ 1 # 0
  BY <1>0, <1>2
<1>3. ASSUME inbox # <<>>, inbox' = Tail(inbox), UNCHANGED started, started, ~image_ready', state' # "TRANSFERRING"
      PROVE  QueueInv'
  <2>1. ~ReadyAt(0)'
    BY <1>3 DEF ReadyAt
  <2> QED BY <1>0, <1>1, <1>3, <2>1, QueueTaken DEF QueueInv
<1>4. CASE OnJoined \/ OnTransferFailed
  <2>1. /\ inbox # <<>> /\ inbox' = Tail(inbox) /\ started /\ UNCHANGED started /\ ~image_ready'
        /\ \E next \in {"READY", "FAILED"} : set_state_locked(Disp, next, "schedule")
    BY <1>4 DEF OnJoined, OnTransferFailed, Take
  <2>2. state' # "TRANSFERRING"
    BY <1>0, <2>1, SetState
  <2> QED BY <1>3, <2>1, <2>2
<1>5. CASE OnLeft
  <2>1. inbox # <<>> /\ inbox' = Tail(inbox) /\ started /\ UNCHANGED started
    BY <1>5 DEF OnLeft, Take, coordinator
  <2>2. \/ UNCHANGED <<state, image_ready>> /\ state = "IDLE"
        \/ ~image_ready' /\ set_state_locked(Disp, "IDLE", "idle")
    BY <1>5 DEF OnLeft, coordinator
  <2>3. ~image_ready' /\ state' # "TRANSFERRING"
    BY <1>0, <2>2, SetState DEF QueueInv
  <2> QED BY <1>3, <2>1, <2>3
<1>6. CASE OnSessionStarted
  <2>1. /\ inbox # <<>> /\ inbox' = Tail(inbox) /\ started /\ UNCHANGED <<started, image_ready>>
        /\ Head(inbox).type = "SESSION_STARTED" /\ set_state_locked(Disp, "TRANSFERRING", "idle")
    BY <1>6 DEF OnSessionStarted, Take
  <2>2. state' = "TRANSFERRING" /\ ~ReadyAt(0)'
    BY <1>0, <2>1, SetState DEF ReadyAt
  <2>3. 1 \in 0..Len(inbox) /\ 1 # 0 /\ StartedAt(1)
    BY <1>0, <2>1 DEF StartedAt
  <2>4. ASSUME TransferInv, ~Behind(1, Setters) PROVE session \/ cut \/ Behind(1, {"SESSION_ENDED"})
    BY <2>3, <2>4 DEF TransferInv
  <2> QED BY <1>0, <1>1, <2>1, <2>2, <2>4, QueueTaken DEF QueueInv
<1>7. CASE OnSessionEnded
  <2>1. /\ inbox # <<>> /\ inbox' = Tail(inbox) /\ started /\ UNCHANGED <<started, image_ready>>
        /\ Head(inbox).type = "SESSION_ENDED"
    BY <1>7 DEF OnSessionEnded, Take
  <2>2. CASE state = "TRANSFERRING" /\ ~image_ready
    <3>1. state' = "READY"
      BY <1>0, <1>7, <2>2, SetState DEF OnSessionEnded
    <3> QED BY <1>3, <2>1, <2>2, <3>1
  <2>3. CASE ~(state = "TRANSFERRING" /\ ~image_ready)
    <3>1. UNCHANGED <<state, covered>>
      BY <1>7, <2>3 DEF OnSessionEnded
    <3>2. ReadyAt(0)' <=> ReadyAt(0)
      BY <2>1, <3>1 DEF ReadyAt
    <3>3. ~Behind(1, Setters) => ~Behind(0, Setters)
      BY <1>0, <2>1, TailBehind, SettersAre
    <3>4. ReadyInv /\ ReadyAt(0)' /\ ~Behind(1, Setters) => Whole
      <4>1. 0 \in 0..Len(inbox)
        BY <1>0
      <4> QED BY <3>2, <3>3, <4>1 DEF ReadyInv
    <3> QED BY <1>0, <1>1, <2>1, <2>3, <3>1, <3>4, QueueTaken DEF QueueInv
  <2> QED BY <2>2, <2>3
<1>8. CASE OnTransferDone
  <2>1. /\ inbox # <<>> /\ inbox' = Tail(inbox) /\ started /\ UNCHANGED started
        /\ Head(inbox).type = "DONE" /\ set_state_locked(Disp, "COMPLETE", "submit")
    BY <1>8 DEF OnTransferDone, Take
  <2>2. state' = "COMPLETE"
    BY <1>0, <2>1, SetState
  <2>3. ReadyAt(1) /\ 1 \in 0..Len(inbox)
    BY <1>2, <2>1 DEF ReadyAt
  <2>4. ReadyInv /\ ~Behind(1, Setters) => Whole
    BY <2>3 DEF ReadyInv
  <2> QED BY <1>0, <1>1, <2>1, <2>2, <2>4, QueueTaken DEF QueueInv
<1>9. CASE OnReboot
  <2>1. /\ inbox # <<>> /\ inbox' = Tail(inbox) /\ started /\ UNCHANGED <<started, state, image_ready, covered>>
        /\ Head(inbox).type = "REBOOT"
    BY <1>9 DEF OnReboot, Take, coordinator
  <2>2. /\ ReadyAt(0)' <=> ReadyAt(0)
        /\ StartedAt(0) <=> state = "TRANSFERRING"
    BY <2>1 DEF ReadyAt, StartedAt
  <2>3. /\ ~Behind(1, Setters) => ~Behind(0, Setters)
        /\ Behind(0, {"SESSION_ENDED"}) => Behind(1, {"SESSION_ENDED"})
    BY <1>0, <2>1, TailBehind, SettersAre
  <2>4. 0 \in 0..Len(inbox)
    BY <1>0
  <2>5. ReadyInv /\ ReadyAt(0)' /\ ~Behind(1, Setters) => Whole
    BY <2>2, <2>3, <2>4 DEF ReadyInv
  <2>6. TransferInv /\ state' = "TRANSFERRING" /\ ~Behind(1, Setters) =>
            session \/ cut \/ Behind(1, {"SESSION_ENDED"}) \/ image_ready'
    BY <2>1, <2>2, <2>3, <2>4 DEF TransferInv
  <2> QED BY <1>0, <1>1, <2>1, <2>2, <2>5, <2>6, QueueTaken DEF QueueInv
<1>10. CASE NotStarted
  <2>1. ~started /\ UNCHANGED <<started, image_ready, state>> /\ inbox # <<>> /\ inbox' = Tail(inbox)
    BY <1>10 DEF NotStarted, coordinator
  <2>2. ~image_ready' /\ state' # "TRANSFERRING"
    BY <2>1 DEF QueueInv
  <2>3. ~ReadyAt(0)'
    BY <2>2 DEF ReadyAt
  <2> QED BY <1>0, <1>1, <2>1, <2>2, <2>3, QueueTaken DEF QueueInv
<1>11. CASE Report(Disp) \/ AfterReport
  <2>1. UNCHANGED <<started, image_ready, state, covered, inbox>>
    BY <1>11 DEF Report, AfterReport, coordinator, queue
  <2> QED BY <1>0, <2>1 DEF QueueInv, TransferInv, ReadyInv, ReceiveInv, StartedAt, ReadyAt, Receiving, Behind, Whole
<1> QED BY <1>4, <1>5, <1>6, <1>7, <1>8, <1>9, <1>10, <1>11 DEF DispNext

\* The backend queues an event, or loses it.
LEMMA QueueRaised ==
    ASSUME TypeOK, QueueInv, NEW t \in EventTypes, NEW n \in 0..Chunks, Raise(t, n),
           session' => joined' /\ sessions' # 0,
           t = "SESSION_STARTED" => session',
           t = "DONE" => Whole',
           t \notin Setters => /\ session \/ cut => session' \/ cut' \/ t = "SESSION_ENDED"
                               /\ Receiving' => Receiving /\ t = "REBOOT"
                               /\ UNCHANGED area,
           t \in Setters => (Receiving' => t = "SESSION_STARTED")
    PROVE  QueueInv'
<1>0. inbox \in Seq(Events) /\ UNCHANGED <<started, state, image_ready, covered>> /\ dropped \in BOOLEAN
  BY DEF TypeOK, Raise, coordinator
<1>1. ASSUME dropped' \/ (TransferInv' /\ ReadyInv' /\ ReceiveInv') PROVE QueueInv'
  BY <1>0, <1>1 DEF QueueInv
<1> DEFINE e == Event(t, n)
<1>2. CASE UNCHANGED inbox /\ dropped'
  BY <1>1, <1>2
<1>3. ASSUME e \in Events, e.type = t, inbox' = Append(inbox, e), dropped' = (dropped /\ t \notin Setters)
      PROVE  QueueInv'
  <2> HIDE DEF e
  <2>1. /\ Len(inbox) \in Nat /\ Len(inbox') = Len(inbox) + 1 /\ inbox'[Len(inbox) + 1] = e
        /\ \A i \in 1..Len(inbox) : inbox'[i] = inbox[i]
        /\ \A S, i : i \in 0..Len(inbox) => (Behind(i, S)' <=> Behind(i, S) \/ t \in S)
        /\ \A S, i : i = Len(inbox) + 1 => ~Behind(i, S)'
    BY <1>0, <1>3, AppendBehind
  <2>0. PICK k : k = Len(inbox) + 1
    OBVIOUS
  <2>2. k \in 0..Len(inbox') /\ k # 0 /\ inbox'[k].type = t /\ \A S : ~Behind(k, S)'
    BY <1>3, <2>0, <2>1
  <2>3. \A i \in 0..Len(inbox') : i = k \/ i \in 0..Len(inbox)
    BY <2>0, <2>1
  <2>4. ASSUME NEW i \in 0..Len(inbox)
        PROVE  /\ i \in 0..Len(inbox') /\ (StartedAt(i)' <=> StartedAt(i)) /\ (ReadyAt(i)' <=> ReadyAt(i))
               /\ i # 0 => inbox'[i] = inbox[i]
               /\ \A S : Behind(i, S)' <=> Behind(i, S) \/ t \in S
    <3>1. i \in 0..Len(inbox') /\ (i # 0 => i \in 1..Len(inbox))
      BY <2>1
    <3> QED BY <1>0, <2>1, <3>1 DEF StartedAt, ReadyAt
  <2>5. CASE t \in Setters
    <3>1. TransferInv'
      <4> SUFFICES ASSUME NEW i \in 0..Len(inbox'), StartedAt(i)', ~Behind(i, Setters)' PROVE session'
        BY DEF TransferInv
      <4>1. i = k
        BY <2>3, <2>4, <2>5
      <4> QED BY <2>2, <4>1 DEF StartedAt
    <3>2. ReadyInv'
      <4> SUFFICES ASSUME NEW i \in 0..Len(inbox'), ReadyAt(i)', ~Behind(i, Setters)' PROVE Whole'
        BY DEF ReadyInv
      <4>1. i = k
        BY <2>3, <2>4, <2>5
      <4> QED BY <2>2, <4>1 DEF ReadyAt
    <3>3. ASSUME Receiving' PROVE ReceiveInv'
      <4>1. inbox'[k].type = "SESSION_STARTED" /\ ~Behind(k, Talk)'
        BY <2>2, <2>5, <3>3
      <4> QED BY <2>2, <4>1 DEF ReceiveInv
    <3> QED BY <1>1, <3>1, <3>2, <3>3 DEF ReceiveInv
  <2>6. CASE t \notin Setters /\ ~dropped
    <3>0. TransferInv /\ ReadyInv /\ ReceiveInv /\ t \notin {"SESSION_STARTED", "DONE"} /\ (Whole' <=> Whole)
      BY <2>6, SettersAre DEF QueueInv, Whole
    <3>1. TransferInv'
      <4> SUFFICES ASSUME NEW i \in 0..Len(inbox'), StartedAt(i)', ~Behind(i, Setters)'
                   PROVE  session' \/ cut' \/ Behind(i, {"SESSION_ENDED"})' \/ (i = 0 /\ image_ready')
        BY DEF TransferInv
      <4>1. i \in 0..Len(inbox)
        BY <2>2, <2>3, <3>0 DEF StartedAt
      <4>2. session \/ cut \/ Behind(i, {"SESSION_ENDED"}) \/ (i = 0 /\ image_ready)
        BY <2>4, <3>0, <4>1 DEF TransferInv
      <4> QED BY <1>0, <2>4, <2>6, <4>1, <4>2
    <3>2. ReadyInv'
      <4> SUFFICES ASSUME NEW i \in 0..Len(inbox'), ReadyAt(i)', ~Behind(i, Setters)' PROVE Whole
        BY <3>0 DEF ReadyInv
      <4>1. i \in 0..Len(inbox)
        BY <2>2, <2>3, <3>0 DEF ReadyAt
      <4> QED BY <2>4, <3>0, <4>1 DEF ReadyInv
    <3>3. ASSUME Receiving' PROVE ReceiveInv'
      <4>1. PICK i \in 0..Len(inbox) : /\ ~Behind(i, Talk)
                                       /\ IF i = 0 THEN ~ReadyAt(0) ELSE inbox[i].type = "SESSION_STARTED"
        BY <2>6, <3>0, <3>3 DEF ReceiveInv
      <4>2. t \notin Talk
        BY <2>6, <3>3, SettersAre
      <4>3. ~Behind(i, Talk)' /\ i \in 0..Len(inbox') /\ IF i = 0 THEN ~ReadyAt(0)' ELSE inbox'[i].type = "SESSION_STARTED"
        BY <2>4, <4>1, <4>2
      <4> QED BY <4>3 DEF ReceiveInv
    <3> QED BY <1>1, <3>1, <3>2, <3>3 DEF ReceiveInv
  <2>7. CASE t \notin Setters /\ dropped
    BY <1>1, <1>3, <2>7
  <2> QED BY <2>5, <2>6, <2>7
<1> QED BY <1>2, <1>3, Raised

LEMMA QueueNext ==
    ASSUME TypeOK, QueueInv, Next
    PROVE  QueueInv'
<1>0. /\ Chunks \in Nat /\ sessions \in Nat /\ 0 \in 0..Chunks /\ session \in BOOLEAN /\ inbox \in Seq(Events)
  BY FuotaAssumption, ScenarioBounds DEF TypeOK
<1>1. CASE DispNext
  BY <1>1, QueueDisp
<1>2. CASE \E a \in Installers : OwnStep(a)
  <2>1. /\ UNCHANGED <<inbox, dropped, session, cut, done, area, joined, sessions, started, image_ready>>
        /\ \/ UNCHANGED <<state, covered>>
           \/ state' \in {"APPLYING", "COMPLETE"} /\ covered' = (covered \/ state = "TRANSFERRING")
    BY <1>2, OwnStepQuiet DEF backend
  <2>2. /\ state' = "TRANSFERRING" => state = "TRANSFERRING"
        /\ state' = "IDLE" => state = "IDLE"
        /\ ReadyAt(0)' => ReadyAt(0)
    <3>1. CASE UNCHANGED <<state, covered>>
      BY <2>1, <3>1 DEF ReadyAt
    <3>2. CASE state' \in {"APPLYING", "COMPLETE"} /\ covered' = (covered \/ state = "TRANSFERRING")
      <4>1. ~covered' => ~covered /\ state # "TRANSFERRING"
        BY <3>2, Zenon
      <4> QED BY <2>1, <3>2, <4>1 DEF ReadyAt
    <3> QED BY <2>1, <3>1, <3>2
  <2>3. (Receiving' <=> Receiving) /\ (Whole' <=> Whole) /\ \A S, i : Behind(i, S)' <=> Behind(i, S)
    BY <2>1 DEF Receiving, Whole, Behind
  <2>4. \A i \in 0..Len(inbox) : (StartedAt(i)' => StartedAt(i)) /\ (ReadyAt(i)' => ReadyAt(i))
    BY <2>1, <2>2 DEF StartedAt, ReadyAt
  <2>5. TransferInv => TransferInv'
    BY <2>1, <2>3, <2>4 DEF TransferInv
  <2>6. ReadyInv => ReadyInv'
    BY <2>1, <2>3, <2>4 DEF ReadyInv
  <2>7. ReceiveInv => ReceiveInv'
    BY <2>1, <2>2, <2>3 DEF ReceiveInv
  <2> QED BY <2>1, <2>2, <2>5, <2>6, <2>7 DEF QueueInv
<1>3. CASE Start \/ \E n \in 1..Chunks : SetExpectedSize(n)
  <2>1. /\ UNCHANGED <<inbox, dropped, session, cut, done, area, joined, sessions, image_ready, state, covered>>
        /\ ~started' => ~started
    BY <1>3 DEF Start, SetExpectedSize, backend, queue
  <2> QED BY <2>1 DEF QueueInv, TransferInv, ReadyInv, ReceiveInv, StartedAt, ReadyAt, Receiving, Behind, Whole
<1>4. CASE BackendNext
  <2>1. CASE Join \/ JoinFail \/ LeaveNetwork
    <3>1. ~Receiving' /\ ~session' /\ \E t \in {"JOINED", "JOIN_FAILED", "STATE_READY"} : Raise(t, 0)
      BY <2>1 DEF Join, JoinFail, LeaveNetwork, Receiving, QueueInv, backend
    <3>2. \A t \in {"JOINED", "JOIN_FAILED", "STATE_READY"} : t \in Setters /\ t \in EventTypes \ {"DONE", "SESSION_STARTED"}
      BY DEF Setters, EventTypes
    <3> QED BY <1>0, <3>1, <3>2, QueueRaised
  <2>2. CASE EndSession
    <3>1. ~session' /\ ~Receiving' /\ UNCHANGED area /\ Raise("SESSION_ENDED", 0)
      BY <2>2 DEF EndSession, Receiving
    <3> QED BY <1>0, <3>1, QueueRaised, SettersAre DEF EventTypes
  <2>3. CASE RequestReboot
    <3>1. UNCHANGED <<session, done, cut, joined, sessions, area>> /\ Raise("REBOOT", 0)
      BY <2>3 DEF RequestReboot, backend
    <3>2. Receiving' => Receiving
      BY <3>1 DEF Receiving
    <3> QED BY <1>0, <3>1, <3>2, QueueRaised, SettersAre DEF EventTypes, QueueInv
  <2>4. CASE Abandon
    <3>1. UNCHANGED <<session, joined, sessions>> /\ ~Receiving' /\ Raise("DONE_FAILED", 0)
      BY <2>4 DEF Abandon, Receiving
    <3>2. "DONE_FAILED" \in Setters /\ "DONE_FAILED" \in EventTypes
      BY DEF Setters, EventTypes
    <3> QED BY <1>0, <3>1, <3>2, QueueRaised DEF QueueInv
  <2>5. CASE StartSession
    <3>1. session' /\ joined' /\ sessions' # 0 /\ Raise("SESSION_STARTED", 0)
      BY <1>0, <2>5 DEF StartSession
    <3> QED BY <1>0, <3>1, QueueRaised, SettersAre DEF EventTypes
  <2>6. ASSUME NEW n \in 1..Chunks, NEW h \in BOOLEAN, NEW r \in BOOLEAN, Reconstruct(n, h, r) PROVE QueueInv'
    <3>1. /\ Raise("DONE", IF r THEN n ELSE 0) /\ UNCHANGED <<session, joined, sessions>> /\ ~Receiving' /\ session
          /\ area' = [from |-> sessions, image |-> sessions, size |-> n, header |-> h]
      BY <2>6 DEF Reconstruct, Receiving
    <3>2. (IF r THEN n ELSE 0) \in 0..Chunks
      BY <1>0
    <3>3. Whole'
      BY <3>1 DEF Whole, QueueInv
    <3> QED BY <3>1, <3>2, <3>3, QueueRaised, SettersAre DEF EventTypes, QueueInv
  <2>7. CASE ModemReset
    <3>1. /\ UNCHANGED <<inbox, dropped, started, state, image_ready, covered, area>> /\ ~session'
          /\ cut' = (cut \/ session)
      BY <2>7 DEF ModemReset, coordinator, queue
    <3> QED BY <3>1 DEF QueueInv, TransferInv, ReadyInv, ReceiveInv, StartedAt, ReadyAt, Receiving, Behind, Whole
  <2>8. CASE Fragment
    <3>1. /\ UNCHANGED <<inbox, dropped, started, state, image_ready, covered, session, done, cut, joined, sessions>>
          /\ Receiving
      BY <2>8 DEF Fragment, coordinator, queue, Receiving
    <3>2. ASSUME ReceiveInv, NEW j \in 0..Len(inbox), ReadyAt(j), ~Behind(j, Setters) PROVE FALSE
      <4>1. PICK i \in 0..Len(inbox) : /\ ~Behind(i, Talk)
                                       /\ IF i = 0 THEN ~ReadyAt(0) ELSE inbox[i].type = "SESSION_STARTED"
        BY <3>1, <3>2 DEF ReceiveInv
      <4>2. CASE j < i
        <5>1. i \in (j + 1)..Len(inbox) /\ i # 0
          BY <1>0, <4>2
        <5> QED BY <3>2, <4>1, <5>1, SettersAre DEF Behind
      <4>3. CASE i < j
        <5>1. j \in (i + 1)..Len(inbox) /\ j # 0
          BY <1>0, <4>3
        <5> QED BY <3>2, <4>1, <5>1, SettersAre DEF Behind, ReadyAt
      <4>4. CASE i = j
        BY <3>2, <4>1, <4>4 DEF ReadyAt
      <4> QED BY <1>0, <4>2, <4>3, <4>4
    <3>3. \A i : (ReadyAt(i)' <=> ReadyAt(i)) /\ (StartedAt(i)' <=> StartedAt(i)) /\ \A S : Behind(i, S)' <=> Behind(i, S)
      BY <3>1 DEF ReadyAt, StartedAt, Behind
    <3>4. ReceiveInv => ReadyInv'
      BY <3>1, <3>2, <3>3 DEF ReadyInv
    <3>5. (TransferInv => TransferInv') /\ (ReceiveInv => ReceiveInv')
      BY <3>1, <3>3 DEF TransferInv, ReceiveInv, Receiving
    <3> QED BY <3>1, <3>4, <3>5 DEF QueueInv
  <2> QED BY <1>4, <2>1, <2>2, <2>3, <2>4, <2>5, <2>6, <2>7, <2>8 DEF BackendNext
<1> QED BY <1>1, <1>2, <1>3, <1>4, StepOf

-----------------------------------------------------------------------------
(* Installation *)

LEMMA AreaNext ==
    ASSUME TypeOK, AreaInv, Next
    PROVE  AreaInv'
<1>0. /\ Chunks \in Nat /\ 0 \in 0..Chunks /\ sessions \in Nat /\ inbox \in Seq(Events)
  BY FuotaAssumption, ScenarioBounds DEF TypeOK
<1>1. CASE DispNext
  <2>1. UNCHANGED <<area, session, sessions>>
    BY <1>1, DispTakes DEF backend
  <2>2. CASE inbox' = inbox
    <3>1. Behind(0, {"DONE"})' <=> Behind(0, {"DONE"})
      BY <2>2 DEF Behind
    <3>2. image_ready' => image_ready \/ Behind(0, {"DONE"})
      BY <1>0, <1>1, DispTakes, TailBehind
    <3> QED BY <2>1, <3>1, <3>2 DEF AreaInv
  <2>3. CASE inbox # <<>> /\ inbox' = Tail(inbox)
    <3>1. Behind(0, {"DONE"})' => Behind(0, {"DONE"})
      <4>1. 0 \in 0..Len(inbox') /\ 0 + 1 = 1
        BY <1>0, <2>3, TailBehind
      <4> QED BY <1>0, <2>3, <4>1, TailBehind
    <3>2. image_ready' => image_ready \/ Behind(0, {"DONE"})
      BY <1>0, <1>1, DispTakes, TailBehind
    <3> QED BY <2>1, <3>1, <3>2 DEF AreaInv
  <2> QED BY <1>1, <2>2, <2>3, DispTakes
<1>2. CASE \E a \in Installers : OwnStep(a)
  <2>1. UNCHANGED <<area, session, sessions, inbox, image_ready>>
    BY <1>2, OwnStepQuiet DEF backend
  <2> QED BY <2>1 DEF AreaInv, Behind
<1>3. CASE Start \/ \E n \in 1..Chunks : SetExpectedSize(n)
  <2>1. UNCHANGED <<area, session, sessions, inbox, image_ready>>
    BY <1>3 DEF Start, SetExpectedSize, backend, queue
  <2> QED BY <2>1 DEF AreaInv, Behind
<1>4. CASE BackendNext
  <2>0. UNCHANGED image_ready
    BY <1>4, OutsideStep
  <2>1. ASSUME NEW t \in EventTypes \ {"DONE"}, Raise(t, 0) PROVE Behind(0, {"DONE"})' => Behind(0, {"DONE"})
    <3>1. CASE UNCHANGED inbox
      BY <3>1 DEF Behind
    <3>2. CASE Event(t, 0) \in Events /\ Event(t, 0).type = t /\ inbox' = Append(inbox, Event(t, 0))
      <4>1. 0 \in 0..Len(inbox)
        BY <1>0
      <4> QED BY <1>0, <3>2, <4>1, AppendBehind
    <3> QED BY <1>0, <2>1, <3>1, <3>2, Raised
  <2>2. CASE Join \/ JoinFail \/ LeaveNetwork \/ EndSession \/ RequestReboot \/ Abandon
    <3>1. \E t \in EventTypes \ {"DONE"} : Raise(t, 0) /\ UNCHANGED <<area, sessions>> /\ (session' => session)
      BY <2>2 DEF Join, JoinFail, LeaveNetwork, EndSession, RequestReboot, Abandon, EventTypes, backend
    <3> QED BY <2>0, <2>1, <3>1 DEF AreaInv
  <2>3. CASE StartSession
    <3>1. Raise("SESSION_STARTED", 0) /\ UNCHANGED area /\ sessions' # 0
      BY <1>0, <2>3 DEF StartSession
    <3> QED BY <2>0, <2>1, <3>1 DEF AreaInv, EventTypes
  <2>4. CASE ModemReset
    <3>1. UNCHANGED <<area, sessions, inbox>> /\ ~session'
      BY <2>4 DEF ModemReset, queue
    <3> QED BY <2>0, <3>1 DEF AreaInv, Behind
  <2>5. CASE Fragment
    <3>1. /\ area' = [from |-> sessions, image |-> area.image, size |-> 0, header |-> FALSE]
          /\ UNCHANGED <<session, sessions, inbox>>
      BY <2>5 DEF Fragment, queue
    <3> QED BY <2>0, <3>1 DEF AreaInv, Behind
  <2>6. ASSUME NEW n \in 1..Chunks, NEW h \in BOOLEAN, NEW r \in BOOLEAN, Reconstruct(n, h, r) PROVE AreaInv'
    <3>1. /\ session /\ area' = [from |-> sessions, image |-> sessions, size |-> n, header |-> h]
          /\ UNCHANGED <<session, sessions>>
      BY <2>6 DEF Reconstruct
    <3> QED BY <1>0, <3>1 DEF AreaInv
  <2> QED BY <1>4, <2>2, <2>3, <2>4, <2>5, <2>6 DEF BackendNext
<1> QED BY <1>1, <1>2, <1>3, <1>4, StepOf

\* The dispatcher sets the size to zero only on a join, which counts as harm to whoever has not
\* read it.
LEMMA SizeStays ==
    ASSUME TypeOK, AreaInv, DispNext, NEW a \in Installers
    PROVE  /\ harm[a] \subseteq harm'[a]
           /\ image_size # 0 /\ image_size' = 0 /\ Unsized(a) => "rejoined" \in harm'[a]
<1>0. harm \in [Installers -> SUBSET {"rejoined", "overwritten"}] /\ area.size \in 0..Chunks /\ Chunks \in Nat
  BY FuotaAssumption DEF TypeOK
<1>1. CASE OnJoined
  <2>1. harm' = Harmed({b \in Installers : Unsized(b)}, "rejoined")
    BY <1>1 DEF OnJoined
  <2>2. harm'[a] = IF Unsized(a) THEN harm[a] \cup {"rejoined"} ELSE harm[a]
    BY <2>1 DEF Harmed
  <2> QED BY <2>2
<1>2. CASE OnTransferDone
  <2>1. harm' = harm /\ image_size' = detect_image_size(Head(inbox).size)
    BY <1>2 DEF OnTransferDone
  <2>2. image_size # 0 => detect_image_size(Head(inbox).size) # 0
    BY <1>0 DEF detect_image_size, AreaInv
  <2> QED BY <2>1, <2>2
<1>3. CASE ~OnJoined /\ ~OnTransferDone
  <2>1. harm' = harm /\ image_size' = image_size
    BY <1>3 DEF DispNext, OnLeft, OnSessionStarted, OnSessionEnded, OnTransferFailed, OnReboot, NotStarted, Report,
       AfterReport, coordinator
  <2> QED BY <2>1
<1> QED BY <1>1, <1>2, <1>3

\* Who writes the slot copies what the area holds.
LEMMA SlotNext ==
    ASSUME TypeOK, NEW b \in Installers, OwnStep(b)
    PROVE  \/ UNCHANGED slot
           \/ CopyChunk(b) /\ copied[b] + 1 \in 1..Chunks /\ (Whole => slot' = [slot EXCEPT ![copied[b] + 1] = area.from])
<1>0. copied[b] \in 0..Chunks /\ size[b] \in 0..Chunks /\ Chunks \in Nat
  BY FuotaAssumption DEF TypeOK
<1>1. CASE CopyChunk(b)
  <2>1. copied[b] < size[b] /\ slot' = [slot EXCEPT ![copied[b] + 1] = IF Whole THEN area.from ELSE 0]
    BY <1>1 DEF CopyChunk
  <2>2. copied[b] + 1 \in 1..Chunks
    BY <1>0, <2>1
  <2>3. Whole => slot' = [slot EXCEPT ![copied[b] + 1] = area.from]
    BY <2>1
  <2> QED BY <1>1, <2>2, <2>3
<1>2. CASE ~CopyChunk(b)
  BY <1>2 DEF OwnStep, ApplyCall, WorkqNext, ApplyWork, KeepaliveFires, KeepaliveSent, KeepaliveReturns, InstallNext,
     Report, ApplyUnsupported, CopyStart, CopyFails, ApplyFailed, BootUpgrade, Reboot, flash
<1> QED BY <1>1, <1>2

\* One's own step, as far as the copy goes.
LEMMA OwnCopy ==
    ASSUME TypeOK, ControlInv, AreaInv, NEW a \in Installers, CopyInv(a), OwnStep(a), UNCHANGED scenario
    PROVE  CopyInv(a)'
<1>0. /\ a \in Actors /\ InstallerOK(a) /\ InstallerOK(a)' /\ UNCHANGED <<area, image_size>> /\ (Whole' <=> Whole)
  BY ActorsAre, InstallerMoves, OwnStepQuiet DEF ControlInv, backend, Whole
<1>00. /\ copied \in [Installers -> 0..Chunks] /\ size \in [Installers -> 0..Chunks] /\ image_size \in 0..Chunks
       /\ Chunks \in Nat /\ pc \in [Actors -> Labels] /\ then \in [Actors -> Labels]
       /\ slot \in [1..Chunks -> 0..scenario.sessions] /\ harm \in [Installers -> SUBSET {"rejoined", "overwritten"}]
  BY FuotaAssumption DEF TypeOK
<1>1. ASSUME pc'[a] \notin {"copy", "boot", "reboot"}, then'[a] # "copy" PROVE CopyInv(a)'
  BY <1>1 DEF CopyInv, Installing, Unsized
<1>2. ASSUME UNCHANGED slot, harm'[a] = harm[a], copied'[a] = copied[a], Installing(a)' => Installing(a),
             Unsized(a)' => Unsized(a), pc'[a] \in {"boot", "reboot"} => pc[a] \in {"boot", "reboot"} /\ size'[a] = size[a]
      PROVE  CopyInv(a)'
  BY <1>0, <1>2 DEF CopyInv
<1>3. CASE Report(a)
  <2>1. pc[a] = "report" /\ pc'[a] = then[a] /\ then'[a] = "idle" /\ UNCHANGED <<slot, harm, copied, size>>
    BY <1>0, <1>3, ReportStep DEF Report, flash
  <2>2. size[a] = 0
    BY <1>0, <2>1 DEF InstallerOK
  <2>3. then[a] \in {"idle", "copy"}
    BY <1>0 DEF InstallerOK
  <2>4. (Installing(a)' => Installing(a)) /\ (Unsized(a)' => Unsized(a))
    BY <2>1, <2>3 DEF Installing, Unsized
  <2> QED BY <1>2, <2>1, <2>3, <2>4
<1>4. CASE ApplyUnsupported(a) \/ (a = Workq /\ (KeepaliveFires \/ KeepaliveSent \/ KeepaliveReturns))
  <2>1. \E l \in {"idle", "send", "return"} : pc[a] # "report" /\ Goto(a, l)
    BY <1>4 DEF ApplyUnsupported, KeepaliveFires, KeepaliveSent, KeepaliveReturns
  <2>2. pc'[a] \notin {"copy", "boot", "reboot"} /\ then'[a] = then[a] /\ then[a] = "idle"
    BY <1>0, <2>1, GotoStep DEF InstallerOK
  <2> QED BY <1>1, <2>2
<1>5. CASE CopyStart(a)
  <2>1. /\ size' = [size EXCEPT ![a] = image_size] /\ UNCHANGED <<then, copied, slot, harm>> /\ pc[a] = "copy"
        /\ pc' = [pc EXCEPT ![a] = IF image_size = 0 THEN "boot" ELSE "copy"] /\ size[a] = 0
    BY <1>5 DEF CopyStart, flash
  <2>2. /\ Installing(a) /\ Unsized(a) /\ size'[a] = image_size /\ then'[a] = "idle"
        /\ pc'[a] = IF image_size = 0 THEN "boot" ELSE "copy"
    BY <1>0, <1>00, <2>1 DEF Installing, Unsized, InstallerOK
  <2>3. ~Unsized(a)'
    BY <2>2 DEF Unsized
  <2>4. pc'[a] \in {"boot", "reboot"} => "rejoined" \in harm'[a]
    BY <2>1, <2>2 DEF CopyInv
  <2> QED BY <1>0, <2>1, <2>2, <2>3, <2>4 DEF CopyInv
<1>6. CASE CopyChunk(a)
  <2>1. /\ copied' = [copied EXCEPT ![a] = copied[a] + 1] /\ UNCHANGED <<then, size, harm>> /\ pc[a] = "copy"
        /\ copied[a] < size[a] /\ slot' = [slot EXCEPT ![copied[a] + 1] = IF Whole THEN area.from ELSE 0]
    BY <1>6 DEF CopyChunk
  <2>2. Installing(a) /\ size'[a] # 0 /\ then'[a] = "idle" /\ copied'[a] = copied[a] + 1 /\ copied[a] + 1 \in 1..Chunks
    BY <1>0, <1>00, <2>1 DEF Installing, InstallerOK
  <2>3. ASSUME "overwritten" \notin harm'[a] PROVE Whole' /\ \A i \in 1..copied'[a] : slot'[i] = area'.from
    <3>1. Whole /\ \A i \in 1..copied[a] : slot[i] = area.from
      BY <2>1, <2>2, <2>3 DEF CopyInv
    <3>2. slot' = [slot EXCEPT ![copied[a] + 1] = area.from]
      BY <2>1, <3>1
    <3>3. \A i \in 1..copied'[a] : i \in 1..Chunks /\ (i = copied[a] + 1 \/ i \in 1..copied[a])
      BY <1>00, <2>2
    <3> QED BY <1>0, <1>00, <2>2, <3>1, <3>2, <3>3
  <2> QED BY <2>2, <2>3 DEF CopyInv, Unsized
<1>7. CASE CopyFails(a)
  <2>1. pc' = [pc EXCEPT ![a] = "failed"] /\ UNCHANGED then /\ pc[a] # "report"
    BY <1>7 DEF CopyFails
  <2> QED BY <1>0, <1>00, <1>1, <2>1 DEF InstallerOK
<1>8. CASE ApplyFailed(a)
  <2>1. set_state_locked(a, "COMPLETE", "idle") /\ pc[a] # "report"
    BY <1>8 DEF ApplyFailed
  <2>2. then[a] = "idle"
    BY <1>0, <2>1 DEF InstallerOK
  <2> QED BY <1>0, <1>1, <2>1, <2>2, SetState
<1>9. CASE BootUpgrade(a) \/ Reboot(a)
  <2>1. /\ pc[a] \in {"boot", "reboot"} /\ UNCHANGED <<then, slot, harm, copied, size>>
        /\ pc'[a] = pc[a] \/ Goto(a, "reboot")
    BY <1>9 DEF BootUpgrade, Reboot, Goto, control, flash
  <2>2. pc'[a] \in {"boot", "reboot"}
    BY <1>0, <2>1, GotoStep
  <2>3. (Installing(a)' => Installing(a)) /\ (Unsized(a)' => Unsized(a))
    BY <2>1, <2>2 DEF Installing, Unsized
  <2> QED BY <1>2, <2>1, <2>2, <2>3
<1>10. CASE pc[a] = "idle" /\ Apply(a)
  <2>1. /\ image_ready /\ image_size # 0 /\ set_state_locked(a, "APPLYING", "copy")
        /\ harm' = [harm EXCEPT ![a] = IF Whole \/ area.image = 0 THEN {} ELSE {"overwritten"}]
    BY <1>10 DEF Apply
  <2>2. size[a] = 0 /\ copied[a] = 0 /\ then[a] = "idle"
    BY <1>0, <1>00, <1>10 DEF InstallerOK
  <2>3. copied'[a] = 0 /\ pc'[a] \notin {"boot", "reboot"}
    BY <1>0, <2>1, <2>2, SetState
  <2>4. "overwritten" \notin harm'[a] => Whole
    <3>1. area.image # 0
      BY <2>1 DEF AreaInv
    <3>2. harm'[a] = IF Whole \/ area.image = 0 THEN {} ELSE {"overwritten"}
      BY <1>00, <2>1
    <3> QED BY <3>1, <3>2
  <2> QED BY <1>0, <2>1, <2>3, <2>4 DEF CopyInv
<1>11. CASE UNCHANGED <<control, harm, slot>>
  BY <1>2, <1>11 DEF control, Installing, Unsized
<1>12. CASE InstallNext(a)
  BY <1>3, <1>4, <1>5, <1>6, <1>7, <1>8, <1>9, <1>12 DEF InstallNext
<1>13. CASE a \in Appliers /\ ApplyCall(a)
  BY <1>10, <1>13 DEF ApplyCall
<1>14. CASE a = Workq /\ WorkqNext
  <2>1. CASE ApplyWork
    BY <1>10, <1>11, <1>14, <2>1 DEF ApplyWork, flash
  <2> QED BY <1>4, <1>14, <2>1 DEF WorkqNext
<1> QED BY <1>12, <1>13, <1>14 DEF OwnStep

LEMMA CopyNext ==
    ASSUME TypeOK, ControlInv, AreaInv, NEW a \in Installers, CopyInv(a), Next
    PROVE  CopyInv(a)'
<1>0. /\ Chunks \in Nat /\ image_size \in 0..Chunks /\ slot \in [1..Chunks -> 0..scenario.sessions]
      /\ copied[a] \in 0..Chunks /\ harm \in [Installers -> SUBSET {"rejoined", "overwritten"}]
      /\ UNCHANGED scenario
  BY FuotaAssumption, StepOf DEF TypeOK
<1>1. CASE DispNext
  <2>1. /\ UNCHANGED <<slot, area>> /\ pc'[a] = pc[a] /\ then'[a] = then[a] /\ copied'[a] = copied[a]
        /\ size'[a] = size[a]
    BY <1>1, DispMoves, DispTakes DEF backend
  <2>2. (Installing(a)' <=> Installing(a)) /\ (Unsized(a)' <=> Unsized(a)) /\ (Whole' <=> Whole)
    BY <2>1 DEF Installing, Unsized, Whole
  <2> QED BY <1>1, <2>1, <2>2, SizeStays DEF CopyInv
<1>2. ASSUME NEW b \in Installers \ {a}, OwnStep(b) PROVE CopyInv(a)'
  <2>1. /\ pc'[a] = pc[a] /\ then'[a] = then[a] /\ copied'[a] = copied[a] /\ size'[a] = size[a]
        /\ UNCHANGED <<area, image_size>>
    BY <1>0, <1>2, InstallerMoves, OwnStepQuiet DEF backend
  <2>2. (Installing(a)' <=> Installing(a)) /\ (Unsized(a)' <=> Unsized(a)) /\ (Whole' <=> Whole)
    BY <2>1 DEF Installing, Unsized, Whole
  <2>3. harm'[a] = harm[a]
    <3>1. harm' = harm \/ \E H : harm' = [harm EXCEPT ![b] = H]
      BY <1>2 DEF OwnStep, ApplyCall, Apply, WorkqNext, ApplyWork, KeepaliveFires, KeepaliveSent, KeepaliveReturns,
         InstallNext, Report, ApplyUnsupported, CopyStart, CopyChunk, CopyFails, ApplyFailed, BootUpgrade, Reboot
    <3> QED BY <1>0, <1>2, <3>1
  <2>4. ASSUME Whole, \A i \in 1..copied[a] : slot[i] = area.from PROVE \A i \in 1..copied[a] : slot'[i] = area.from
    <3>1. \A i \in 1..copied[a] : i \in 1..Chunks
      BY <1>0
    <3> QED BY <1>0, <1>2, <2>4, <3>1, SlotNext
  <2> QED BY <2>1, <2>2, <2>3, <2>4 DEF CopyInv
<1>3. CASE Start \/ \E n \in 1..Chunks : SetExpectedSize(n)
  <2>1. UNCHANGED <<slot, area, pc, then, copied, size, harm>> /\ (image_size' = 0 => image_size = 0)
    BY <1>0, <1>3 DEF Start, SetExpectedSize, backend, control, flash
  <2> QED BY <2>1 DEF CopyInv, Installing, Unsized, Whole
<1>4. CASE BackendNext
  <2>1. UNCHANGED <<slot, pc, then, copied, size>> /\ UNCHANGED image_size
    BY <1>4, OutsideStep DEF control, flash, BackendNext, Join, JoinFail, LeaveNetwork, ModemReset, StartSession, Fragment,
       Reconstruct, Abandon, EndSession, RequestReboot, Raise, coordinator
  <2>2. (Installing(a)' <=> Installing(a)) /\ (Unsized(a)' <=> Unsized(a))
    BY <2>1 DEF Installing, Unsized
  <2>3. CASE UNCHANGED <<area, harm>>
    BY <2>1, <2>2, <2>3 DEF CopyInv, Whole
  <2>4. CASE Fragment
    <3>1. harm' = Harmed({b \in Installers : Installing(b)}, "overwritten")
      BY <2>4 DEF Fragment
    <3>2. harm'[a] = IF Installing(a) THEN harm[a] \cup {"overwritten"} ELSE harm[a]
      BY <3>1 DEF Harmed
    <3>3. harm[a] \subseteq harm'[a] /\ (Installing(a) => "overwritten" \in harm'[a])
      BY <3>2
    <3> QED BY <2>1, <2>2, <3>3 DEF CopyInv
  <2>5. ASSUME NEW n \in 1..Chunks, NEW h \in BOOLEAN, NEW r \in BOOLEAN, Reconstruct(n, h, r) PROVE CopyInv(a)'
    <3>1. /\ UNCHANGED harm /\ area.from = sessions
          /\ area' = [from |-> sessions, image |-> sessions, size |-> n, header |-> h]
      BY <2>5 DEF Reconstruct
    <3>2. area'.from = area.from /\ (Whole => Whole')
      BY <3>1 DEF Whole
    <3> QED BY <2>1, <2>2, <3>1, <3>2 DEF CopyInv
  <2>6. UNCHANGED <<area, harm>> \/ Fragment
        \/ \E n \in 1..Chunks, h \in BOOLEAN, r \in BOOLEAN : Reconstruct(n, h, r)
    BY <1>4 DEF BackendNext, Join, JoinFail, LeaveNetwork, ModemReset, StartSession, Abandon, EndSession, RequestReboot,
       backend
  <2> QED BY <2>3, <2>4, <2>5, <2>6
<1>5. CASE OwnStep(a)
  BY <1>0, <1>5, OwnCopy
<1> QED BY <1>1, <1>2, <1>3, <1>4, <1>5, StepOf

\* What MCUboot finds after the reboot.
LEMMA UpgradeNext ==
    ASSUME TypeOK, ControlInv, InstallInv, UpgradeIsWhole, Next
    PROVE  UpgradeIsWhole'
<1>1. CASE up'
  BY <1>1 DEF UpgradeIsWhole
<1>2. CASE ~up'
  <2>0. up /\ UNCHANGED scenario
    BY StepOf
  <2>1. PICK a \in Installers : Reboot(a)
    <3>1. up' = up \/ \E a \in Installers : Reboot(a)
      BY DEF Next, Running, DispNext, InstallNext, WorkqNext, BackendNext, OnJoined, OnLeft, OnSessionStarted,
         OnSessionEnded, OnTransferDone, OnTransferFailed, OnReboot, NotStarted, Report, AfterReport, ApplyUnsupported,
         CopyStart, CopyChunk, CopyFails, ApplyFailed, BootUpgrade, ApplyCall, ApplyWork, KeepaliveFires, KeepaliveSent,
         KeepaliveReturns, Start, SetExpectedSize, Join, JoinFail, LeaveNetwork, ModemReset, StartSession, Fragment,
         Reconstruct, Abandon, EndSession, RequestReboot, Raise
    <3> QED BY <1>2, <2>0, <3>1
  <2>2. /\ Chunks \in Nat /\ scenario.sessions \in Nat /\ slot \in [1..Chunks -> 0..scenario.sessions]
        /\ size[a] \in 0..Chunks /\ InstallerOK(a) /\ CopyInv(a) /\ area.from \in 0..scenario.sessions
    BY FuotaAssumption, ScenarioBounds DEF TypeOK, ControlInv, InstallInv
  <2>3. pc[a] = "reboot" /\ upgrade'.image = [i \in 1..size[a] |-> slot[i]] /\ upgrade'.harm = harm[a]
    BY <2>1 DEF Reboot
  <2>4. upgrade'.image \in Seq(0..scenario.sessions) /\ Len(upgrade'.image) = size[a]
    <3>1. TypeOK'
      BY TypesNext
    <3>2. upgrade'.image \in Seq(0..scenario.sessions)
      BY <2>0, <3>1 DEF TypeOK
    <3> QED BY <2>2, <2>3, <3>2
  <2>5. upgrade'.image = <<>> => "rejoined" \in upgrade'.harm
    BY <2>2, <2>3, <2>4 DEF CopyInv
  <2>6. ASSUME "overwritten" \notin upgrade'.harm
        PROVE  \E g \in 1..scenario.sessions : \A i \in 1..Len(upgrade'.image) : upgrade'.image[i] = g
    <3>1. Whole /\ \A i \in 1..size[a] : slot[i] = area.from
      BY <2>2, <2>3, <2>6 DEF CopyInv, Installing, InstallerOK
    <3>2. area.from \in 1..scenario.sessions
      BY <2>2, <3>1 DEF Whole
    <3>3. \A i \in 1..Len(upgrade'.image) : upgrade'.image[i] = area.from
      BY <2>3, <2>4, <3>1
    <3> QED BY <3>2, <3>3
  <2> QED BY <2>0, <2>5, <2>6 DEF UpgradeIsWhole
<1> QED BY <1>1, <1>2

-----------------------------------------------------------------------------
(* The theorems *)

LEMMA InitHolds ==
    ASSUME Init
    PROVE  Base /\ QueueInv /\ InstallInv /\ UpgradeIsWhole
<1> USE DEF Init
<1>0. /\ Chunks \in Nat /\ scenario.sessions \in Nat /\ scenario.joins \in Nat /\ scenario.resets \in Nat
      /\ scenario.events \in Nat /\ inbox \in Seq(Events) /\ Len(inbox) = 0
  BY FuotaAssumption, ScenarioBounds
<1>1. TypeOK
  <2>1. /\ pc \in [Actors -> Labels] /\ then \in [Actors -> Labels]
        /\ copied \in [Installers -> 0..Chunks] /\ size \in [Installers -> 0..Chunks]
        /\ slot \in [1..Chunks -> 0..scenario.sessions] /\ upgrade.image \in Seq(0..scenario.sessions)
        /\ harm \in [Installers -> SUBSET {"rejoined", "overwritten"}]
    BY <1>0 DEF Labels
  <2>2. /\ sessions \in 0..scenario.sessions /\ joins \in 0..scenario.joins /\ resets \in 0..scenario.resets
        /\ area \in [from : 0..scenario.sessions, image : 0..scenario.sessions, size : 0..Chunks, header : BOOLEAN]
        /\ image_size \in 0..Chunks /\ expected_size \in 0..Chunks /\ Len(inbox) <= scenario.events
        /\ state \in States
    BY <1>0 DEF States
  <2> QED BY <1>0, <2>1, <2>2 DEF TypeOK
<1>2. ControlInv /\ KeepInv
  BY <1>0, ActorsAre DEF ControlInv, KeepInv, DispOK, InstallerOK
<1>3. QueueInv
  <2>1. \A i \in 0..Len(inbox) : ~StartedAt(i) /\ ~ReadyAt(i)
    BY <1>0 DEF StartedAt, ReadyAt
  <2> QED BY <2>1 DEF QueueInv, TransferInv, ReadyInv, ReceiveInv, Receiving
<1>4. InstallInv
  <2>1. ~Behind(0, {"DONE"})
    BY <1>0 DEF Behind
  <2> QED BY <2>1, ActorsAre DEF InstallInv, AreaInv, CopyInv, Installing, Unsized
<1>5. UpgradeIsWhole
  BY DEF UpgradeIsWhole
<1> QED BY <1>1, <1>2, <1>3, <1>4, <1>5 DEF Base

LEMMA BaseNext ==
    ASSUME Base, [Next]_vars
    PROVE  Base'
<1>1. CASE Next
  BY <1>1, TypesNext, ControlNext, KeepNext DEF Base
<1>2. CASE UNCHANGED vars
  BY <1>2 DEF Base, TypeOK, ControlInv, DispOK, InstallerOK, KeepInv, GoesTo, ImgManager, Keepalive, vars, coordinator,
     keepalive, works, control, flash, queue, backend
<1> QED BY <1>1, <1>2

\* Every variable keeps its type, and whenever the coordinator waits in READY or FAILED with
\* nothing else to do the keepalive is scheduled (fuota_on_event(), keepalive_work_handler()),
\* unless its last schedule_keepalive() fell before the return of a cancelled handler, where
\* k_work_schedule() does nothing: for any number of sessions, joins, resets and appliers.
THEOREM KeepaliveIsKept == Spec => [](TypeOK /\ KeepaliveRuns)
<1>1. Init => Base
  BY InitHolds
<1>2. Base /\ [Next]_vars => Base'
  BY BaseNext
<1>3. Base => TypeOK /\ KeepaliveRuns
  <2> SUFFICES ASSUME Base, Keepalive, Quiescent, state \in {"READY", "FAILED"} PROVE timer \/ missed
    BY DEF Base, KeepaliveRuns
  <2>1. pc[Workq] = "idle" /\ pc[Disp] = "idle"
    BY ActorsAre DEF Quiescent
  <2> QED BY <2>1 DEF Base, KeepInv, GoesTo
<1> QED BY <1>1, <1>2, <1>3, PTL DEF Spec

LEMMA QueueInvNext ==
    ASSUME Base, QueueInv, [Next]_vars
    PROVE  QueueInv'
<1>1. CASE Next
  BY <1>1, QueueNext DEF Base
<1>2. CASE UNCHANGED vars
  BY <1>2 DEF QueueInv, TransferInv, ReadyInv, ReceiveInv, StartedAt, ReadyAt, Receiving, Behind, Whole, vars, coordinator,
     queue, backend
<1> QED BY <1>1, <1>2

\* Whenever nothing is going on, what rzi_fuota_get_status() answers is true, but for the cases
\* TruthAtRest names: TRANSFERRING has its session, a ready image is whole in the fragment area,
\* and the keepalive runs.  No bound on sessions, joins, resets, appliers or the queue.
THEOREM TruthHoldsAtRest == Spec => []TruthAtRest
<1> DEFINE Inv == Base /\ QueueInv
<1>1. Init => Inv
  BY InitHolds
<1>2. Inv /\ [Next]_vars => Inv'
  BY BaseNext, QueueInvNext
<1>3. Inv => TransferIsActive /\ ReadyImageIsWhole
  <2> SUFFICES ASSUME Inv, Quiescent, ~dropped
               PROVE  /\ state = "TRANSFERRING" => session \/ cut \/ image_ready
                      /\ image_ready => Whole \/ state = "TRANSFERRING" \/ covered
    BY DEF TransferIsActive, ReadyImageIsWhole
  <2>1. Len(inbox) = 0 /\ TransferInv /\ ReadyInv
    BY DEF Quiescent, QueueInv
  <2>2. \A S : ~Behind(0, S)
    BY <2>1 DEF Behind
  <2>3. 0 \in 0..Len(inbox)
    BY <2>1
  <2> QED BY <2>1, <2>2, <2>3 DEF TransferInv, ReadyInv, StartedAt, ReadyAt
<1> HIDE DEF Inv
<1>4. Spec => [](TransferIsActive /\ ReadyImageIsWhole)
  BY <1>1, <1>2, <1>3, PTL DEF Spec
<1>5. TypeOK /\ KeepaliveRuns /\ TransferIsActive /\ ReadyImageIsWhole => TruthAtRest
  BY DEF TruthAtRest
<1> QED BY <1>4, <1>5, KeepaliveIsKept, PTL

LEMMA InstallInvNext ==
    ASSUME Base, InstallInv, UpgradeIsWhole, [Next]_vars
    PROVE  InstallInv' /\ UpgradeIsWhole'
<1>1. CASE Next
  BY <1>1, AreaNext, CopyNext, UpgradeNext DEF Base, InstallInv
<1>2. CASE UNCHANGED vars
  BY <1>2 DEF InstallInv, AreaInv, CopyInv, Installing, Unsized, Whole, UpgradeIsWhole, Behind, vars, coordinator,
     control, flash, queue, backend
<1> QED BY <1>1, <1>2

\* Whatever sessions, joins, resets, appliers, the work queue and the dispatcher do: the slot
\* that boot_request_upgrade() hands to MCUboot is empty only if a JOINED fell between the check
\* of rzi_fuota_apply() and its copy, and mixed only if a new session's fragments overwrote the
\* area before the reboot.
THEOREM UpgradesAreWhole == Spec => []UpgradeIsWhole
<1> DEFINE Inv == Base /\ InstallInv /\ UpgradeIsWhole
<1>1. Init => Inv
  BY InitHolds
<1>2. Inv /\ [Next]_vars => Inv'
  BY BaseNext, InstallInvNext
<1>3. Inv => UpgradeIsWhole
  OBVIOUS
<1> HIDE DEF Inv
<1> QED BY <1>1, <1>2, <1>3, PTL DEF Spec

=============================================================================
