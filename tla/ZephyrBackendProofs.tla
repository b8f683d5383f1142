------------------------- MODULE ZephyrBackendProofs -------------------------
(***************************************************************************)
(* Proofs about ZephyrBackend, for any threads, clients, payloads, rates,  *)
(* region and bounds: the flags of the backend, its work items and the     *)
(* stack fit together, and no DevNonce is used twice.                      *)
(***************************************************************************)
EXTENDS ZephyrBackend, FiniteSetTheorems, SequenceTheorems, TLAPS

WorkerSteps == {Idle, "return", "join_start", "joining", "join_end", "join_publish",
                "send_start", "sending", "send_end", "send_publish", "clock_poll"}
InJoinItem == worker \in {"join_start", "joining", "join_end", "join_publish"}
Submitting == {t \in Threads : pc[t] = "submit"}
SendQueued == "queued" \in work["send"]
JoinWaits == work["join"] \cap {"delayed", "queued"} # {}

Types ==
    /\ TypeOK
    /\ orphaned \in BOOLEAN /\ accepted \in Nat /\ done \in Nat
    /\ calls \in 0..MaxCalls /\ fails \in 0..MaxFails
    /\ client \in Clients /\ DOMAIN pc = Threads /\ arg \in [Threads -> Classes]
    /\ worker \in WorkerSteps
    /\ stack \in [session : BOOLEAN, class : Classes, adr : BOOLEAN, rate : Int, frag : BOOLEAN, time : BOOLEAN]

\* The queue holds items that are flagged so, each once.
QueueOK ==
    /\ work \in [Work -> SUBSET Flags] /\ queue \in Seq(Work)
    /\ \A i \in 1..Len(queue) : "queued" \in work[queue[i]]
    /\ \A i, j \in 1..Len(queue) : queue[i] = queue[j] => i = j

\* No item waits twice.
OneWait == \A w \in Work : ~({"delayed", "queued"} \subseteq work[w])

\* The send item is never delayed nor cancelled; a join item that is being cancelled does not
\* wait, and a join that it still carries has been stopped.
QueueInv ==
    /\ QueueOK /\ OneWait
    /\ work["send"] \subseteq {"queued", "running"}
    /\ "canceling" \in work["join"] => ~JoinWaits /\ (InJoin => join_stop)
    /\ InJoinItem => "running" \in work["join"]

\* A join is pending as long as its item waits or runs, and excludes uplinks; outside
\* lorawan_join() the backend knows whether the stack has a session.
JoinInv ==
    /\ InJoin \/ JoinWaits => join_pending
    /\ ~(InJoin /\ JoinWaits)
    /\ join_pending => started /\ ~tx_pending
    /\ ~started => ~stack.session
    /\ worker = "join_end" => (stack.session <=> result = 0)
    /\ worker \notin {"joining", "join_end"} => (joined <=> stack.session)
    /\ tx_pending => stack.session
    /\ JoinKeptUp

\* An uplink that is pending is in one place.
TxInv ==
    /\ tx_pending <=> Submitting # {} \/ SendQueued \/ InSend
    /\ \A t, u \in Submitting : t = u
    /\ ~(SendQueued /\ InSend) /\ (Submitting # {} => ~SendQueued /\ ~InSend)
    /\ worker \in {"sending", "send_end"} => result = tx
    /\ accepted = done + (IF tx_pending THEN 1 ELSE 0) + (IF worker = "send_publish" THEN 1 ELSE 0)

\* A join request is on its way, and the requests that may still come.
Attempt == JoinWaits \/ worker = "join_start" \/ (worker = "join_end" /\ result # 0)
Ahead == (MaxCalls - calls) + (MaxFails - fails) + (IF Attempt THEN 1 ELSE 0)

\* The counter does not wrap around, and it is past every DevNonce that was used.
NonceInv ==
    /\ next_dev_nonce + Ahead <= 2 + MaxCalls + MaxFails
    /\ \A n \in used : n \in Nat /\ n < next_dev_nonce

-----------------------------------------------------------------------------
(* The work queue *)

\* The flags change, the queued items stay queued.
LEMMA FlagsStep ==
    ASSUME QueueOK, work' \in [Work -> SUBSET Flags], UNCHANGED queue,
           \A w \in Work : "queued" \in work[w] => "queued" \in work'[w]
    PROVE  QueueOK'
BY DEF QueueOK

LEMMA AppendStep ==
    ASSUME QueueOK, NEW w \in Work, "queued" \notin work[w], queue' = Append(queue, w),
           work' \in [Work -> SUBSET Flags], "queued" \in work'[w], \A v \in Work \ {w} : work'[v] = work[v]
    PROVE  QueueOK'
<1>1. /\ queue \in Seq(Work) /\ queue' \in Seq(Work) /\ Len(queue') = Len(queue) + 1 /\ Len(queue) \in Nat
      /\ \A i \in 1..Len(queue) : queue'[i] = queue[i] /\ queue[i] \in Work
      /\ queue'[Len(queue) + 1] = w
  BY DEF QueueOK
<1>2. \A i \in 1..Len(queue) : queue[i] # w
  BY DEF QueueOK
<1>3. \A i \in 1..Len(queue') : i \in 1..Len(queue) \/ i = Len(queue) + 1
  BY <1>1
<1>4. ASSUME NEW i \in 1..Len(queue') PROVE "queued" \in work'[queue'[i]]
  BY <1>1, <1>2, <1>3 DEF QueueOK
<1>5. ASSUME NEW i \in 1..Len(queue'), NEW j \in 1..Len(queue'), queue'[i] = queue'[j] PROVE i = j
  BY <1>1, <1>2, <1>3, <1>5 DEF QueueOK
<1> QED BY <1>1, <1>4, <1>5 DEF QueueOK

LEMMA ScheduleStep ==
    ASSUME QueueOK, NEW w \in Work, NEW flag \in {"queued", "delayed"}, Schedule(w, flag)
    PROVE  /\ QueueOK'
           /\ work'[w] = IF work[w] \subseteq {"running"} THEN work[w] \cup {flag} ELSE work[w]
           /\ \A v \in Work \ {w} : work'[v] = work[v]
<1>0. work \in [Work -> SUBSET Flags]
  BY DEF QueueOK
<1>1. CASE ~(work[w] \subseteq {"running"})
  BY <1>0, <1>1, FlagsStep DEF Schedule
<1>2. CASE work[w] \subseteq {"running"}
  <2>1. /\ work' = [work EXCEPT ![w] = @ \cup {flag}]
        /\ queue' = IF flag = "queued" THEN Append(queue, w) ELSE queue
    BY <1>2 DEF Schedule
  <2>2. work' \in [Work -> SUBSET Flags] /\ work'[w] = work[w] \cup {flag}
    BY <1>0, <2>1 DEF Flags
  <2>3. \A v \in Work \ {w} : work'[v] = work[v]
    BY <1>0, <2>1
  <2>4. QueueOK'
    <3>1. CASE flag = "queued"
      BY <1>2, <2>1, <2>2, <2>3, <3>1, AppendStep
    <3>2. CASE flag # "queued"
      BY <2>1, <2>2, <2>3, <3>2, FlagsStep
    <3> QED BY <3>1, <3>2
  <2> QED BY <1>2, <2>2, <2>3, <2>4
<1> QED BY <1>1, <1>2

LEMMA ScheduleOneWait ==
    ASSUME QueueOK, OneWait, NEW w \in Work, NEW flag \in {"queued", "delayed"}, Schedule(w, flag)
    PROVE  OneWait'
<1>1. ASSUME NEW v \in Work PROVE ~({"delayed", "queued"} \subseteq work'[v])
  <2>1. CASE v # w
    BY <2>1, ScheduleStep DEF OneWait
  <2>2. CASE v = w
    <3>1. CASE work[w] \subseteq {"running"}
      <4>1. work'[w] = work[w] \cup {flag}
        BY <3>1, ScheduleStep
      <4>2. "delayed" \notin work[w] /\ "queued" \notin work[w]
        BY <3>1
      <4> QED BY <2>2, <4>1, <4>2
    <3>2. CASE ~(work[w] \subseteq {"running"})
      <4>1. work'[w] = work[w]
        BY <3>2, ScheduleStep
      <4> QED BY <2>2, <4>1 DEF OneWait
    <3> QED BY <3>1, <3>2
  <2> QED BY <2>1, <2>2
<1> QED BY <1>1 DEF OneWait

\* A sequence without its k-th element.
LEMMA WithoutOne ==
    ASSUME NEW S, NEW q \in Seq(S), NEW k \in 1..Len(q)
    PROVE  /\ Without(q, k) \in Seq(S) /\ Len(Without(q, k)) = Len(q) - 1
           /\ \A i \in 1..(Len(q) - 1) : Without(q, k)[i] = IF i < k THEN q[i] ELSE q[i + 1]
<1>1. Len(q) \in Nat /\ k \in Int /\ 1 <= k /\ k <= Len(q)
  OBVIOUS
<1>2. PICK f : f = SubSeq(q, 1, k - 1)
  OBVIOUS
<1>3. PICK b : b = SubSeq(q, k + 1, Len(q))
  OBVIOUS
<1>4. f \in Seq(S) /\ Len(f) = k - 1 /\ \A i \in 1..(k - 1) : f[i] = q[i]
  BY <1>1, <1>2
<1>5. b \in Seq(S) /\ Len(b) = Len(q) - k /\ \A i \in 1..(Len(q) - k) : b[i] = q[k + i]
  BY <1>1, <1>3
<1>6. PICK r : r = f \o b
  OBVIOUS
<1>7. /\ r \in Seq(S) /\ Len(r) = Len(f) + Len(b)
      /\ \A i \in 1..(Len(f) + Len(b)) : r[i] = IF i <= Len(f) THEN f[i] ELSE b[i - Len(f)]
  BY <1>4, <1>5, <1>6, ConcatProperties
<1>8. Len(r) = Len(q) - 1
  BY <1>1, <1>4, <1>5, <1>7
<1>9. ASSUME NEW i \in 1..Len(r) PROVE r[i] = IF i < k THEN q[i] ELSE q[i + 1]
  <2>1. CASE i < k
    BY <1>1, <1>4, <1>5, <1>7, <1>8, <2>1
  <2>2. CASE ~(i < k)
    <3>1. i - Len(f) \in 1..(Len(q) - k) /\ k + (i - Len(f)) = i + 1 /\ ~(i <= Len(f))
      BY <1>1, <1>4, <1>8, <2>2
    <3>2. r[i] = b[i - Len(f)]
      BY <1>1, <1>4, <1>5, <1>7, <1>8, <3>1
    <3> QED BY <1>5, <2>2, <3>1, <3>2
  <2> QED BY <2>1, <2>2
<1>10. r = Without(q, k)
  BY <1>2, <1>3, <1>6, Zenon DEF Without
<1> QED BY <1>7, <1>8, <1>9, <1>10

\* The queue without the join item.
LEMMA UnqueuedStep ==
    ASSUME QueueOK, queue' = Unqueued("join"), work' \in [Work -> SUBSET Flags],
           \A v \in Work \ {"join"} : work'[v] = work[v]
    PROVE  QueueOK'
<1>0. queue \in Seq(Work) /\ Len(queue) \in Nat /\ \A i \in 1..Len(queue) : queue[i] \in Work
  BY DEF QueueOK
<1>1. CASE ~\E i \in 1..Len(queue) : queue[i] = "join"
  BY <1>0, <1>1 DEF QueueOK, Unqueued
<1>2. CASE \E i \in 1..Len(queue) : queue[i] = "join"
  <2> DEFINE at == CHOOSE i \in 1..Len(queue) : queue[i] = "join"
  <2>1. at \in 1..Len(queue) /\ queue[at] = "join"
    BY <1>2
  <2>2. queue' = Without(queue, at)
    BY <1>2 DEF Unqueued
  <2> HIDE DEF at
  <2>3. /\ queue' \in Seq(Work) /\ Len(queue') = Len(queue) - 1
        /\ \A i \in 1..Len(queue') : queue'[i] = IF i < at THEN queue[i] ELSE queue[i + 1]
    BY <1>0, <2>1, <2>2, WithoutOne, ZenonT(60)
  <2>4. ASSUME NEW i \in 1..Len(queue')
        PROVE  \E k \in 1..Len(queue) : k # at /\ queue'[i] = queue[k] /\ k = IF i < at THEN i ELSE i + 1
    BY <1>0, <2>1, <2>3
  <2>5. ASSUME NEW i \in 1..Len(queue') PROVE "queued" \in work'[queue'[i]]
    BY <1>0, <2>1, <2>4 DEF QueueOK
  <2>6. ASSUME NEW i \in 1..Len(queue'), NEW j \in 1..Len(queue'), queue'[i] = queue'[j] PROVE i = j
    <3>1. PICK k \in 1..Len(queue) : queue'[i] = queue[k] /\ k = IF i < at THEN i ELSE i + 1
      BY <2>4
    <3>2. PICK l \in 1..Len(queue) : queue'[j] = queue[l] /\ l = IF j < at THEN j ELSE j + 1
      BY <2>4
    <3>3. k = l
      BY <2>6, <3>1, <3>2 DEF QueueOK
    <3>4. i \in Int /\ j \in Int /\ at \in Int
      BY <1>0, <2>1, <2>3
    <3> QED BY <3>1, <3>2, <3>3, <3>4
  <2> QED BY <2>3, <2>5, <2>6 DEF QueueOK
<1> QED BY <1>1, <1>2

\* The first item is taken.
LEMMA TailStep ==
    ASSUME QueueOK, queue # <<>>, queue' = Tail(queue), work' \in [Work -> SUBSET Flags],
           \A v \in Work \ {Head(queue)} : work'[v] = work[v]
    PROVE  Head(queue) \in Work /\ "queued" \in work[Head(queue)] /\ QueueOK'
<1>1. /\ queue \in Seq(Work) /\ Len(queue) \in Nat \ {0} /\ Head(queue) = queue[1] /\ Head(queue) \in Work
      /\ queue' \in Seq(Work) /\ Len(queue') = Len(queue) - 1
      /\ \A i \in 1..Len(queue') : queue'[i] = queue[i + 1]
  BY DEF QueueOK
<1>2. \A i \in 1..Len(queue') : i \in Int /\ i + 1 \in 1..Len(queue) /\ i + 1 # 1
  BY <1>1
<1>3. ASSUME NEW i \in 1..Len(queue') PROVE "queued" \in work'[queue'[i]]
  <2>1. queue[i + 1] # queue[1] /\ queue[i + 1] \in Work
    BY <1>1, <1>2 DEF QueueOK
  <2> QED BY <1>1, <1>2, <2>1 DEF QueueOK
<1>4. ASSUME NEW i \in 1..Len(queue'), NEW j \in 1..Len(queue'), queue'[i] = queue'[j] PROVE i = j
  <2>1. i + 1 = j + 1
    BY <1>1, <1>2, <1>4 DEF QueueOK
  <2> QED BY <1>2, <2>1
<1>5. "queued" \in work[Head(queue)]
  BY <1>1 DEF QueueOK
<1> QED BY <1>1, <1>3, <1>4, <1>5 DEF QueueOK

-----------------------------------------------------------------------------
(* The types *)

\* How each variable may change, action by action.
LEMMA Writes ==
    ASSUME Next
    PROVE  /\ started' = started \/ started' = TRUE
           /\ joined' = joined \/ joined' = FALSE \/ joined' = (result = 0)
           /\ \/ join_pending' = join_pending \/ join_pending' = TRUE \/ join_pending' = FALSE
              \/ join_pending' = ("running" \in work["join"])
           /\ join_stop' = join_stop \/ join_stop' = TRUE \/ join_stop' = FALSE
           /\ tx_pending' = tx_pending \/ tx_pending' = TRUE \/ tx_pending' = FALSE
           /\ adr_enabled' = adr_enabled \/ adr_enabled' \in BOOLEAN
           /\ \/ orphaned' = orphaned \/ orphaned' = ("canceling" \in work["join"])
              \/ orphaned' = ("running" \in work["join"] /\ ~InJoin)
           /\ accepted' = accepted \/ accepted' = accepted + 1
           /\ done' = done \/ done' = done + 1
           /\ calls' = calls \/ (calls < MaxCalls /\ calls' = calls + 1)
           /\ fails' = fails \/ (fails < MaxFails /\ fails' = fails + 1)
           /\ \/ clock_poll_left' = clock_poll_left \/ clock_poll_left' = ClockTries
              \/ clock_poll_left > 0 /\ clock_poll_left' = clock_poll_left - 1
           /\ \/ next_dev_nonce' = next_dev_nonce \/ next_dev_nonce' = 1 \/ next_dev_nonce' = 2
              \/ next_dev_nonce' = (next_dev_nonce + 1) % NonceModulus
<1> USE DEF Next, WorkerStep, zephyr_start, zephyr_join, zephyr_leave, zephyr_send, Submit, zephyr_set_class,
             NoteClass, zephyr_set_adr, zephyr_set_data_rate, zephyr_set_dev_nonce, zephyr_fuota_start_clock_sync,
             Expire, Take, Return, JoinStopped, JoinStart, fill_zephyr_join, Joining, JoinEnd, JoinPublish,
             SendStart, Sending, SendEnd, SendPublish, ClockPoll, LinkAdr, TimeAnswer, Begin, Stay,
             flags, features, fuota, kernel, caller, history
<1>1. started' = started \/ started' = TRUE
  OBVIOUS
<1>2. joined' = joined \/ joined' = FALSE \/ joined' = (result = 0)
  OBVIOUS
<1>3. \/ join_pending' = join_pending \/ join_pending' = TRUE \/ join_pending' = FALSE
      \/ join_pending' = ("running" \in work["join"])
  OBVIOUS
<1>4. join_stop' = join_stop \/ join_stop' = TRUE \/ join_stop' = FALSE
  OBVIOUS
<1>5. tx_pending' = tx_pending \/ tx_pending' = TRUE \/ tx_pending' = FALSE
  OBVIOUS
<1>6. adr_enabled' = adr_enabled \/ adr_enabled' \in BOOLEAN
  OBVIOUS
<1>7. \/ orphaned' = orphaned \/ orphaned' = ("canceling" \in work["join"])
      \/ orphaned' = ("running" \in work["join"] /\ ~InJoin)
  OBVIOUS
<1>8. accepted' = accepted \/ accepted' = accepted + 1
  OBVIOUS
<1>9. done' = done \/ done' = done + 1
  OBVIOUS
<1>10. calls' = calls \/ (calls < MaxCalls /\ calls' = calls + 1)
  OBVIOUS
<1>11. fails' = fails \/ (fails < MaxFails /\ fails' = fails + 1)
  OBVIOUS
<1>12. \/ clock_poll_left' = clock_poll_left \/ clock_poll_left' = ClockTries
       \/ clock_poll_left > 0 /\ clock_poll_left' = clock_poll_left - 1
  OBVIOUS
<1>13. \/ next_dev_nonce' = next_dev_nonce \/ next_dev_nonce' = 1 \/ next_dev_nonce' = 2
       \/ next_dev_nonce' = (next_dev_nonce + 1) % NonceModulus
  OBVIOUS
<1> HIDE DEF Next, WorkerStep, zephyr_start, zephyr_join, zephyr_leave, zephyr_send, Submit, zephyr_set_class,
             NoteClass, zephyr_set_adr, zephyr_set_data_rate, zephyr_set_dev_nonce, zephyr_fuota_start_clock_sync,
             Expire, Take, Return, JoinStopped, JoinStart, fill_zephyr_join, Joining, JoinEnd, JoinPublish,
             SendStart, Sending, SendEnd, SendPublish, ClockPoll, LinkAdr, TimeAnswer, Begin, Stay,
             flags, features, fuota, kernel, caller, history
<1> QED BY <1>1, <1>2, <1>3, <1>4, <1>5, <1>6, <1>7, <1>8, <1>9, <1>10, <1>11, <1>12, <1>13, Zenon

LEMMA DataTypes ==
    ASSUME Types, Next
    PROVE  /\ tx' \in Payloads /\ device_class' \in Classes /\ data_rate' \in uplink_data_rates(Region)
           /\ DOMAIN pc' = Threads /\ arg' \in [Threads -> Classes] /\ client' \in Clients
           /\ worker' \in WorkerSteps
BY DEF Types, TypeOK, WorkerSteps, Work, Next, WorkerStep, zephyr_start, zephyr_join, zephyr_leave, zephyr_send, Submit, zephyr_set_class,
             NoteClass, zephyr_set_adr, zephyr_set_data_rate, zephyr_set_dev_nonce, zephyr_fuota_start_clock_sync,
             Expire, Take, Return, JoinStopped, JoinStart, fill_zephyr_join, Joining, JoinEnd, JoinPublish,
             SendStart, Sending, SendEnd, SendPublish, ClockPoll, LinkAdr, TimeAnswer, Begin, Stay,
             flags, features, fuota, kernel, caller, history

LEMMA StackTypes ==
    ASSUME Types, Next
    PROVE  stack' \in [session : BOOLEAN, class : Classes, adr : BOOLEAN, rate : Int, frag : BOOLEAN, time : BOOLEAN]
<1> DEFINE R == [session : BOOLEAN, class : Classes, adr : BOOLEAN, rate : Int, frag : BOOLEAN, time : BOOLEAN]
<1>0. stack \in R /\ Rates \subseteq Int
  BY ZephyrAssumption DEF Types
<1>1. \/ UNCHANGED stack
      \/ \E c \in Classes : stack' = [stack EXCEPT !.class = c]
      \/ \E on \in BOOLEAN : stack' = [stack EXCEPT !.adr = on]
      \/ \E r \in Rates : stack' = [stack EXCEPT !.rate = r]
      \/ \E on \in BOOLEAN : stack' = [stack EXCEPT !.frag = @ \/ on]
      \/ \E on \in BOOLEAN : stack' = [stack EXCEPT !.session = on]
      \/ stack' = [stack EXCEPT !.time = TRUE]
  BY ZenonT(60) DEF Next, WorkerStep, zephyr_start, zephyr_join, zephyr_leave, zephyr_send, Submit, zephyr_set_class,
             NoteClass, zephyr_set_adr, zephyr_set_data_rate, zephyr_set_dev_nonce, zephyr_fuota_start_clock_sync,
             Expire, Take, Return, JoinStopped, JoinStart, fill_zephyr_join, Joining, JoinEnd, JoinPublish,
             SendStart, Sending, SendEnd, SendPublish, ClockPoll, LinkAdr, TimeAnswer, Begin, Stay,
             flags, features, fuota, kernel, caller, history
<1> QED BY <1>0, <1>1

LEMMA FlagTypes ==
    ASSUME Types, Next
    PROVE  /\ started' \in BOOLEAN /\ joined' \in BOOLEAN /\ join_pending' \in BOOLEAN
           /\ join_stop' \in BOOLEAN /\ tx_pending' \in BOOLEAN /\ adr_enabled' \in BOOLEAN /\ orphaned' \in BOOLEAN
<1>0. /\ started \in BOOLEAN /\ joined \in BOOLEAN /\ join_pending \in BOOLEAN
      /\ join_stop \in BOOLEAN /\ tx_pending \in BOOLEAN /\ adr_enabled \in BOOLEAN /\ orphaned \in BOOLEAN
  BY DEF Types, TypeOK
<1>1. started' \in BOOLEAN
  BY <1>0, Writes, Zenon
<1>2. joined' \in BOOLEAN
  BY <1>0, Writes, Zenon
<1>3. join_pending' \in BOOLEAN
  <2>1. \/ join_pending' = join_pending \/ join_pending' = TRUE \/ join_pending' = FALSE
        \/ join_pending' = ("running" \in work["join"])
    BY Writes, Zenon
  <2>2. CASE join_pending' = ("running" \in work["join"])
    BY <2>2, SMT
  <2>3. CASE join_pending' = join_pending \/ join_pending' = TRUE \/ join_pending' = FALSE
    BY <1>0, <2>3, Zenon
  <2> QED BY <2>1, <2>2, <2>3, Zenon
<1>4. join_stop' \in BOOLEAN
  BY <1>0, Writes, Zenon
<1>5. tx_pending' \in BOOLEAN
  BY <1>0, Writes, Zenon
<1>6. adr_enabled' \in BOOLEAN
  BY <1>0, Writes, Zenon
<1>7. orphaned' \in BOOLEAN
  <2>1. \/ orphaned' = orphaned \/ orphaned' = ("canceling" \in work["join"])
        \/ orphaned' = ("running" \in work["join"] /\ ~InJoin)
    BY Writes, Zenon
  <2>2. CASE orphaned' = ("canceling" \in work["join"])
    BY <2>2, SMT
  <2>3. CASE orphaned' = ("running" \in work["join"] /\ ~InJoin)
    BY <2>3, SMT
  <2> QED BY <1>0, <2>1, <2>2, <2>3, Zenon
<1> QED BY <1>1, <1>2, <1>3, <1>4, <1>5, <1>6, <1>7, Zenon

LEMMA CountTypes ==
    ASSUME Types, Next
    PROVE  /\ accepted' \in Nat /\ done' \in Nat
           /\ calls' \in 0..MaxCalls /\ fails' \in 0..MaxFails /\ clock_poll_left' \in 0..ClockTries
           /\ next_dev_nonce' \in 0..(NonceModulus - 1)
<1>0. /\ accepted \in Nat /\ done \in Nat /\ calls \in 0..MaxCalls /\ fails \in 0..MaxFails
      /\ clock_poll_left \in 0..ClockTries /\ MaxCalls \in Nat /\ MaxFails \in Nat /\ ClockTries \in Nat
      /\ NonceModulus \in Nat /\ NonceModulus > 2 /\ next_dev_nonce \in 0..(NonceModulus - 1)
  BY ZephyrAssumption DEF Types, TypeOK
<1>1. /\ accepted' = accepted \/ accepted' = accepted + 1
      /\ done' = done \/ done' = done + 1
      /\ calls' = calls \/ (calls < MaxCalls /\ calls' = calls + 1)
      /\ fails' = fails \/ (fails < MaxFails /\ fails' = fails + 1)
      /\ \/ clock_poll_left' = clock_poll_left \/ clock_poll_left' = ClockTries
         \/ clock_poll_left > 0 /\ clock_poll_left' = clock_poll_left - 1
  BY Writes, Zenon
<1>2. \/ next_dev_nonce' = next_dev_nonce \/ next_dev_nonce' = 1 \/ next_dev_nonce' = 2
      \/ next_dev_nonce' = (next_dev_nonce + 1) % NonceModulus
  BY Writes, Zenon
<1>3. (next_dev_nonce + 1) % NonceModulus \in 0..(NonceModulus - 1)
  BY <1>0
<1>4. next_dev_nonce' \in 0..(NonceModulus - 1)
  BY <1>0, <1>2, <1>3
<1> QED BY <1>0, <1>1, <1>4

-----------------------------------------------------------------------------
(* The steps *)

Inv == Types /\ QueueInv /\ JoinInv /\ TxInv
Kept == QueueInv' /\ JoinInv' /\ TxInv'

\* Nothing that the backend, its work items and the session share changes.
LEMMA QuietStep ==
    ASSUME Inv, UNCHANGED <<started, joined, join_pending, tx_pending, tx, work, queue, worker, result>>,
           UNCHANGED <<join_stop, orphaned, accepted, done>>, stack'.session = stack.session, Submitting' = Submitting
    PROVE  Kept
<1>1. QueueInv'
  BY DEF Inv, QueueInv, QueueOK, OneWait, InJoinItem, InJoin, JoinWaits
<1>2. JoinInv'
  BY DEF Inv, JoinInv, InJoin, JoinWaits, JoinKeptUp
<1>3. TxInv'
  <2>1. (InSend <=> InSend') /\ (SendQueued <=> SendQueued')
    BY DEF InSend, SendQueued
  <2>2. UNCHANGED <<tx_pending, tx, worker, result, accepted, done>>
    OBVIOUS
  <2> QED BY <2>1, <2>2 DEF Inv, TxInv
<1> QED BY <1>1, <1>2, <1>3 DEF Kept

\* The uplinks do not see a step that leaves them, the send item and the send handler alone.
LEMMA TxStays ==
    ASSUME TxInv, UNCHANGED <<tx_pending, tx, accepted, done>>, SendQueued' <=> SendQueued, InSend' <=> InSend,
           worker' = "send_publish" <=> worker = "send_publish",
           worker' \in {"sending", "send_end"} => worker \in {"sending", "send_end"} /\ result' = result,
           Submitting' = Submitting
    PROVE  TxInv'
BY DEF TxInv

LEMMA StartStep ==
    ASSUME Inv, zephyr_start
    PROVE  Kept
<1>1. UNCHANGED <<join_pending, tx_pending, tx, work, queue, worker, result, join_stop, orphaned, accepted, done, pc, stack>>
  BY DEF zephyr_start, features, kernel, caller, history
<1>2. started = FALSE /\ started' = TRUE /\ joined' = FALSE
  BY DEF zephyr_start, Inv, Types, TypeOK
<1>3. QueueInv'
  BY <1>1 DEF Inv, QueueInv, QueueOK, OneWait, InJoinItem, InJoin, JoinWaits
<1>4. JoinInv'
  BY <1>1, <1>2 DEF Inv, JoinInv, InJoin, JoinWaits, JoinKeptUp
<1>5. TxInv'
  BY <1>1, TxStays DEF Inv, InSend, SendQueued, Submitting
<1> QED BY <1>3, <1>4, <1>5 DEF Kept

LEMMA JoinStep ==
    ASSUME Inv, NEW t \in Threads, zephyr_join(t)
    PROVE  Kept
<1>1. UNCHANGED <<started, joined, tx_pending, tx, worker, result, accepted, done, pc, stack>>
  BY DEF zephyr_join, Stay
<1>2. started /\ ~join_pending /\ ~tx_pending /\ join_pending' = TRUE
      /\ orphaned' = ("canceling" \in work["join"])
  BY DEF zephyr_join
<1>3. /\ QueueOK'
      /\ work'["join"] = IF work["join"] \subseteq {"running"} THEN work["join"] \cup {"queued"} ELSE work["join"]
      /\ work'["send"] = work["send"]
  BY ScheduleStep DEF zephyr_join, Work, Inv, QueueInv
<1>4. QueueInv'
  <2>1. ~InJoin'
    BY <1>1, <1>2 DEF Inv, JoinInv, InJoin
  <2>2. OneWait'
    BY ScheduleOneWait DEF zephyr_join, Work, Inv, QueueInv
  <2>3. "canceling" \in work'["join"] => ~JoinWaits'
    BY <1>3 DEF Inv, QueueInv, JoinWaits
  <2>4. InJoinItem' => "running" \in work'["join"]
    BY <1>1, <1>3 DEF Inv, QueueInv, InJoinItem, InJoin
  <2> QED BY <1>3, <2>1, <2>2, <2>3, <2>4 DEF Inv, QueueInv
<1>5. JoinInv'
  <2>1. ~InJoin /\ ~JoinWaits
    BY <1>2 DEF Inv, JoinInv
  <2>2. work["join"] \in SUBSET Flags
    BY DEF Inv, Types, TypeOK, Work
  <2>3. JoinKeptUp'
    BY <1>2, <1>3, <2>1, <2>2 DEF JoinKeptUp, JoinWaits, Flags
  <2> QED BY <1>1, <1>2, <2>1, <2>3 DEF Inv, JoinInv, InJoin
<1>6. TxInv'
  BY <1>1, <1>3, TxStays DEF Inv, InSend, SendQueued, Submitting
<1> QED BY <1>4, <1>5, <1>6 DEF Kept

LEMMA LeaveStep ==
    ASSUME Inv, NEW t \in Threads, zephyr_leave(t)
    PROVE  Kept
<1> DEFINE busy == "running" \in work["join"]
<1>1. UNCHANGED <<started, joined, tx_pending, tx, worker, result, accepted, done, pc, stack>>
  BY DEF zephyr_leave, Stay
<1>2. /\ join_pending /\ join_pending' = busy /\ orphaned' = (busy /\ ~InJoin) /\ join_stop' = TRUE
      /\ work' = [work EXCEPT !["join"] = IF busy THEN {"running", "canceling"} ELSE {}]
  BY DEF zephyr_leave
<1>3. work \in [Work -> SUBSET Flags]
  BY DEF Inv, Types, TypeOK
<1>4. /\ work' \in [Work -> SUBSET Flags] /\ \A v \in Work \ {"join"} : work'[v] = work[v]
      /\ work'["join"] = IF busy THEN {"running", "canceling"} ELSE {}
      /\ work'["send"] = work["send"]
  BY <1>2, <1>3 DEF Work, Flags
<1>5. QueueOK'
  BY <1>4, UnqueuedStep DEF zephyr_leave, Inv, QueueInv
<1>6. (orphaned' <=> busy /\ ~InJoin) /\ join_stop'
  BY <1>2
<1>7. QueueInv'
  <2>1. OneWait'
    BY <1>4 DEF Inv, QueueInv, OneWait, Work
  <2> QED BY <1>1, <1>4, <1>5, <1>6, <2>1 DEF Inv, QueueInv, InJoinItem, InJoin, JoinWaits
<1>8. JoinInv'
  <2>1. ~JoinWaits'
    BY <1>4 DEF JoinWaits
  <2>2. InJoin => busy
    BY DEF Inv, QueueInv, InJoin, InJoinItem
  <2>3. join_pending' <=> busy
    BY <1>2
  <2>4. InJoin' <=> InJoin
    BY <1>1 DEF InJoin
  <2>5. JoinKeptUp'
    BY <1>6, <2>3, <2>4 DEF JoinKeptUp
  <2> QED BY <1>1, <1>2, <2>1, <2>2, <2>3, <2>4, <2>5 DEF Inv, JoinInv
<1>9. TxInv'
  BY <1>1, <1>4, TxStays DEF Inv, InSend, SendQueued, Submitting
<1> QED BY <1>7, <1>8, <1>9 DEF Kept

LEMMA SendStep ==
    ASSUME Inv, NEW t \in Threads, NEW p \in Payloads, zephyr_send(t, p)
    PROVE  Kept
<1>1. UNCHANGED <<started, joined, join_pending, work, queue, worker, result, join_stop, orphaned, done, stack>>
  BY DEF zephyr_send, kernel
<1>2. /\ started /\ joined /\ ~join_pending /\ ~tx_pending /\ tx_pending' = TRUE /\ accepted' = accepted + 1
      /\ pc[t] = Idle /\ pc' = [pc EXCEPT ![t] = "submit"]
  BY DEF zephyr_send, Begin
<1>3. QueueInv'
  BY <1>1 DEF Inv, QueueInv, QueueOK, OneWait, InJoinItem, InJoin, JoinWaits
<1>4. ~InJoin
  BY <1>2 DEF Inv, JoinInv
<1>5. JoinInv'
  BY <1>1, <1>2, <1>4 DEF Inv, JoinInv, InJoin, JoinWaits, JoinKeptUp
<1>6. TxInv'
  <2>1. Submitting = {} /\ ~SendQueued /\ ~InSend
    BY <1>2 DEF Inv, TxInv
  <2>2. DOMAIN pc = Threads
    BY DEF Inv, Types
  <2>3. Submitting' = {t}
    BY <1>2, <2>1, <2>2 DEF Submitting
  <2>4. ~SendQueued' /\ ~InSend' /\ (worker' = "send_publish" <=> worker = "send_publish")
    BY <1>1, <2>1 DEF SendQueued, InSend
  <2>5. worker' \notin {"sending", "send_end"}
    BY <2>4 DEF InSend
  <2>6. /\ accepted \in Nat /\ done \in Nat
        /\ accepted = done + (IF worker = "send_publish" THEN 1 ELSE 0)
    BY <1>2 DEF Inv, TxInv, Types
  <2>7. accepted' = done' + 1 + (IF worker' = "send_publish" THEN 1 ELSE 0)
    BY <1>1, <1>2, <2>6
  <2> QED BY <1>2, <2>3, <2>4, <2>5, <2>7 DEF TxInv
<1> QED BY <1>3, <1>5, <1>6 DEF Kept

LEMMA SubmitStep ==
    ASSUME Inv, NEW t \in Threads, Submit(t)
    PROVE  Kept
<1>1. UNCHANGED <<started, joined, join_pending, tx_pending, tx, worker, result, join_stop, orphaned, accepted, done, stack>>
  BY DEF Submit, flags, history
<1>2. pc[t] = "submit" /\ pc' = [pc EXCEPT ![t] = Idle] /\ DOMAIN pc = Threads
  BY DEF Submit, Inv, Types
<1>3. /\ QueueOK' /\ work'["join"] = work["join"]
      /\ work'["send"] = IF work["send"] \subseteq {"running"} THEN work["send"] \cup {"queued"} ELSE work["send"]
  BY ScheduleStep DEF Submit, Work, Inv, QueueInv
<1>4. t \in Submitting /\ Submitting = {t} /\ tx_pending /\ ~SendQueued /\ ~InSend
  BY <1>2 DEF Submitting, Inv, TxInv
<1>5. work["send"] \subseteq {"running"} /\ work'["send"] \subseteq {"queued", "running"} /\ SendQueued'
  BY <1>3, <1>4 DEF Inv, QueueInv, SendQueued
<1>6. QueueInv'
  <2>1. OneWait'
    BY ScheduleOneWait DEF Submit, Work, Inv, QueueInv
  <2> QED BY <1>1, <1>3, <1>5, <2>1 DEF Inv, QueueInv, InJoinItem, InJoin, JoinWaits
<1>7. JoinInv'
  BY <1>1, <1>3 DEF Inv, JoinInv, InJoin, JoinWaits, JoinKeptUp
<1>8. TxInv'
  <2>1. Submitting' = {}
    BY <1>2, <1>4 DEF Submitting, Idle
  <2>2. ~InSend' /\ worker' \notin {"sending", "send_end"}
    BY <1>1, <1>4 DEF InSend
  <2> QED BY <1>1, <1>4, <1>5, <2>1, <2>2 DEF Inv, TxInv
<1> QED BY <1>6, <1>7, <1>8 DEF Kept

LEMMA ClockStep ==
    ASSUME Inv, NEW t \in Threads, NEW clock \in BOOLEAN, NEW frag \in BOOLEAN,
           zephyr_fuota_start_clock_sync(t, clock, frag)
    PROVE  Kept
<1>1. UNCHANGED <<started, joined, join_pending, tx_pending, tx, worker, result, join_stop, orphaned, accepted, done, pc>>
  BY DEF zephyr_fuota_start_clock_sync, Stay, flags, history
<1>2. stack'.session = stack.session
  BY DEF zephyr_fuota_start_clock_sync, Inv, Types
<1>3. QueueOK' /\ OneWait' /\ work'["join"] = work["join"] /\ work'["send"] = work["send"]
  <2>1. CASE clock
    BY <2>1, ScheduleStep, ScheduleOneWait DEF zephyr_fuota_start_clock_sync, Work, Inv, QueueInv
  <2>2. CASE ~clock
    BY <2>2 DEF zephyr_fuota_start_clock_sync, Inv, QueueInv, QueueOK, OneWait
  <2> QED BY <2>1, <2>2
<1>4. QueueInv'
  BY <1>1, <1>3 DEF Inv, QueueInv, InJoinItem, InJoin, JoinWaits
<1>5. JoinInv'
  BY <1>1, <1>2, <1>3 DEF Inv, JoinInv, InJoin, JoinWaits, JoinKeptUp
<1>6. TxInv'
  BY <1>1, <1>3, TxStays DEF Inv, InSend, SendQueued, Submitting
<1> QED BY <1>4, <1>5, <1>6 DEF Kept

LEMMA ExpireStep ==
    ASSUME Inv, NEW w \in Work, Expire(w)
    PROVE  Kept
<1>1. UNCHANGED <<started, joined, join_pending, tx_pending, tx, worker, result, join_stop, orphaned, accepted, done, pc, stack>>
  BY DEF Expire, flags, caller, history
<1>2. /\ work \in [Work -> SUBSET Flags] /\ "delayed" \in work[w]
      /\ work' = [work EXCEPT ![w] = (@ \ {"delayed"}) \cup {"queued"}]
      /\ queue' = Append(queue, w)
  BY DEF Expire, Inv, Types, TypeOK
<1>3. /\ work' \in [Work -> SUBSET Flags] /\ "queued" \in work'[w] /\ \A v \in Work \ {w} : work'[v] = work[v]
      /\ work'[w] = (work[w] \ {"delayed"}) \cup {"queued"}
  BY <1>2 DEF Flags
<1>4. "queued" \notin work[w] /\ w # "send"
  BY <1>2 DEF Inv, QueueInv, OneWait
<1>5. work'["send"] = work["send"]
  BY <1>3, <1>4 DEF Work
<1>6. JoinWaits' <=> JoinWaits
  BY <1>2, <1>3 DEF JoinWaits, Work
<1>7. \A f \in {"running", "canceling"} : f \in work'["join"] <=> f \in work["join"]
  BY <1>3 DEF Work
<1>8. QueueInv'
  <2>1. QueueOK'
    BY <1>2, <1>3, <1>4, AppendStep DEF Inv, QueueInv
  <2>2. OneWait'
    BY <1>3 DEF Inv, QueueInv, OneWait
  <2> QED BY <1>1, <1>5, <1>6, <1>7, <2>1, <2>2 DEF Inv, QueueInv, InJoinItem, InJoin
<1>9. JoinInv'
  <2>1. JoinKeptUp'
    BY <1>1, <1>6 DEF Inv, JoinInv, JoinKeptUp, JoinWaits, InJoin
  <2> QED BY <1>1, <1>6, <2>1 DEF Inv, JoinInv, InJoin
<1>10. TxInv'
  BY <1>1, <1>5, TxStays DEF Inv, InSend, SendQueued, Submitting
<1> QED BY <1>8, <1>9, <1>10 DEF Kept

LEMMA TakeStep ==
    ASSUME Inv, Take
    PROVE  Kept
<1> DEFINE w == Head(queue)
<1>1. UNCHANGED <<started, joined, join_pending, tx_pending, tx, result, join_stop, orphaned, accepted, done, pc, stack>>
  BY DEF Take, flags, caller, history
<1>2. /\ worker = Idle /\ queue # <<>> /\ work \in [Work -> SUBSET Flags] /\ queue \in Seq(Work)
      /\ work' = [work EXCEPT ![w] = (@ \ {"queued"}) \cup {"running"}] /\ queue' = Tail(queue)
      /\ worker' = [join |-> "join_start", send |-> "send_start", clock |-> "clock_poll"][w]
  BY DEF Take, Inv, Types, TypeOK
<1>3. w \in Work
  BY <1>2
<1>4. /\ work' \in [Work -> SUBSET Flags] /\ \A v \in Work \ {w} : work'[v] = work[v]
      /\ work'[w] = (work[w] \ {"queued"}) \cup {"running"}
  BY <1>2, <1>3 DEF Flags
<1>5. "queued" \in work[w] /\ QueueOK'
  BY <1>2, <1>4, TailStep DEF Inv, QueueInv
<1>6. OneWait'
  BY <1>4 DEF Inv, QueueInv, OneWait
<1>7. ~InJoin /\ ~InSend /\ ~InJoinItem /\ worker # "send_publish" /\ worker \notin {"joining", "join_end"}
  BY <1>2 DEF InJoin, InSend, InJoinItem, Idle
<1> HIDE DEF w
<1>8. CASE w = "join"
  <2>1. worker' = "join_start" /\ JoinWaits /\ join_pending /\ work'["send"] = work["send"]
    BY <1>2, <1>4, <1>5, <1>8 DEF JoinWaits, Inv, JoinInv, Work
  <2>2. work'["join"] = (work["join"] \ {"queued"}) \cup {"running"}
    BY <1>4, <1>8
  <2>3. ~JoinWaits'
    BY <1>5, <1>8, <2>2 DEF Inv, QueueInv, OneWait, JoinWaits, Work
  <2>4. QueueInv'
    BY <1>1, <1>5, <1>6, <1>8, <2>1, <2>2, <2>3 DEF Inv, QueueInv, InJoinItem, InJoin, JoinWaits
  <2>5. JoinInv'
    BY <1>1, <1>7, <2>1, <2>3 DEF Inv, JoinInv, InJoin, JoinKeptUp
  <2>6. TxInv'
    BY <1>1, <1>7, <2>1, TxStays DEF Inv, InSend, SendQueued, Submitting
  <2> QED BY <2>4, <2>5, <2>6 DEF Kept
<1>9. CASE w = "send"
  <2>1. worker' = "send_start" /\ SendQueued /\ work'["join"] = work["join"]
    BY <1>2, <1>4, <1>5, <1>9 DEF SendQueued, Work
  <2>2. work'["send"] = (work["send"] \ {"queued"}) \cup {"running"}
    BY <1>4, <1>9
  <2>3. ~InJoin' /\ ~InJoinItem' /\ InSend' /\ ~SendQueued'
    BY <2>1, <2>2 DEF InJoin, InJoinItem, InSend, SendQueued
  <2>4. QueueInv'
    BY <1>1, <1>5, <1>6, <2>1, <2>2, <2>3 DEF Inv, QueueInv, JoinWaits
  <2>5. JoinInv'
    BY <1>1, <1>7, <2>1, <2>3 DEF Inv, JoinInv, JoinWaits, JoinKeptUp
  <2>6. TxInv'
    <3>1. Submitting' = Submitting /\ Submitting = {} /\ tx_pending
      BY <1>1, <2>1 DEF Submitting, Inv, TxInv
    <3> QED BY <1>1, <1>7, <2>1, <2>3, <3>1 DEF Inv, TxInv
  <2> QED BY <2>4, <2>5, <2>6 DEF Kept
<1>10. CASE w = "clock"
  <2>1. worker' = "clock_poll" /\ work'["join"] = work["join"] /\ work'["send"] = work["send"]
    BY <1>2, <1>4, <1>10 DEF Work
  <2>2. ~InJoin' /\ ~InJoinItem' /\ ~InSend'
    BY <2>1 DEF InJoin, InJoinItem, InSend
  <2>3. QueueInv'
    BY <1>1, <1>5, <1>6, <2>1, <2>2 DEF Inv, QueueInv, JoinWaits
  <2>4. JoinInv'
    BY <1>1, <1>7, <2>1, <2>2 DEF Inv, JoinInv, JoinWaits, JoinKeptUp
  <2>5. TxInv'
    BY <1>1, <1>7, <2>1, <2>2, TxStays DEF Inv, SendQueued, Submitting
  <2> QED BY <2>3, <2>4, <2>5 DEF Kept
<1> QED BY <1>3, <1>8, <1>9, <1>10 DEF Work

\* The worker goes on and the work items stay.
LEMMA ItemsStay ==
    ASSUME QueueInv, UNCHANGED <<work, queue, join_stop>>, InJoinItem' => InJoinItem, InJoin' => InJoin
    PROVE  QueueInv'
BY DEF QueueInv, QueueOK, OneWait, JoinWaits

LEMMA ReturnStep ==
    ASSUME Inv, Return
    PROVE  Kept
<1>1. UNCHANGED <<started, joined, join_pending, tx_pending, tx, queue, join_stop, orphaned, accepted, done, pc, stack>>
  BY DEF Return, flags, caller, history
<1>2. worker = "return" /\ worker' = Idle /\ work' = [w \in Work |-> work[w] \ {"running", "canceling"}]
  BY DEF Return
<1>3. work \in [Work -> SUBSET Flags]
  BY DEF Inv, Types, TypeOK
<1>4. /\ work' \in [Work -> SUBSET Flags]
      /\ \A w \in Work : work'[w] = work[w] \ {"running", "canceling"}
  BY <1>2, <1>3
<1>5. /\ work'["join"] = work["join"] \ {"running", "canceling"}
      /\ work'["send"] = work["send"] \ {"running", "canceling"}
  BY <1>4 DEF Work
<1>6. (JoinWaits' <=> JoinWaits) /\ (SendQueued' <=> SendQueued)
  BY <1>5 DEF JoinWaits, SendQueued
<1>7. ~InJoin /\ ~InSend /\ ~InJoinItem /\ ~InJoin' /\ ~InSend' /\ ~InJoinItem' /\ worker' # "send_publish"
  BY <1>2 DEF InJoin, InSend, InJoinItem, Idle
<1>8. QueueInv'
  <2>1. QueueOK'
    BY <1>1, <1>4, FlagsStep DEF Inv, QueueInv
  <2>2. OneWait'
    BY <1>4 DEF Inv, QueueInv, OneWait
  <2> QED BY <1>5, <1>7, <2>1, <2>2 DEF Inv, QueueInv
<1>9. JoinInv'
  <2>1. JoinKeptUp'
    BY <1>1, <1>6, <1>7 DEF Inv, JoinInv, JoinKeptUp, JoinWaits
  <2> QED BY <1>1, <1>2, <1>6, <1>7, <2>1 DEF Inv, JoinInv, Idle
<1>10. TxInv'
  BY <1>1, <1>2, <1>6, <1>7, TxStays DEF Inv, Submitting, Idle
<1> QED BY <1>8, <1>9, <1>10 DEF Kept

LEMMA JoinStoppedStep ==
    ASSUME Inv, JoinStopped
    PROVE  Kept
<1>1. UNCHANGED <<started, joined, tx_pending, tx, work, queue, result, join_stop, orphaned, accepted, done, pc, stack>>
  BY DEF JoinStopped, caller, history
<1>2. worker = "join_start" /\ worker' = "return" /\ ~join_pending'
  BY DEF JoinStopped
<1>3. InJoin /\ ~InSend /\ ~InJoin' /\ ~InSend' /\ ~InJoinItem'
  BY <1>2 DEF InJoin, InSend, InJoinItem
<1>4. QueueInv'
  BY <1>1, <1>3, ItemsStay DEF Inv
<1>5. JoinInv'
  <2>1. ~JoinWaits'
    BY <1>1, <1>3 DEF Inv, JoinInv, JoinWaits
  <2> QED BY <1>1, <1>2, <1>3, <2>1 DEF Inv, JoinInv, JoinKeptUp
<1>6. TxInv'
  BY <1>1, <1>2, <1>3, TxStays DEF Inv, SendQueued, Submitting
<1> QED BY <1>4, <1>5, <1>6 DEF Kept

LEMMA JoinStartStep ==
    ASSUME Inv, NEW otaa \in BOOLEAN, JoinStart(otaa)
    PROVE  Kept
<1>1. UNCHANGED <<started, joined, join_pending, tx_pending, tx, work, queue, join_stop, orphaned, accepted, done, pc>>
  BY DEF JoinStart, flags, caller
<1>2. worker = "join_start" /\ worker' = "joining" /\ ~stack'.session
  BY DEF JoinStart, Inv, Types
<1>3. InJoin /\ ~InSend /\ InJoin' /\ ~InSend' /\ InJoinItem
  BY <1>2 DEF InJoin, InSend, InJoinItem
<1>4. QueueInv'
  BY <1>1, <1>3, ItemsStay DEF Inv
<1>5. JoinInv'
  BY <1>1, <1>2, <1>3 DEF Inv, JoinInv, JoinWaits, JoinKeptUp
<1>6. TxInv'
  BY <1>1, <1>2, <1>3, TxStays DEF Inv, SendQueued, Submitting
<1> QED BY <1>4, <1>5, <1>6 DEF Kept

LEMMA JoiningStep ==
    ASSUME Inv, NEW ok \in BOOLEAN, Joining(ok)
    PROVE  Kept
<1>1. UNCHANGED <<started, joined, join_pending, tx_pending, tx, work, queue, join_stop, orphaned, accepted, done, pc>>
  BY DEF Joining, flags, caller
<1>2. worker = "joining" /\ worker' = "join_end" /\ (stack'.session <=> ok) /\ (result' = 0 <=> ok)
  BY DEF Joining, Inv, Types
<1>3. InJoin /\ ~InSend /\ InJoin' /\ ~InSend' /\ InJoinItem
  BY <1>2 DEF InJoin, InSend, InJoinItem
<1>4. QueueInv'
  BY <1>1, <1>3, ItemsStay DEF Inv
<1>5. JoinInv'
  BY <1>1, <1>2, <1>3 DEF Inv, JoinInv, JoinWaits, JoinKeptUp
<1>6. TxInv'
  BY <1>1, <1>2, <1>3 DEF Inv, TxInv, SendQueued, Submitting
<1> QED BY <1>4, <1>5, <1>6 DEF Kept

LEMMA JoinEndStep ==
    ASSUME Inv, JoinEnd
    PROVE  Kept
<1>1. UNCHANGED <<started, tx_pending, tx, result, join_stop, orphaned, accepted, done, pc, stack>>
  BY DEF JoinEnd, caller, history
<1>2. worker = "join_end" /\ worker' \in {"return", "join_publish"} /\ (joined' <=> result = 0)
  BY DEF JoinEnd
<1>3. /\ InJoin /\ ~InSend /\ ~InJoin' /\ ~InSend' /\ InJoinItem /\ join_pending /\ ~tx_pending /\ ~JoinWaits
      /\ "running" \in work["join"] /\ started
  BY <1>2 DEF InJoin, InSend, InJoinItem, Inv, JoinInv, QueueInv
<1>4. joined' <=> stack'.session
  BY <1>1, <1>2 DEF Inv, JoinInv
<1>5. CASE result = 0 \/ join_stop
  <2>1. ~join_pending' /\ UNCHANGED <<work, queue>>
    BY <1>5 DEF JoinEnd
  <2>2. QueueInv'
    BY <1>1, <1>3, <2>1, ItemsStay DEF Inv
  <2>3. ~JoinWaits'
    BY <1>3, <2>1 DEF JoinWaits
  <2>4. JoinInv'
    BY <1>1, <1>2, <1>3, <1>4, <2>1, <2>3 DEF Inv, JoinInv, JoinKeptUp
  <2>5. TxInv'
    BY <1>1, <1>2, <1>3, <2>1, TxStays DEF Inv, SendQueued, Submitting
  <2> QED BY <2>2, <2>4, <2>5 DEF Kept
<1>6. CASE ~(result = 0 \/ join_stop)
  <2>1. Schedule("join", "delayed") /\ join_pending' = join_pending
    BY <1>6 DEF JoinEnd
  <2>2. /\ QueueOK' /\ OneWait' /\ work'["send"] = work["send"]
        /\ work'["join"] = IF work["join"] \subseteq {"running"} THEN work["join"] \cup {"delayed"} ELSE work["join"]
    BY <2>1, ScheduleStep, ScheduleOneWait DEF Work, Inv, QueueInv
  <2>3. "canceling" \notin work["join"] /\ "canceling" \notin work'["join"]
    BY <1>3, <1>6, <2>2 DEF Inv, QueueInv
  <2>4. QueueInv'
    BY <1>3, <2>2, <2>3 DEF Inv, QueueInv
  <2>5. JoinKeptUp'
    <3>1. CASE work["join"] \subseteq {"running"}
      BY <2>2, <3>1 DEF JoinKeptUp
    <3>2. work["join"] \subseteq {"running"}
      <4>1. work["join"] \in SUBSET Flags
        BY DEF Inv, Types, TypeOK, Work
      <4> QED BY <1>3, <2>3, <4>1 DEF JoinWaits, Flags
    <3> QED BY <3>1, <3>2
  <2>6. JoinInv'
    BY <1>1, <1>2, <1>3, <1>4, <2>1, <2>5 DEF Inv, JoinInv
  <2>7. TxInv'
    BY <1>1, <1>2, <1>3, <2>2, TxStays DEF Inv, SendQueued, Submitting
  <2> QED BY <2>4, <2>6, <2>7 DEF Kept
<1> QED BY <1>5, <1>6

LEMMA JoinPublishStep ==
    ASSUME Inv, JoinPublish
    PROVE  Kept
<1>1. UNCHANGED <<started, joined, join_pending, tx_pending, tx, work, queue, result, join_stop, orphaned, accepted, done, pc, stack>>
  BY DEF JoinPublish, flags, caller, history
<1>2. worker = "join_publish" /\ worker' = "return"
  BY DEF JoinPublish
<1>3. ~InJoin /\ ~InSend /\ ~InJoin' /\ ~InSend' /\ ~InJoinItem'
  BY <1>2 DEF InJoin, InSend, InJoinItem
<1>4. QueueInv'
  BY <1>1, <1>3, ItemsStay DEF Inv
<1>5. JoinInv'
  BY <1>1, <1>2, <1>3 DEF Inv, JoinInv, JoinWaits, JoinKeptUp
<1>6. TxInv'
  BY <1>1, <1>2, <1>3, TxStays DEF Inv, SendQueued, Submitting
<1> QED BY <1>4, <1>5, <1>6 DEF Kept

LEMMA UplinkStep ==
    ASSUME Inv, SendStart \/ Sending
    PROVE  Kept
<1>1. UNCHANGED <<started, joined, join_pending, tx_pending, tx, work, queue, join_stop, orphaned, accepted, done, pc, stack>>
  BY DEF SendStart, Sending, flags, caller, history
<1>2. \/ worker = "send_start" /\ worker' = "sending" /\ result' = tx
      \/ worker = "sending" /\ worker' = "send_end" /\ result' = result
  BY DEF SendStart, Sending
<1>3. ~InJoin /\ InSend /\ ~InJoin' /\ InSend' /\ ~InJoinItem' /\ worker # "send_publish" /\ worker' # "send_publish"
  BY <1>2 DEF InJoin, InSend, InJoinItem
<1>4. QueueInv'
  BY <1>1, <1>3, ItemsStay DEF Inv
<1>5. JoinInv'
  BY <1>1, <1>2, <1>3 DEF Inv, JoinInv, JoinWaits, JoinKeptUp
<1>6. TxInv'
  <2>1. (SendQueued' <=> SendQueued) /\ Submitting' = Submitting
    BY <1>1 DEF SendQueued, Submitting
  <2>2. result' = tx'
    BY <1>1, <1>2 DEF Inv, TxInv
  <2> QED BY <1>1, <1>3, <2>1, <2>2 DEF Inv, TxInv
<1> QED BY <1>4, <1>5, <1>6 DEF Kept

LEMMA SendEndStep ==
    ASSUME Inv, SendEnd
    PROVE  Kept
<1>1. UNCHANGED <<started, joined, join_pending, tx, work, queue, result, join_stop, orphaned, accepted, done, pc, stack>>
  BY DEF SendEnd, caller, history
<1>2. worker = "send_end" /\ worker' = "send_publish" /\ ~tx_pending'
  BY DEF SendEnd
<1>3. ~InJoin /\ InSend /\ ~InJoin' /\ ~InSend' /\ ~InJoinItem'
  BY <1>2 DEF InJoin, InSend, InJoinItem
<1>4. QueueInv'
  BY <1>1, <1>3, ItemsStay DEF Inv
<1>5. JoinInv'
  BY <1>1, <1>2, <1>3 DEF Inv, JoinInv, JoinWaits, JoinKeptUp
<1>6. TxInv'
  <2>1. (SendQueued' <=> SendQueued) /\ Submitting' = Submitting
    BY <1>1 DEF SendQueued, Submitting
  <2>2. tx_pending /\ ~SendQueued /\ Submitting = {}
    BY <1>3 DEF Inv, TxInv
  <2>3. accepted = done + 1 /\ done \in Nat
    BY <1>2, <2>2 DEF Inv, TxInv, Types
  <2>4. accepted' = done' + (IF tx_pending' THEN 1 ELSE 0) + (IF worker' = "send_publish" THEN 1 ELSE 0)
    BY <1>1, <1>2, <2>3
  <2> QED BY <1>2, <1>3, <2>1, <2>2, <2>4 DEF TxInv
<1> QED BY <1>4, <1>5, <1>6 DEF Kept

LEMMA SendPublishStep ==
    ASSUME Inv, SendPublish
    PROVE  Kept
<1>1. UNCHANGED <<started, joined, join_pending, tx_pending, tx, work, queue, result, join_stop, orphaned, accepted, pc, stack>>
  BY DEF SendPublish, flags, caller
<1>2. worker = "send_publish" /\ worker' = "return" /\ done' = done + 1
  BY DEF SendPublish
<1>3. ~InJoin /\ ~InSend /\ ~InJoin' /\ ~InSend' /\ ~InJoinItem'
  BY <1>2 DEF InJoin, InSend, InJoinItem
<1>4. QueueInv'
  BY <1>1, <1>3, ItemsStay DEF Inv
<1>5. JoinInv'
  BY <1>1, <1>2, <1>3 DEF Inv, JoinInv, JoinWaits, JoinKeptUp
<1>6. TxInv'
  <2>1. (SendQueued' <=> SendQueued) /\ Submitting' = Submitting
    BY <1>1 DEF SendQueued, Submitting
  <2>2. accepted = done + (IF tx_pending THEN 1 ELSE 0) + 1 /\ done \in Nat
    BY <1>2 DEF Inv, TxInv, Types
  <2>3. accepted' = done' + (IF tx_pending' THEN 1 ELSE 0) + (IF worker' = "send_publish" THEN 1 ELSE 0)
    BY <1>1, <1>2, <2>2
  <2> QED BY <1>1, <1>2, <1>3, <2>1, <2>3 DEF Inv, TxInv
<1> QED BY <1>4, <1>5, <1>6 DEF Kept

LEMMA ClockPollStep ==
    ASSUME Inv, ClockPoll
    PROVE  Kept
<1>1. UNCHANGED <<started, joined, join_pending, tx_pending, tx, result, join_stop, orphaned, accepted, done, pc, stack>>
  BY DEF ClockPoll, flags, caller, history
<1>2. worker = "clock_poll" /\ worker' = "return"
  BY DEF ClockPoll
<1>3. ~InJoin /\ ~InSend /\ ~InJoin' /\ ~InSend' /\ ~InJoinItem'
  BY <1>2 DEF InJoin, InSend, InJoinItem
<1>4. QueueOK' /\ OneWait' /\ work'["join"] = work["join"] /\ work'["send"] = work["send"]
  <2>1. CASE ~stack.time /\ clock_poll_left > 0
    BY <2>1, ScheduleStep, ScheduleOneWait DEF ClockPoll, Work, Inv, QueueInv
  <2>2. CASE ~(~stack.time /\ clock_poll_left > 0)
    BY <2>2 DEF ClockPoll, Inv, QueueInv, QueueOK, OneWait
  <2> QED BY <2>1, <2>2
<1>5. QueueInv'
  BY <1>1, <1>3, <1>4 DEF Inv, QueueInv, JoinWaits
<1>6. JoinInv'
  BY <1>1, <1>2, <1>3, <1>4 DEF Inv, JoinInv, JoinWaits, JoinKeptUp
<1>7. TxInv'
  BY <1>1, <1>2, <1>3, <1>4, TxStays DEF Inv, SendQueued, Submitting
<1> QED BY <1>5, <1>6, <1>7 DEF Kept

-----------------------------------------------------------------------------
(* The invariant *)

LEMMA InvInit == Init => Inv
<1> SUFFICES ASSUME Init PROVE Inv
  OBVIOUS
<1>1. /\ started = FALSE /\ joined = FALSE /\ join_pending = FALSE /\ join_stop = FALSE /\ tx_pending = FALSE
      /\ adr_enabled = TRUE /\ orphaned = FALSE
  BY DEF Init
<1>2. work = [w \in Work |-> {}] /\ queue = <<>> /\ worker = "idle" /\ stack.session = FALSE
  BY DEF Init, Idle
<1>3. QueueInv
  BY <1>2 DEF QueueInv, QueueOK, OneWait, InJoinItem, JoinWaits, Work, Flags
<1>4. JoinInv
  BY <1>1, <1>2 DEF JoinInv, JoinKeptUp, InJoin, JoinWaits, Work
<1>5. TxInv
  <2>1. Submitting = {}
    BY DEF Init, Submitting, Idle
  <2>2. ~SendQueued /\ ~InSend /\ worker # "send_publish" /\ worker \notin {"sending", "send_end"}
    BY <1>2 DEF SendQueued, InSend, Work
  <2>3. accepted = 0 /\ done = 0
    BY DEF Init
  <2> QED BY <1>1, <2>1, <2>2, <2>3 DEF TxInv
<1>6. TypeOK
  <2>1. \A b \in {started, joined, join_pending, join_stop, tx_pending, adr_enabled} : b \in BOOLEAN
    BY <1>1
  <2>2. 0 \in uplink_data_rates(Region)
    BY DEF uplink_data_rates
  <2>3. work \in [Work -> SUBSET Flags] /\ queue \in Seq(Work)
    BY <1>3 DEF QueueInv, QueueOK
  <2>4. next_dev_nonce \in 0..(NonceModulus - 1) /\ clock_poll_left \in 0..ClockTries
    BY ZephyrAssumption DEF Init
  <2> QED BY <2>1, <2>2, <2>3, <2>4 DEF TypeOK, Init, Classes
<1>7. Types
  <2>1. orphaned \in BOOLEAN
    BY <1>1
  <2>2. /\ accepted \in Nat /\ done \in Nat /\ calls \in 0..MaxCalls /\ fails \in 0..MaxFails
        /\ client \in Clients /\ DOMAIN pc = Threads /\ arg \in [Threads -> Classes]
    BY ZephyrAssumption DEF Init, Classes
  <2>3. worker \in WorkerSteps
    BY <1>2 DEF WorkerSteps, Idle
  <2>4. stack \in [session : BOOLEAN, class : Classes, adr : BOOLEAN, rate : Int, frag : BOOLEAN, time : BOOLEAN]
    BY DEF Init, Classes
  <2> QED BY <1>6, <2>1, <2>2, <2>3, <2>4 DEF Types
<1> QED BY <1>3, <1>4, <1>5, <1>7 DEF Inv

LEMMA KeptNext ==
    ASSUME Inv, Next
    PROVE  Kept
<1>1. ASSUME NEW t \in Threads, NEW c \in Classes, zephyr_set_class(t, c) PROVE Kept
  <2>1. stack'.session = stack.session
    BY <1>1 DEF zephyr_set_class, Inv, Types
  <2>2. Submitting' = Submitting
    BY <1>1 DEF zephyr_set_class, Begin, Submitting, Inv, Types, Idle
  <2> QED BY <1>1, <2>1, <2>2, QuietStep DEF zephyr_set_class, flags, kernel, history
<1>2. ASSUME NEW t \in Threads, NoteClass(t) PROVE Kept
  <2>1. Submitting' = Submitting
    BY <1>2 DEF NoteClass, Submitting, Inv, Types, Idle
  <2> QED BY <1>2, <2>1, QuietStep DEF NoteClass, flags, kernel, history
<1>3. ASSUME NEW t \in Threads, NEW on \in BOOLEAN, zephyr_set_adr(t, on) PROVE Kept
  <2>1. stack'.session = stack.session
    BY <1>3 DEF zephyr_set_adr, Inv, Types
  <2> QED BY <1>3, <2>1, QuietStep DEF zephyr_set_adr, Stay, Submitting, flags, kernel, history
<1>4. ASSUME NEW t \in Threads, NEW r \in Rates, zephyr_set_data_rate(t, r) PROVE Kept
  <2>1. stack'.session = stack.session
    BY <1>4 DEF zephyr_set_data_rate, Inv, Types
  <2> QED BY <1>4, <2>1, QuietStep DEF zephyr_set_data_rate, Stay, Submitting, flags, kernel, history
<1>5. ASSUME NEW t \in Threads, NEW n \in {0, 2}, zephyr_set_dev_nonce(t, n) PROVE Kept
  BY <1>5, QuietStep DEF zephyr_set_dev_nonce, Stay, Submitting, flags, kernel
<1>6. ASSUME NEW r \in Rates, LinkAdr(r) PROVE Kept
  <2>1. stack'.session = stack.session
    BY <1>6 DEF LinkAdr, Inv, Types
  <2> QED BY <1>6, <2>1, QuietStep DEF LinkAdr, Submitting, flags, kernel, caller, history
<1>7. CASE TimeAnswer
  <2>1. stack'.session = stack.session
    BY <1>7 DEF TimeAnswer, Inv, Types
  <2> QED BY <1>7, <2>1, QuietStep DEF TimeAnswer, Submitting, flags, kernel, caller, history
<1>8. CASE zephyr_start
  BY <1>8, StartStep
<1>9. CASE \E w \in Work : Expire(w)
  BY <1>9, ExpireStep
<1>10. CASE WorkerStep
  BY <1>10, TakeStep, ReturnStep, JoinStoppedStep, JoinStartStep, JoiningStep, JoinEndStep, JoinPublishStep,
     UplinkStep, SendEndStep, SendPublishStep, ClockPollStep DEF WorkerStep
<1>11. ASSUME NEW t \in Threads,
              zephyr_join(t) \/ zephyr_leave(t) \/ Submit(t) \/ \E p \in Payloads : zephyr_send(t, p)
       PROVE  Kept
  BY <1>11, JoinStep, LeaveStep, SubmitStep, SendStep
<1>12. ASSUME NEW t \in Threads, NEW clock \in BOOLEAN, NEW frag \in BOOLEAN,
              zephyr_fuota_start_clock_sync(t, clock, frag)
       PROVE  Kept
  BY <1>12, ClockStep
<1> QED BY <1>1, <1>2, <1>3, <1>4, <1>5, <1>6, <1>7, <1>8, <1>9, <1>10, <1>11, <1>12 DEF Next

LEMMA InvNext ==
    ASSUME Inv, [Next]_vars
    PROVE  Inv'
<1>1. CASE Next
  <2>1. Kept
    BY <1>1, KeptNext
  <2>2. Types
    BY DEF Inv
  <2>3. \A b \in {started', joined', join_pending', join_stop', tx_pending', adr_enabled'} : b \in BOOLEAN
    BY <1>1, <2>2, FlagTypes, Zenon
  <2>4. TypeOK'
    <3>1. work' \in [Work -> SUBSET Flags] /\ queue' \in Seq(Work)
      BY <2>1 DEF Kept, QueueInv, QueueOK
    <3> QED BY <1>1, <2>2, <2>3, <3>1, DataTypes, CountTypes DEF TypeOK
  <2>5. Types'
    BY <1>1, <2>2, <2>4, FlagTypes, DataTypes, CountTypes, StackTypes, Zenon DEF Types
  <2> QED BY <2>1, <2>5 DEF Kept, Inv
<1>2. CASE UNCHANGED vars
  <2>1. UNCHANGED <<started, joined, join_pending, join_stop, tx_pending, tx, next_dev_nonce, device_class,
                    adr_enabled, data_rate, clock_poll_left, work, queue, worker, result, client, pc, arg, calls,
                    stack, join_stop, orphaned, accepted, done, fails>>
    BY <1>2 DEF vars, flags, features, fuota, kernel, caller, history
  <2>2. Kept
    BY <2>1, QuietStep DEF Submitting
  <2>3. Types'
    BY <2>1 DEF Inv, Types, TypeOK
  <2> QED BY <2>2, <2>3 DEF Kept, Inv
<1> QED BY <1>1, <1>2

\* The flags of the backend, its work items and the stack fit together.
LEMMA InvConsistent == Inv => BackendConsistent
<1> SUFFICES ASSUME Inv PROVE BackendConsistent
  OBVIOUS
<1>1. TxOwned
  <2>1. \/ Submitting = {} /\ Cardinality(Submitting) = 0
        \/ Submitting # {} /\ Cardinality(Submitting) = 1
    <3>1. CASE Submitting = {}
      BY <3>1, FS_EmptySet
    <3>2. CASE Submitting # {}
      <4>1. PICK t \in Threads : Submitting = {t}
        BY <3>2 DEF Inv, TxInv, Submitting
      <4> QED BY <3>2, <4>1, FS_Singleton
    <3> QED BY <3>1, <3>2
  <2>2. Cardinality(Submitting) + (IF SendQueued THEN 1 ELSE 0) + (IF InSend THEN 1 ELSE 0)
        = (IF tx_pending THEN 1 ELSE 0)
    BY <2>1 DEF Inv, TxInv
  <2> QED BY <2>2 DEF Inv, TxInv, TxOwned, Submitting, SendQueued
<1>2. SendHasSession
  <2>1. tx_pending => stack.session /\ ~InJoin
    BY DEF Inv, JoinInv
  <2>2. ASSUME ~join_pending, ~InJoin PROVE joined = stack.session
    <3>1. joined <=> stack.session
      BY <2>2 DEF Inv, JoinInv, InJoin
    <3>2. joined \in BOOLEAN /\ stack.session \in BOOLEAN
      BY DEF Inv, Types, TypeOK
    <3> QED BY <3>1, <3>2
  <2> QED BY <2>1, <2>2 DEF SendHasSession
<1> QED BY <1>1, <1>2 DEF Inv, Types, JoinInv, BackendConsistent

\* The flags of the Zephyr backend, its work items and the stack fit together at every step, for
\* any threads and any number of calls: an accepted uplink has one owner and a session, and a join
\* that leave() did not interrupt has somebody working on it.
THEOREM BackendIsConsistent == Spec => []BackendConsistent
BY InvInit, InvNext, InvConsistent, PTL DEF Spec

-----------------------------------------------------------------------------
(* DevNonces *)

LEMMA SumLeq == \A x, a, b, m \in Int : x + a <= m /\ b <= a => x + b <= m
OBVIOUS

\* A step that takes no DevNonce and brings no request keeps the invariant.
LEMMA NonceStays ==
    ASSUME Inv, NonceInv, UNCHANGED <<next_dev_nonce, used, fails>>, Attempt' => Attempt,
           calls' = calls \/ calls' = calls + 1
    PROVE  NonceInv'
<1>1. calls \in Nat /\ fails \in Nat /\ next_dev_nonce \in Nat /\ MaxCalls \in Nat /\ MaxFails \in Nat
  BY ZephyrAssumption DEF Inv, Types, TypeOK
<1>2. Ahead' <= Ahead /\ Ahead \in Int /\ Ahead' \in Int
  BY <1>1 DEF Ahead
<1>3. next_dev_nonce + Ahead <= 2 + MaxCalls + MaxFails
  BY DEF NonceInv
<1>4. next_dev_nonce' + Ahead' <= 2 + MaxCalls + MaxFails
  <2>1. next_dev_nonce' = next_dev_nonce /\ next_dev_nonce \in Int /\ 2 + MaxCalls + MaxFails \in Int
    BY <1>1
  <2> QED BY <1>2, <1>3, <2>1, SumLeq, Zenon
<1> QED BY <1>4 DEF NonceInv

\* The calls and the steps of the worker that keep the join item as it is.
LEMMA NonceQuiet ==
    ASSUME Inv, NonceInv, UNCHANGED <<next_dev_nonce, used, fails>>, calls' = calls \/ calls' = calls + 1,
           work'["join"] = work["join"],
           \/ UNCHANGED <<worker, result>>
           \/ worker' \notin {"join_start", "join_end"}
    PROVE  NonceInv'
<1>1. Attempt' => Attempt
  BY DEF Attempt, JoinWaits
<1> QED BY <1>1, NonceStays

LEMMA NonceCalls ==
    ASSUME Inv, NonceInv, NEW t \in Threads,
           \/ zephyr_leave(t) \/ Submit(t) \/ NoteClass(t)
           \/ \E p \in Payloads : zephyr_send(t, p)
           \/ \E c \in Classes : zephyr_set_class(t, c)
           \/ \E on \in BOOLEAN : zephyr_set_adr(t, on)
           \/ \E r \in Rates : zephyr_set_data_rate(t, r)
           \/ \E clock, frag \in BOOLEAN : zephyr_fuota_start_clock_sync(t, clock, frag)
    PROVE  NonceInv'
<1>1. CASE zephyr_leave(t)
  <2>1. UNCHANGED <<next_dev_nonce, used, fails, worker, result>> /\ calls' = calls + 1
    BY <1>1 DEF zephyr_leave, Begin, features
  <2>2. work'["join"] = {"running", "canceling"} \/ work'["join"] = {}
    BY <1>1 DEF zephyr_leave, Inv, Types, TypeOK, Work
  <2>3. Attempt' => Attempt
    BY <2>1, <2>2 DEF Attempt, JoinWaits
  <2> QED BY <2>1, <2>3, NonceStays
<1>2. CASE Submit(t)
  <2>1. UNCHANGED <<next_dev_nonce, used, fails, worker, result, calls>>
    BY <1>2 DEF Submit, features, history
  <2>2. work'["join"] = work["join"]
    BY <1>2, ScheduleStep DEF Submit, Work, Inv, QueueInv
  <2> QED BY <2>1, <2>2, NonceQuiet
<1>3. CASE NoteClass(t)
  BY <1>3, NonceQuiet DEF NoteClass, kernel, history
<1>4. ASSUME NEW p \in Payloads, zephyr_send(t, p) PROVE NonceInv'
  BY <1>4, NonceQuiet DEF zephyr_send, Begin, features, kernel
<1>5. ASSUME NEW c \in Classes, zephyr_set_class(t, c) PROVE NonceInv'
  BY <1>5, NonceQuiet DEF zephyr_set_class, Begin, features, kernel, history
<1>6. ASSUME NEW on \in BOOLEAN, zephyr_set_adr(t, on) PROVE NonceInv'
  BY <1>6, NonceQuiet DEF zephyr_set_adr, Begin, kernel, history
<1>7. ASSUME NEW r \in Rates, zephyr_set_data_rate(t, r) PROVE NonceInv'
  BY <1>7, NonceQuiet DEF zephyr_set_data_rate, Begin, kernel, history
<1>8. ASSUME NEW clock \in BOOLEAN, NEW frag \in BOOLEAN, zephyr_fuota_start_clock_sync(t, clock, frag)
      PROVE  NonceInv'
  <2>1. UNCHANGED <<next_dev_nonce, used, fails, worker, result>> /\ calls' = calls + 1
    BY <1>8 DEF zephyr_fuota_start_clock_sync, Begin, features, history
  <2>2. work'["join"] = work["join"]
    <3>1. CASE clock
      BY <1>8, <3>1, ScheduleStep DEF zephyr_fuota_start_clock_sync, Work, Inv, QueueInv
    <3>2. CASE ~clock
      BY <1>8, <3>2 DEF zephyr_fuota_start_clock_sync
    <3> QED BY <3>1, <3>2
  <2> QED BY <2>1, <2>2, NonceQuiet
<1> QED BY <1>1, <1>2, <1>3, <1>4, <1>5, <1>6, <1>7, <1>8

\* The steps of the work queue and of the worker that take no DevNonce.
LEMMA NonceWorker ==
    ASSUME Inv, NonceInv,
           \/ \E w \in Work : Expire(w)
           \/ Take \/ Return \/ JoinStopped \/ JoinEnd \/ JoinPublish
           \/ SendStart \/ Sending \/ SendEnd \/ SendPublish \/ ClockPoll
    PROVE  NonceInv'
<1>0. work \in [Work -> SUBSET Flags] /\ queue \in Seq(Work)
  BY DEF Inv, Types, TypeOK
<1>1. ASSUME NEW w \in Work, Expire(w) PROVE NonceInv'
  <2>1. UNCHANGED <<next_dev_nonce, used, fails, worker, result, calls>>
    BY <1>1 DEF Expire, features, caller, history
  <2>2. JoinWaits' => JoinWaits
    BY <1>0, <1>1 DEF Expire, JoinWaits, Work
  <2> QED BY <2>1, <2>2, NonceStays DEF Attempt
<1>2. CASE Take
  <2>1. UNCHANGED <<next_dev_nonce, used, fails, result, calls>>
    BY <1>2 DEF Take, features, caller, history
  <2>2. Head(queue) \in Work /\ queue # <<>>
    BY <1>0, <1>2 DEF Take
  <2>3. Head(queue) = "join" => JoinWaits
    BY <1>0, <2>2 DEF Inv, QueueInv, QueueOK, JoinWaits
  <2>4. JoinWaits' => JoinWaits
    BY <1>0, <1>2, <2>2, <2>3 DEF Take, JoinWaits, Work
  <2>5. worker' # "join_end" /\ (worker' = "join_start" => Head(queue) = "join")
    BY <1>2, <2>2 DEF Take, Work
  <2> QED BY <2>1, <2>3, <2>4, <2>5, NonceStays DEF Attempt
<1>3. CASE Return
  <2>1. UNCHANGED <<next_dev_nonce, used, fails, calls>> /\ worker' = "idle"
    BY <1>3 DEF Return, features, caller, history, Idle
  <2>2. JoinWaits' => JoinWaits
    BY <1>3 DEF Return, JoinWaits, Work
  <2> QED BY <2>1, <2>2, NonceStays DEF Attempt
<1>4. CASE JoinStopped
  BY <1>4, NonceQuiet DEF JoinStopped, features, caller, history
<1>5. CASE JoinEnd
  <2>1. UNCHANGED <<next_dev_nonce, used, fails, calls>> /\ worker = "join_end" /\ worker' \in {"return", "join_publish"}
    BY <1>5 DEF JoinEnd, features, caller, history
  <2>2. CASE result # 0
    BY <2>1, <2>2, NonceStays DEF Attempt
  <2>3. CASE result = 0
    BY <1>5, <2>1, <2>3, NonceQuiet DEF JoinEnd
  <2> QED BY <2>2, <2>3
<1>6. CASE JoinPublish
  BY <1>6, NonceQuiet DEF JoinPublish, features, caller, history
<1>7. CASE SendStart \/ Sending
  BY <1>7, NonceQuiet DEF SendStart, Sending, features, caller, history
<1>8. CASE SendEnd
  BY <1>8, NonceQuiet DEF SendEnd, features, caller, history
<1>9. CASE SendPublish
  BY <1>9, NonceQuiet DEF SendPublish, features, caller
<1>10. CASE ClockPoll
  <2>1. UNCHANGED <<next_dev_nonce, used, fails, calls>> /\ worker' = "return"
    BY <1>10 DEF ClockPoll, features, caller, history
  <2>2. work'["join"] = work["join"]
    <3>1. CASE ~stack.time /\ clock_poll_left > 0
      BY <1>10, <3>1, ScheduleStep DEF ClockPoll, Work, Inv, QueueInv
    <3>2. CASE ~(~stack.time /\ clock_poll_left > 0)
      BY <1>10, <3>2 DEF ClockPoll
    <3> QED BY <3>1, <3>2
  <2> QED BY <2>1, <2>2, NonceQuiet
<1> QED BY <1>1, <1>2, <1>3, <1>4, <1>5, <1>6, <1>7, <1>8, <1>9, <1>10

\* A join, the first or a retry, spends one of the requests that may still come; a request takes
\* one DevNonce.
LEMMA NonceNext ==
    ASSUME 2 + MaxCalls + MaxFails < NonceModulus, Inv, NonceInv, [Next]_vars
    PROVE  NonceInv'
<1>0. /\ calls \in 0..MaxCalls /\ fails \in 0..MaxFails /\ next_dev_nonce \in 0..(NonceModulus - 1)
      /\ MaxCalls \in Nat /\ MaxFails \in Nat /\ NonceModulus \in Nat
      /\ (\A n \in used : n \in Nat /\ n < next_dev_nonce)
  BY ZephyrAssumption DEF Inv, Types, TypeOK, NonceInv
<1>00. next_dev_nonce + Ahead <= 2 + MaxCalls + MaxFails
  BY DEF NonceInv
<1>1. ASSUME NEW t \in Threads, zephyr_join(t) PROVE NonceInv'
  <2>1. /\ UNCHANGED <<next_dev_nonce, used, fails, worker, result>> /\ calls' = calls + 1 /\ calls < MaxCalls
        /\ ~join_pending
    BY <1>1 DEF zephyr_join, Begin, features
  <2>2. ~Attempt
    BY <2>1 DEF Inv, JoinInv, Attempt, InJoin
  <2>3. Ahead' <= Ahead /\ Ahead \in Int /\ Ahead' \in Int
    BY <1>0, <2>1, <2>2 DEF Ahead
  <2>4. next_dev_nonce' + Ahead' <= 2 + MaxCalls + MaxFails
    <3>1. next_dev_nonce' = next_dev_nonce /\ next_dev_nonce \in Int /\ 2 + MaxCalls + MaxFails \in Int
      BY <1>0, <2>1
    <3> QED BY <1>00, <2>3, <3>1, SumLeq, Zenon
  <2> QED BY <1>0, <2>1, <2>4 DEF NonceInv
<1>2. ASSUME NEW t \in Threads, NEW n \in {0, 2}, zephyr_set_dev_nonce(t, n) PROVE NonceInv'
  <2>1. /\ next_dev_nonce' \in {1, 2} /\ used' = {} /\ UNCHANGED fails /\ calls' = calls + 1
    BY <1>2 DEF zephyr_set_dev_nonce, Begin
  <2>2. PICK b \in {0, 1} : Ahead' = (MaxCalls - (calls + 1)) + (MaxFails - fails) + b
    BY <2>1 DEF Ahead
  <2>3. PICK m \in {1, 2} : next_dev_nonce' = m
    BY <2>1
  <2>4. m + ((MaxCalls - (calls + 1)) + (MaxFails - fails) + b) <= 2 + MaxCalls + MaxFails
    BY <1>0, <2>2, <2>3
  <2>5. next_dev_nonce' + Ahead' <= 2 + MaxCalls + MaxFails
    BY <2>2, <2>3, <2>4, Zenon
  <2> QED BY <2>1, <2>5 DEF NonceInv
<1>3. ASSUME NEW otaa \in BOOLEAN, JoinStart(otaa) PROVE NonceInv'
  <2>1. /\ worker = "join_start" /\ worker' = "joining" /\ UNCHANGED <<work, calls, fails>>
    BY <1>3 DEF JoinStart, caller
  <2>2. Attempt /\ ~Attempt'
    BY <2>1 DEF Inv, JoinInv, InJoin, Attempt, JoinWaits
  <2>3. Ahead' = Ahead - 1 /\ Ahead \in Int /\ Ahead >= 1
    BY <1>0, <2>1, <2>2 DEF Ahead
  <2>5. (next_dev_nonce + 1) % NonceModulus = next_dev_nonce + 1
    BY <1>0, <1>00, <2>3
  <2>6. \/ next_dev_nonce' = next_dev_nonce + 1 /\ used' = used \cup {next_dev_nonce}
        \/ next_dev_nonce' = next_dev_nonce /\ used' = used
    BY <1>3, <2>5 DEF JoinStart, fill_zephyr_join
  <2>7. next_dev_nonce' + Ahead' <= 2 + MaxCalls + MaxFails
    BY <1>0, <1>00, <2>3, <2>6
  <2>8. \A n \in used' : n \in Nat /\ n < next_dev_nonce'
    BY <1>0, <2>6
  <2> QED BY <2>7, <2>8 DEF NonceInv
<1>4. ASSUME NEW ok \in BOOLEAN, Joining(ok) PROVE NonceInv'
  <2>1. /\ worker = "joining" /\ worker' = "join_end" /\ UNCHANGED <<work, calls, next_dev_nonce, used>>
        /\ \/ ok /\ fails' = fails /\ result' = 0
           \/ ~ok /\ fails' = fails + 1
    BY <1>4 DEF Joining, caller, features
  <2>2. ~Attempt /\ ~JoinWaits'
    BY <2>1 DEF Inv, JoinInv, InJoin, Attempt, JoinWaits
  <2>3. ok => ~Attempt'
    BY <2>1, <2>2 DEF Attempt
  <2>4. Ahead' <= Ahead /\ Ahead \in Int /\ Ahead' \in Int
    BY <1>0, <2>1, <2>2, <2>3 DEF Ahead
  <2>5. next_dev_nonce' + Ahead' <= 2 + MaxCalls + MaxFails
    <3>1. next_dev_nonce' = next_dev_nonce /\ next_dev_nonce \in Int /\ 2 + MaxCalls + MaxFails \in Int
      BY <1>0, <2>1
    <3> QED BY <1>00, <2>4, <3>1, SumLeq, Zenon
  <2> QED BY <1>0, <2>1, <2>5 DEF NonceInv
<1>5. CASE zephyr_start
  BY <1>5, NonceQuiet DEF zephyr_start, features, kernel, caller, history
<1>6. CASE (\E r \in Rates : LinkAdr(r)) \/ TimeAnswer \/ UNCHANGED vars
  BY <1>6, NonceQuiet DEF LinkAdr, TimeAnswer, vars, features, kernel, caller, history
<1> QED BY <1>1, <1>2, <1>3, <1>4, <1>5, <1>6, NonceCalls, NonceWorker DEF Next, WorkerStep

\* The request that starts takes a DevNonce that is not among the used ones.
LEMMA FreshStep ==
    ASSUME Inv, NonceInv, [Next]_vars
    PROVE  [worker' = "joining" /\ result' # -1 => result' \notin used]_worker
<1> SUFFICES ASSUME worker' # worker, worker' = "joining", result' # -1 PROVE result' \notin used
  OBVIOUS
<1>1. \E otaa \in BOOLEAN : JoinStart(otaa)
  <2>1. Next
    BY DEF vars, kernel
  <2>2. WorkerStep
    BY <2>1 DEF Next, zephyr_start, zephyr_join, zephyr_leave, zephyr_send, Submit, zephyr_set_class, NoteClass,
       zephyr_set_adr, zephyr_set_data_rate, zephyr_set_dev_nonce, zephyr_fuota_start_clock_sync, Expire, LinkAdr,
       TimeAnswer, kernel
  <2>3. ~Take
    <3> SUFFICES ASSUME Take PROVE FALSE
      OBVIOUS
    <3>1. Head(queue) \in Work
      BY DEF Take, Inv, Types, TypeOK
    <3> QED BY <3>1 DEF Take, Work
  <2> QED BY <2>2, <2>3 DEF WorkerStep, Return, JoinStopped, Joining, JoinEnd, JoinPublish, SendStart, Sending,
         SendEnd, SendPublish, ClockPoll, Idle
<1>2. result' = next_dev_nonce
  BY <1>1 DEF JoinStart, fill_zephyr_join
<1>3. next_dev_nonce \in Int
  BY ZephyrAssumption DEF Inv, Types, TypeOK
<1> QED BY <1>2, <1>3 DEF NonceInv

\* No DevNonce is used for two join requests, retries included, unless the application set it
\* back, as long as the requests do not outnumber the values of the uint16_t counter.
THEOREM NoncesAreFresh ==
    ASSUME 2 + MaxCalls + MaxFails < NonceModulus
    PROVE  Spec => NonceFresh
<1>1. Init => NonceInv
  <2> SUFFICES ASSUME Init PROVE NonceInv
    OBVIOUS
  <2>1. ~Attempt /\ used = {} /\ next_dev_nonce = 1 /\ calls = 0 /\ fails = 0
    BY DEF Init, Attempt, JoinWaits, Work, Idle
  <2> QED BY <2>1, ZephyrAssumption DEF NonceInv, Ahead
<1>2. Inv /\ NonceInv /\ [Next]_vars => NonceInv'
  BY NonceNext
<1>3. Inv /\ NonceInv /\ [Next]_vars => [worker' = "joining" /\ result' # -1 => result' \notin used]_worker
  BY FreshStep
<1> QED BY <1>1, <1>2, <1>3, InvInit, InvNext, PTL DEF Spec, NonceFresh

=============================================================================
