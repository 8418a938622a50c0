---------------------------- MODULE TimerProofs ----------------------------
(***************************************************************************)
(* Proofs about Timer, for any number of events, any delays and any clock. *)
(***************************************************************************)
EXTENDS Timer, TLAPS

\* Timer::schedule adds one event, with the next id and a time that is not
\* before the clock.
LEMMA NewEventType ==
    ASSUME TimerInv, issued < MaxEvents, NEW t \in Nat, t >= now, NEW p \in Nat
    PROVE  /\ NewEvent(t, p) \in Event
           /\ NewEvent(t, p).id = issued + 1
           /\ NewEvent(t, p).time = t
           /\ NewEvent(t, p).period = p
           /\ NewEvent(t, p) \notin queue
           /\ t >= 1
<1> USE TimerAssumption
<1>1. now \in Nat /\ now >= 1 /\ issued \in 0 .. MaxEvents
  BY DEF TimerInv, TypeOK
<1>2. NewEvent(t, p) = [id |-> issued + 1, time |-> t, period |-> p]
  BY DEF NewEvent
<1>3. issued + 1 \in 1 .. MaxEvents
  BY <1>1
<1>4. NewEvent(t, p) \notin queue
  <2> SUFFICES ASSUME NewEvent(t, p) \in queue PROVE FALSE
    OBVIOUS
  <2>1. NewEvent(t, p).id <= issued
    BY DEF TimerInv
  <2> QED BY <2>1, <1>1, <1>2
<1> QED BY <1>1, <1>2, <1>3, <1>4 DEF Event

\* A new event is not earlier than the event whose callback runs, so that
\* one stays at the top.
LEMMA StaysTop ==
    ASSUME TimerInv, pc = "callback", NEW n \in Event, n.time >= now
    PROVE  ev \in Tops(queue \cup {n}) /\ ev.time <= current
<1> USE TimerAssumption
<1>1. ev \in Tops(queue) /\ ev.time <= current /\ current <= now
  BY DEF TimerInv
<1>2. now \in Nat /\ current \in Nat /\ queue \subseteq Event
  BY DEF TimerInv, TypeOK
<1>3. ev \in queue /\ \A f \in queue : ev.time <= f.time
  BY <1>1 DEF Tops
<1>4. ev.time \in Nat /\ n.time \in Nat
  BY <1>2, <1>3 DEF Event
<1>5. ev.time <= n.time
  BY <1>1, <1>2, <1>4
<1> QED BY <1>1, <1>3, <1>5 DEF Tops

\* Initially nothing is scheduled and nothing was called.
LEMMA InitInv == Init => TimerInv
<1> USE TimerAssumption
<1> SUFFICES ASSUME Init PROVE TimerInv
  OBVIOUS
<1>1. TypeOK
  <2>1. expired \in BOOLEAN /\ reported \in BOOLEAN /\ ev \in Event \cup {NoEvent}
    BY Zenon DEF Init
  <2>2. fired \in [1 .. MaxEvents -> Nat] /\ queue \subseteq Event
    BY DEF Init
  <2> QED BY <2>1, <2>2 DEF Init, TypeOK, None
<1>2. ExactlyOnce
  BY DEF Init, ExactlyOnce, Waiting
<1> QED BY <1>1, <1>2 DEF Init, TimerInv

\* once() in a callback or elsewhere.
LEMMA OnceInv ==
    ASSUME TimerInv, NEW d \in Deltas, NEW p \in Periods, Once(d, p)
    PROVE  TimerInv'
<1> USE TimerAssumption
<1> DEFINE n == NewEvent(now + d, p)
<1>1. now \in Nat /\ d \in Nat /\ p \in Nat /\ now + d \in Nat /\ now + d >= now
  BY DEF TimerInv, TypeOK
<1>2. /\ n \in Event /\ n.id = issued + 1 /\ n.time = now + d /\ n \notin queue
      /\ now + d >= 1
  BY <1>1, NewEventType DEF Once
<1>3. /\ queue' = queue \cup {n} /\ issued' = issued + 1 /\ issued < MaxEvents
      /\ UNCHANGED <<now, reported, pc, current, ev, fired>>
  BY DEF Once
<1> HIDE DEF n
<1>4. queue' \subseteq Event
  BY <1>2, <1>3 DEF TimerInv, TypeOK
<1>5. armed' \in Nat
  BY <1>4 DEF Once, ScheduleFront, Tops, Event
<1>6. TypeOK'
  <2>1. expired' \in BOOLEAN /\ reported' \in BOOLEAN
    BY <1>3, Zenon DEF Once, ScheduleFront, TimerInv, TypeOK
  <2>2. issued' \in 0 .. MaxEvents
    BY <1>3 DEF TimerInv, TypeOK
  <2> QED BY <2>1, <2>2, <1>3, <1>4, <1>5 DEF TimerInv, TypeOK
<1>7. \A e \in queue' : e.id <= issued' /\ e.time >= 1
  <2>1. \A e \in queue : e.id <= issued /\ e.time >= 1 /\ e.id \in Nat
    BY DEF TimerInv, TypeOK, Event
  <2> QED BY <2>1, <1>2, <1>3 DEF TimerInv, TypeOK
<1>8. \A e, f \in queue' : e.id = f.id => e = f
  <2>1. \A e \in queue : e.id # n.id
    BY <1>2 DEF TimerInv, TypeOK, Event
  <2> QED BY <2>1, <1>3 DEF TimerInv
<1>9. pc' = "callback" => ev' \in Tops(queue') /\ ev'.time <= current'
  BY StaysTop, <1>1, <1>2, <1>3
<1>10. ExactlyOnce'
  <2> SUFFICES ASSUME NEW i \in 1 .. MaxEvents
               PROVE  /\ i <= issued' => fired'[i] = (IF Waiting(i)' THEN 0 ELSE 1)
                      /\ i > issued' => fired'[i] = 0
    BY DEF ExactlyOnce
  <2>1. issued \in Nat
    BY DEF TimerInv, TypeOK
  <2>2. /\ i <= issued => fired[i] = (IF Waiting(i) THEN 0 ELSE 1)
        /\ i > issued => fired[i] = 0
    BY DEF TimerInv, ExactlyOnce
  <2>3. CASE i = issued + 1
    <3>1. ~(pc = "callback" /\ ev = n)
      BY <1>2 DEF TimerInv, Tops
    <3>2. Waiting(i)'
      BY <2>3, <3>1, <1>2, <1>3 DEF Waiting
    <3> QED BY <2>1, <2>2, <2>3, <3>2, <1>3
  <2>4. CASE i # issued + 1
    <3>1. Waiting(i)' <=> Waiting(i)
      BY <2>4, <1>2, <1>3 DEF Waiting
    <3> QED BY <2>1, <2>2, <2>4, <3>1, <1>3
  <2> QED BY <2>3, <2>4
<1> QED BY <1>3, <1>6, <1>7, <1>8, <1>9, <1>10 DEF TimerInv

\* The call of the event at the top.
LEMMA CallInv == TimerInv /\ Call => TimerInv'
<1> USE TimerAssumption
<1> SUFFICES ASSUME TimerInv, Call PROVE TimerInv'
  OBVIOUS
<1> PICK e \in Tops(queue) : /\ e.time <= current /\ ev' = e
                             /\ fired' = [fired EXCEPT ![e.id] = @ + 1]
  BY DEF Call
<1>1. /\ pc = "loop" /\ pc' = "callback"
      /\ UNCHANGED <<now, queue, issued, armed, expired, reported, current>>
  BY DEF Call, fd
<1>2. e \in queue /\ e \in Event /\ e.id \in 1 .. MaxEvents
  BY DEF TimerInv, TypeOK, Tops, Event
<1>3. TypeOK'
  BY <1>1, <1>2 DEF TimerInv, TypeOK
<1>4. ExactlyOnce'
  <2> SUFFICES ASSUME NEW i \in 1 .. MaxEvents
               PROVE  /\ i <= issued' => fired'[i] = (IF Waiting(i)' THEN 0 ELSE 1)
                      /\ i > issued' => fired'[i] = 0
    BY DEF ExactlyOnce
  <2>1. fired \in [1 .. MaxEvents -> Nat] /\ issued \in Nat
    BY DEF TimerInv, TypeOK
  <2>2. /\ i <= issued => fired[i] = (IF Waiting(i) THEN 0 ELSE 1)
        /\ i > issued => fired[i] = 0
    BY DEF TimerInv, ExactlyOnce
  <2>3. CASE i = e.id
    <3>1. Waiting(i)
      BY <2>3, <1>1, <1>2 DEF Waiting
    <3>2. ~ Waiting(i)'
      BY <2>3, <1>1, <1>2 DEF Waiting, TimerInv
    <3>3. i <= issued
      BY <2>3, <1>2 DEF TimerInv
    <3> QED BY <2>1, <2>2, <2>3, <3>1, <3>2, <3>3, <1>1, <1>2
  <2>4. CASE i # e.id
    <3>1. Waiting(i)' <=> Waiting(i)
      BY <2>4, <1>1 DEF Waiting
    <3> QED BY <2>1, <2>2, <2>4, <3>1, <1>1, <1>2
  <2> QED BY <2>3, <2>4
<1> QED BY <1>1, <1>2, <1>3, <1>4 DEF TimerInv

\* The pop after a callback removes the event that was called.
LEMMA ReturnInv == TimerInv /\ Return => TimerInv'
<1> USE TimerAssumption
<1> SUFFICES ASSUME TimerInv, Return PROVE TimerInv'
  OBVIOUS
<1>1. /\ pc = "callback" /\ pc' = "loop"
      /\ UNCHANGED <<now, issued, armed, expired, reported, current, ev, fired>>
  BY DEF Return, fd
<1>2. queue' = queue \ {ev}
  BY <1>1 DEF Return, Popped, TimerInv
<1>3. TypeOK'
  BY <1>1, <1>2 DEF TimerInv, TypeOK
<1>4. \A i \in 1 .. MaxEvents : Waiting(i)' <=> Waiting(i)
  BY <1>1, <1>2 DEF Waiting
<1>5. ExactlyOnce'
  BY <1>1, <1>4 DEF TimerInv, ExactlyOnce
<1> QED BY <1>1, <1>2, <1>3, <1>5 DEF TimerInv

\* The callback of each() adds its next event before its own is popped.
LEMMA ReturnEachInv == TimerInv /\ ReturnEach => TimerInv'
<1> USE TimerAssumption
<1> SUFFICES ASSUME TimerInv, ReturnEach PROVE TimerInv'
  OBVIOUS
<1> DEFINE n == NewEvent(now + ev.period, ev.period)
<1>1. /\ pc = "callback" /\ pc' = "loop" /\ issued < MaxEvents /\ issued' = issued + 1
      /\ UNCHANGED <<now, reported, current, ev, fired>>
  BY DEF ReturnEach
<1>2. ev \in queue /\ ev \in Event /\ ev.period \in Nat
  BY <1>1 DEF TimerInv, TypeOK, Tops, Event
<1>3. now \in Nat /\ now + ev.period \in Nat /\ now + ev.period >= now
  BY <1>2 DEF TimerInv, TypeOK
<1>4. /\ n \in Event /\ n.id = issued + 1 /\ n.time = now + ev.period /\ n \notin queue
      /\ now + ev.period >= 1
  BY <1>1, <1>2, <1>3, NewEventType
<1>5. /\ \E p \in Popped(queue \cup {n}, ev) : queue' = (queue \cup {n}) \ {p}
      /\ ScheduleFront(queue \cup {n})
  BY DEF ReturnEach
<1> HIDE DEF n
<1>6. queue' = (queue \cup {n}) \ {ev}
  BY <1>1, <1>3, <1>4, <1>5, StaysTop DEF Popped
<1>7. queue \cup {n} \subseteq Event
  BY <1>4 DEF TimerInv, TypeOK
<1>8. armed' \in Nat
  BY <1>5, <1>7 DEF ScheduleFront, Tops, Event
<1>9. TypeOK'
  <2>1. expired' \in BOOLEAN /\ reported' \in BOOLEAN
    BY <1>1, <1>5, Zenon DEF ScheduleFront, TimerInv, TypeOK
  <2>2. issued' \in 0 .. MaxEvents
    BY <1>1 DEF TimerInv, TypeOK
  <2>3. queue' \subseteq Event
    BY <1>6, <1>7
  <2> QED BY <2>1, <2>2, <2>3, <1>1, <1>8 DEF TimerInv, TypeOK
<1>10. \A e \in queue' : e.id <= issued' /\ e.time >= 1
  <2>1. \A e \in queue : e.id <= issued /\ e.time >= 1 /\ e.id \in Nat
    BY DEF TimerInv, TypeOK, Event
  <2> QED BY <2>1, <1>1, <1>4, <1>6 DEF TimerInv, TypeOK
<1>11. \A e, f \in queue' : e.id = f.id => e = f
  <2>1. \A e \in queue : e.id # n.id
    BY <1>4 DEF TimerInv, TypeOK, Event
  <2> QED BY <2>1, <1>6 DEF TimerInv
<1>12. ExactlyOnce'
  <2> SUFFICES ASSUME NEW i \in 1 .. MaxEvents
               PROVE  /\ i <= issued' => fired'[i] = (IF Waiting(i)' THEN 0 ELSE 1)
                      /\ i > issued' => fired'[i] = 0
    BY DEF ExactlyOnce
  <2>1. issued \in Nat
    BY DEF TimerInv, TypeOK
  <2>2. /\ i <= issued => fired[i] = (IF Waiting(i) THEN 0 ELSE 1)
        /\ i > issued => fired[i] = 0
    BY DEF TimerInv, ExactlyOnce
  <2>3. CASE i = issued + 1
    <3>1. Waiting(i)'
      BY <2>3, <1>1, <1>2, <1>4, <1>6 DEF Waiting
    <3> QED BY <2>1, <2>2, <2>3, <3>1, <1>1
  <2>4. CASE i # issued + 1
    <3>1. Waiting(i)' <=> Waiting(i)
      BY <2>4, <1>1, <1>2, <1>4, <1>6 DEF Waiting
    <3> QED BY <2>1, <2>2, <2>4, <3>1, <1>1
  <2> QED BY <2>3, <2>4
<1> QED BY <1>1, <1>9, <1>10, <1>11, <1>12 DEF TimerInv

\* The remaining steps touch neither the heap nor what was called.
LEMMA OtherInv ==
    TimerInv /\ (Expire \/ EpollReports \/ TimerReady \/ LoopEnd \/ Tick \/ UNCHANGED vars)
        => TimerInv'
<1> USE TimerAssumption
<1> SUFFICES ASSUME TimerInv,
                    Expire \/ EpollReports \/ TimerReady \/ LoopEnd \/ Tick \/ UNCHANGED vars
             PROVE  TimerInv'
  OBVIOUS
<1>1. /\ UNCHANGED <<queue, issued, ev, fired>>
      /\ pc' = "callback" <=> pc = "callback"
      /\ pc = "callback" => current' = current
  BY DEF Expire, EpollReports, TimerReady, LoopEnd, Tick, vars, fd
<1>2. now' \in Nat /\ current' \in Nat /\ now' >= 1 /\ current' <= now'
  BY DEF TimerInv, TypeOK, Expire, EpollReports, TimerReady, LoopEnd, Tick, vars, fd
<1>3. armed' \in Nat
  <2>1. \A e \in Tops(queue) : e.time \in Nat
    BY DEF TimerInv, TypeOK, Tops, Event
  <2> QED BY <2>1 DEF TimerInv, TypeOK, ScheduleFront, Expire, EpollReports, TimerReady,
                      LoopEnd, Tick, vars, fd, None
<1>4. expired' \in BOOLEAN /\ reported' \in BOOLEAN
  <2>1. expired \in BOOLEAN /\ reported \in BOOLEAN
    BY DEF TimerInv, TypeOK
  <2>2. expired' \in {TRUE, FALSE, expired} /\ reported' \in {TRUE, FALSE, reported}
    BY Zenon DEF ScheduleFront, Expire, EpollReports, TimerReady, LoopEnd, Tick, vars, fd
  <2> QED BY <2>1, <2>2, Zenon
<1>5. pc' \in {"idle", "loop", "callback"}
  BY DEF TimerInv, TypeOK, Expire, EpollReports, TimerReady, LoopEnd, Tick, vars, fd
<1>6. TypeOK'
  BY <1>1, <1>2, <1>3, <1>4, <1>5 DEF TimerInv, TypeOK
<1>7. \A i \in 1 .. MaxEvents : Waiting(i)' <=> Waiting(i)
  BY <1>1 DEF Waiting
<1>8. ExactlyOnce'
  BY <1>1, <1>7 DEF TimerInv, ExactlyOnce
<1> QED BY <1>1, <1>2, <1>6, <1>8 DEF TimerInv

\* The inductive invariant: the event whose callback runs is the one that the
\* pop removes (Timer::timer_ready).
THEOREM TimerInvariant == Spec => []TimerInv
<1>1. TimerInv /\ [Next]_vars => TimerInv'
  BY OnceInv, CallInv, ReturnInv, ReturnEachInv, OtherInv DEF Next, OnceAny
<1> QED BY InitInv, <1>1, PTL DEF Spec

\* Every event scheduled is called exactly once, for any number of events and
\* whatever callbacks schedule (Timer::schedule, timer_ready).
THEOREM TimerExactlyOnce == Spec => []ExactlyOnce
<1>1. TimerInv => ExactlyOnce
  BY DEF TimerInv
<1> QED BY TimerInvariant, <1>1, PTL

-----------------------------------------------------------------------------
(* The timerfd.                                                            *)

\* schedule_front arms the timerfd for the earliest event.
LEMMA FrontArms ==
    ASSUME NEW q, \A e \in q : e.time \in Nat /\ e.time >= 1, ScheduleFront(q)
    PROVE  armed' # None /\ \A e \in q : armed' <= e.time
BY DEF ScheduleFront, Tops, None

\* The timerfd never loses sight of the next event while the program does
\* something else (Timer::schedule, timer_ready).
THEOREM TimerArmed == Spec => []Armed
<1> USE TimerAssumption
<1>1. Init => Armed
  BY DEF Init, Armed
<1>2. TimerInv /\ TimerInv' /\ Armed /\ [Next]_vars => Armed'
  <2> SUFFICES ASSUME TimerInv, TimerInv', Armed, [Next]_vars, pc' = "idle", queue' # {}
               PROVE  \/ expired' \/ reported'
                      \/ armed' # None /\ \A e \in queue' : armed' <= e.time
    BY DEF Armed
  <2>1. \A e \in queue' : e.time \in Nat /\ e.time >= 1
    BY DEF TimerInv, TypeOK, Event
  <2>2. CASE OnceAny
    <3>1. ScheduleFront(queue')
      BY <2>2 DEF OnceAny, Once
    <3> QED BY <3>1, <2>1, FrontArms
  <2>3. CASE LoopEnd
    <3>1. queue' = queue /\ ScheduleFront(queue)
      BY <2>3 DEF LoopEnd
    <3> QED BY <3>1, <2>1, FrontArms
  <2>4. CASE Expire \/ EpollReports
    BY <2>4 DEF Expire, EpollReports
  <2>5. CASE Tick \/ UNCHANGED vars
    BY <2>5 DEF Tick, vars, fd, Armed
  <2>6. CASE TimerReady \/ Call \/ Return \/ ReturnEach
    BY <2>6 DEF TimerReady, Call, Return, ReturnEach
  <2> QED BY <2>2, <2>3, <2>4, <2>5, <2>6 DEF Next
<1> QED BY TimerInvariant, <1>1, <1>2, PTL DEF Spec

=============================================================================
