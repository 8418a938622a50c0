------------------------------- MODULE Timer -------------------------------
(***************************************************************************)
(* Timer (libreactor/timer.cpp): a heap of events over one timerfd.        *)
(*                                                                         *)
(* timer_ready calls the event at the top of the heap and pops the top     *)
(* afterwards, so that the callback runs, and may schedule other events,   *)
(* while its own event is still in the heap.  The clock goes on meanwhile. *)
(* The timerfd and the clock are the environment.                          *)
(***************************************************************************)
EXTENDS Integers

CONSTANTS
    MaxEvents,  \* bound: calls of Timer::schedule
    MaxTime,    \* bound: how far the clock goes
    Deltas,     \* the delays that are asked for
    Periods     \* the delays of each(); 0 is an event of once()

ASSUME TimerAssumption ==
    /\ MaxEvents \in Nat /\ MaxTime \in Nat
    /\ Deltas \subseteq Nat /\ Periods \subseteq Nat

None == 0       \* the timerfd is not armed

Event == [id : 1 .. MaxEvents, time : Nat, period : Nat]

VARIABLES
    now,        \* the clock
    queue,      \* Timer::queue; the order of the heap is that of the times
    issued,     \* number of events scheduled so far: the id of the last
    armed,      \* time the timerfd is armed for, or None
    expired,    \* the timerfd expired and was not read
    reported,   \* epoll reported the timerfd, timer_ready is still to be called
    pc,         \* where timer_ready is: "idle", "loop" or "callback"
    current,    \* the local variable of timer_ready
    ev,         \* the event whose callback runs
    fired       \* fired[i]: how often event i was called

fd == <<armed, expired, reported>>
vars == <<now, queue, issued, fd, pc, current, ev, fired>>

NoEvent == [id |-> 0, time |-> 0, period |-> 0]

TypeOK ==
    /\ now \in Nat /\ current \in Nat /\ armed \in Nat
    /\ queue \subseteq Event
    /\ issued \in 0 .. MaxEvents
    /\ expired \in BOOLEAN /\ reported \in BOOLEAN
    /\ pc \in {"idle", "loop", "callback"}
    /\ ev \in Event \cup {NoEvent}
    /\ fired \in [1 .. MaxEvents -> Nat]

Init ==
    /\ now = 1 /\ queue = {} /\ issued = 0
    /\ armed = None /\ expired = FALSE /\ reported = FALSE
    /\ pc = "idle" /\ current = 0 /\ ev = NoEvent
    /\ fired = [i \in 1 .. MaxEvents |-> 0]

-----------------------------------------------------------------------------
(* The heap.                                                               *)

\* The events one of which is at the top.
Tops(q) == {e \in q : \A f \in q : e.time <= f.time}

\* What pop removes after the callback of e: a new event takes the place of e
\* at the top only if it is strictly earlier.
Popped(q, e) == IF e \in Tops(q) THEN {e} ELSE Tops(q)

\* schedule_front: timerfd_settime for the time of the top, which forgets an
\* expiration that was not read.
ScheduleFront(q) ==
    /\ \E e \in Tops(q) : armed' = e.time
    /\ expired' = FALSE

-----------------------------------------------------------------------------

\* Faulty NewEvent: the time is kept relative to the clock.
NewEventRelative(time, period) == [id |-> issued + 1, time |-> time - now, period |-> period]

\* The event that once and each schedule.
NewEvent(time, period) == [id |-> issued + 1, time |-> time, period |-> period]

\* The handlers of the program call once(delta) or each(period), either from
\* a callback of the timer or from anywhere else (schedule).
Once(delta, period) ==
    /\ pc # "loop"
    /\ issued < MaxEvents
    /\ now + delta <= MaxTime
    /\ queue' = queue \cup {NewEvent(now + delta, period)}
    /\ issued' = issued + 1
    /\ ScheduleFront(queue')
    /\ UNCHANGED <<now, reported, pc, current, ev, fired>>

\* The timerfd expires, also if it was armed for a time in the past.
Expire ==
    /\ armed # None /\ armed <= now
    /\ expired' = TRUE /\ armed' = None
    /\ UNCHANGED <<now, queue, issued, reported, pc, current, ev, fired>>

\* epoll_pwait returns with the timerfd; the handlers of other descriptors
\* may be called before timer_ready.
EpollReports ==
    /\ pc = "idle" /\ ~reported
    /\ expired
    /\ reported' = TRUE
    /\ UNCHANGED <<now, queue, issued, armed, expired, pc, current, ev, fired>>

\* timer_ready: reads the timerfd and the clock.
TimerReady ==
    /\ pc = "idle" /\ reported
    /\ reported' = FALSE /\ expired' = FALSE
    /\ current' = now
    /\ pc' = "loop"
    /\ UNCHANGED <<now, queue, issued, armed, ev, fired>>

\* The loop: the callback of the top starts.
Call ==
    /\ pc = "loop"
    /\ \E e \in Tops(queue) :
         /\ e.time <= current
         /\ ev' = e
         /\ fired' = [fired EXCEPT ![e.id] = @ + 1]
    /\ pc' = "callback"
    /\ UNCHANGED <<now, queue, issued, fd, current>>

\* The callback returns and the top is popped.
Return ==
    /\ pc = "callback" /\ ev.period = 0
    /\ \E p \in Popped(queue, ev) : queue' = queue \ {p}
    /\ pc' = "loop"
    /\ UNCHANGED <<now, issued, fd, current, ev, fired>>

\* The callback of each(): it ends with another each, then the top is popped.
\* (The bounds stop the model here; the program goes on.)
ReturnEach ==
    /\ pc = "callback" /\ ev.period # 0
    /\ issued < MaxEvents /\ now + ev.period <= MaxTime
    /\ LET grown == queue \cup {NewEvent(now + ev.period, ev.period)}
       IN  /\ \E p \in Popped(grown, ev) : queue' = grown \ {p}
           /\ ScheduleFront(grown)
    /\ issued' = issued + 1
    /\ pc' = "loop"
    /\ UNCHANGED <<now, reported, current, ev, fired>>

\* Faulty LoopEnd: the timerfd is not armed again.
LoopEndSilent ==
    /\ pc = "loop"
    /\ \A e \in Tops(queue) : e.time > current
    /\ pc' = "idle"
    /\ UNCHANGED <<now, queue, issued, fd, current, ev, fired>>

\* The end of the loop: nothing is due at the time read before it.
LoopEnd ==
    /\ pc = "loop"
    /\ \A e \in Tops(queue) : e.time > current
    /\ IF queue = {} THEN UNCHANGED <<armed, expired>> ELSE ScheduleFront(queue)
    /\ pc' = "idle"
    /\ UNCHANGED <<now, queue, issued, reported, current, ev, fired>>

\* Time passes.
Tick ==
    /\ now < MaxTime
    /\ now' = now + 1
    /\ UNCHANGED <<queue, issued, fd, pc, current, ev, fired>>

-----------------------------------------------------------------------------

OnceAny == \E d \in Deltas, p \in Periods : (p = 0 \/ p = d) /\ Once(d, p)

Next ==
    \/ OnceAny \/ Expire \/ EpollReports \/ TimerReady
    \/ Call \/ Return \/ ReturnEach \/ LoopEnd \/ Tick

Spec == Init /\ [][Next]_vars

\* Time passes, the timerfd works, and the reactor runs: callbacks return.
FairSpec ==
    /\ Spec
    /\ WF_vars(Tick) /\ WF_vars(Expire)
    /\ WF_vars(EpollReports) /\ WF_vars(TimerReady)
    /\ WF_vars(Call) /\ WF_vars(Return) /\ WF_vars(ReturnEach) /\ WF_vars(LoopEnd)

-----------------------------------------------------------------------------
(* Properties.                                                             *)

\* Event i is still to be called.
Waiting(i) == \E e \in queue : e.id = i /\ ~(pc = "callback" /\ ev = e)

\* Every event that was scheduled is called once: it is waiting or was called,
\* never both and never neither, whatever the callbacks schedule between the
\* call and the pop that follows it.
ExactlyOnce ==
    \A i \in 1 .. MaxEvents :
        /\ i <= issued => fired[i] = (IF Waiting(i) THEN 0 ELSE 1)
        /\ i > issued => fired[i] = 0

\* Why that is so: the event whose callback runs stays at the top until it is
\* popped, because what a callback schedules is not earlier than the clock,
\* and the clock not earlier than the event.
TimerInv ==
    /\ TypeOK
    /\ now >= 1 /\ current <= now
    /\ \A e \in queue : e.id <= issued /\ e.time >= 1
    /\ \A e, f \in queue : e.id = f.id => e = f
    /\ pc = "callback" => ev \in Tops(queue) /\ ev.time <= current
    /\ ExactlyOnce

\* Outside timer_ready the timerfd always has the next event in view: it is
\* armed for no later than the earliest event, or it expired already.
Armed ==
    pc = "idle" /\ queue # {} =>
        \/ expired \/ reported
        \/ armed # None /\ \A e \in queue : armed <= e.time

\* The bounds of the model, not the program, keep the callback of each() from
\* scheduling its next event.
Stopped == /\ pc = "callback" /\ ev.period # 0
           /\ issued = MaxEvents \/ now + ev.period > MaxTime

\* Every event is called eventually.
EventuallyFired == \A i \in 1 .. MaxEvents : issued >= i ~> fired[i] >= 1 \/ Stopped

=============================================================================
