-------------------------- MODULE ProcessesProofs --------------------------
(***************************************************************************)
(* Proofs about Processes, for any number of objects, pids, exit codes and *)
(* calls of wait.                                                          *)
(***************************************************************************)
EXTENDS Processes, SequenceTheorems, TLAPS

\* WEXITSTATUS gives an exit code for every way in which a child ends.
LEMMA ExitStatusType ==
    ASSUME NEW s \in Statuses
    PROVE  ExitStatus(s) \in Codes
BY ProcessesAssumption DEF ExitStatus, Statuses

\* A code given to n callbacks is a sequence of n codes.
LEMMA Repeated ==
    ASSUME NEW c \in Codes, NEW n \in Nat
    PROVE  [i \in 1 .. n |-> c] \in Seq(Codes)
<1>1. [i \in 1 .. n |-> c] \in [1 .. n -> Codes]
  OBVIOUS
<1>2. [1 .. n -> Codes] \in {[1 .. m -> Codes] : m \in Nat}
  OBVIOUS
<1> QED BY <1>1, <1>2, SeqDef, Zenon

\* Initially no object has a child.
LEMMA InitInv == Init => ProcessesInv
<1> USE ProcessesAssumption
<1> SUFFICES ASSUME Init PROVE ProcessesInv
  OBVIOUS
<1>1. TypeOK
  <2>1. finished \in [Procs -> BOOLEAN] /\ pending \in BOOLEAN /\ signal_appeared \in BOOLEAN
    BY Zenon DEF Init
  <2>2. calls \in [Procs -> Seq(Codes)]
    BY DEF Init
  <2> QED BY <2>1, <2>2 DEF Init, TypeOK
<1>2. TableCurrent /\ ChildHasObject /\ FollowsChild /\ NoForgottenChild /\ AnsweredOnce
  BY DEF Init, TableCurrent, ChildHasObject, FollowsChild, NoForgottenChild, AnsweredOnce
<1> QED BY <1>1, <1>2 DEF ProcessesInv

\* A pid that fork gives has no child of its own, so no unfinished object has
\* it, and the entry it overwrites is not needed any more (Popen::exec).
LEMMA ExecInv ==
    ASSUME ProcessesInv, NEW o \in Procs, Exec(o)
    PROVE  ProcessesInv'
<1> USE ProcessesAssumption
<1>1. PICK p \in Pids :
        /\ child[p] = "none"
        /\ child' = [child EXCEPT ![p] = "running"]
        /\ pid' = [pid EXCEPT ![o] = p]
        /\ processes' = [processes EXCEPT ![p] = o]
  BY DEF Exec, Inserted
<1>2. /\ pid[o] = None /\ pc = "run"
      /\ UNCHANGED <<finished, exit_code, on_finish, asked, calls, status, pending,
                     signal_appeared, pc>>
  BY DEF Exec
<1>3. TypeOK /\ TableCurrent /\ ChildHasObject /\ FollowsChild /\ NoForgottenChild /\ AnsweredOnce
  BY DEF ProcessesInv
<1>4. pid \in [Procs -> Pids \cup {None}] /\ child \in [Pids -> {"none", "running", "zombie"}]
      /\ processes \in [Pids -> Procs \cup {None}]
  BY <1>3 DEF TypeOK
<1>5. TypeOK'
  <2>1. /\ pid' \in [Procs -> Pids \cup {None}]
        /\ child' \in [Pids -> {"none", "running", "zombie"}]
        /\ processes' \in [Pids -> Procs \cup {None}]
    BY <1>1, <1>4
  <2> QED BY <2>1, <1>2, <1>3 DEF TypeOK
<1>6. \A o2 \in Procs : pid[o2] = p => finished[o2]
  BY <1>1, <1>3, Zenon DEF FollowsChild
<1>7. TableCurrent'
  BY <1>1, <1>2, <1>3, <1>4, <1>6 DEF TableCurrent
<1>8. FollowsChild'
  BY <1>1, <1>2, <1>3, <1>4, <1>6 DEF FollowsChild
<1>9. ChildHasObject'
  BY <1>1, <1>2, <1>3, <1>4, <1>6 DEF ChildHasObject, FollowsChild
<1>10. NoForgottenChild' /\ AnsweredOnce'
  BY <1>1, <1>2, <1>3, <1>4 DEF NoForgottenChild, AnsweredOnce
<1> QED BY <1>5, <1>7, <1>8, <1>9, <1>10 DEF ProcessesInv

\* A wait is answered at once or is kept for the exit, never both
\* (Process::wait).
LEMMA WaitInv ==
    ASSUME ProcessesInv, NEW o \in Procs, Wait(o)
    PROVE  ProcessesInv'
<1> USE ProcessesAssumption
<1>1. /\ pid[o] # None /\ asked[o] < MaxWaits /\ asked' = [asked EXCEPT ![o] = @ + 1]
      /\ UNCHANGED <<pid, processes, finished, exit_code, child, status, pending,
                     signal_appeared, pc>>
  BY DEF Wait
<1>2. TypeOK /\ TableCurrent /\ ChildHasObject /\ FollowsChild /\ NoForgottenChild /\ AnsweredOnce
  BY DEF ProcessesInv
<1>3. /\ asked \in [Procs -> 0 .. MaxWaits] /\ on_finish \in [Procs -> 0 .. MaxWaits]
      /\ calls \in [Procs -> Seq(Codes)] /\ status \in [Procs -> Statuses \cup {None}]
      /\ asked' \in [Procs -> 0 .. MaxWaits]
  BY <1>1, <1>2 DEF TypeOK
<1>4. TableCurrent' /\ ChildHasObject' /\ NoForgottenChild'
  BY <1>1, <1>2 DEF TableCurrent, ChildHasObject, NoForgottenChild
<1>5. CASE finished[o]
  <2>1. calls' = [calls EXCEPT ![o] = Append(@, exit_code[o])] /\ UNCHANGED on_finish
    BY <1>5 DEF Wait
  <2>2. status[o] \in Statuses /\ exit_code[o] = ExitStatus(status[o])
    BY <1>2, <1>3, <1>5, <1>1 DEF FollowsChild
  <2>3. calls' \in [Procs -> Seq(Codes)]
    BY <2>1, <2>2, <1>3, ExitStatusType
  <2>4. TypeOK'
    BY <2>1, <2>3, <1>1, <1>2, <1>3 DEF TypeOK
  <2>5. FollowsChild'
    BY <2>1, <1>1, <1>2, <1>3, <1>5 DEF FollowsChild
  <2>6. AnsweredOnce'
    <3>1. calls[o] = [i \in 1 .. asked[o] |-> ExitStatus(status[o])]
      BY <1>2, <1>5 DEF AnsweredOnce
    <3>2. Append(calls[o], exit_code[o]) = [i \in 1 .. asked[o] + 1 |-> ExitStatus(status[o])]
      BY <3>1, <2>2, <1>3
    <3> QED BY <3>2, <2>1, <1>1, <1>2, <1>3, <1>5, ZenonT(30) DEF AnsweredOnce
  <2> QED BY <2>4, <2>5, <2>6, <1>4 DEF ProcessesInv
<1>6. CASE ~finished[o]
  <2>1. on_finish' = [on_finish EXCEPT ![o] = @ + 1] /\ UNCHANGED calls
    BY <1>6 DEF Wait
  <2>2. on_finish[o] = asked[o]
    BY <1>2, <1>6 DEF FollowsChild
  <2>3. TypeOK'
    <3>1. on_finish' \in [Procs -> 0 .. MaxWaits]
      BY <2>1, <2>2, <1>1, <1>3
    <3> QED BY <3>1, <2>1, <1>1, <1>2, <1>3 DEF TypeOK
  <2>4. FollowsChild'
    BY <2>1, <2>2, <1>1, <1>2, <1>3, <1>6 DEF FollowsChild
  <2>5. AnsweredOnce'
    BY <2>1, <1>1, <1>2, <1>3, <1>6 DEF AnsweredOnce
  <2> QED BY <2>3, <2>4, <2>5, <1>4 DEF ProcessesInv
<1> QED BY <1>5, <1>6

\* A child that exits makes its signal pending.
LEMMA ChildExitInv ==
    ASSUME ProcessesInv, NEW o \in Procs, ChildExit(o)
    PROVE  ProcessesInv'
<1> USE ProcessesAssumption
<1>1. PICK c \in Statuses : status' = [status EXCEPT ![o] = c]
  BY DEF ChildExit
<1>2. /\ pid[o] # None /\ status[o] = None /\ child[pid[o]] = "running"
      /\ child' = [child EXCEPT ![pid[o]] = "zombie"] /\ pending' = TRUE
      /\ UNCHANGED <<objects, signal_appeared, pc>>
  BY DEF ChildExit
<1>3. TypeOK /\ TableCurrent /\ ChildHasObject /\ FollowsChild /\ NoForgottenChild /\ AnsweredOnce
  BY DEF ProcessesInv
<1>4. /\ pid \in [Procs -> Pids \cup {None}] /\ child \in [Pids -> {"none", "running", "zombie"}]
      /\ status \in [Procs -> Statuses \cup {None}] /\ pid[o] \in Pids
  BY <1>2, <1>3 DEF TypeOK
<1>5. c # None
  BY DEF Statuses
<1>6. TypeOK'
  <2>1. /\ child' \in [Pids -> {"none", "running", "zombie"}]
        /\ status' \in [Procs -> Statuses \cup {None}]
    BY <1>1, <1>2, <1>4
  <2>2. pending' \in BOOLEAN
    BY <1>2, Zenon
  <2> QED BY <2>1, <2>2, <1>2, <1>3 DEF TypeOK, objects
<1>7. ~finished[o] /\ processes[pid[o]] = o
  BY <1>2, <1>3 DEF FollowsChild, TableCurrent
<1>8. \A o2 \in Procs : o2 # o /\ ~finished[o2] => pid[o2] # pid[o]
  BY <1>2, <1>3, <1>7 DEF TableCurrent
<1>9. FollowsChild'
  BY <1>1, <1>2, <1>3, <1>4, <1>5, <1>7, <1>8 DEF FollowsChild, objects
<1>10. TableCurrent' /\ ChildHasObject' /\ NoForgottenChild'
  BY <1>2, <1>3, <1>4 DEF TableCurrent, ChildHasObject, NoForgottenChild, objects
<1>11. AnsweredOnce'
  BY <1>1, <1>2, <1>3, <1>4, <1>7 DEF AnsweredOnce, objects
<1> QED BY <1>6, <1>9, <1>10, <1>11 DEF ProcessesInv

\* The handler finds the object of the child that it reaps, and answers all
\* who wait for it (Process::sigchld_handler).
LEMMA ReapInv ==
    ASSUME ProcessesInv, Reap
    PROVE  ProcessesInv'
<1> USE ProcessesAssumption
<1>1. PICK p \in Pids :
        /\ child[p] = "zombie"
        /\ child' = [child EXCEPT ![p] = "none"]
        /\ Finish(processes[p], ExitStatus(status[processes[p]]))
  BY DEF Reap
<1> DEFINE o == processes[p]
           c == ExitStatus(status[o])
<1>2. /\ pc = "handler"
      /\ UNCHANGED <<pid, processes, on_finish, asked, status, pending, signal_appeared, pc>>
  BY DEF Reap
<1>3. TypeOK /\ TableCurrent /\ ChildHasObject /\ FollowsChild /\ NoForgottenChild /\ AnsweredOnce
  BY DEF ProcessesInv
<1>4. o \in Procs /\ pid[o] = p /\ ~finished[o]
  BY <1>1, <1>3 DEF ChildHasObject
<1>5. /\ finished' = [finished EXCEPT ![o] = TRUE]
      /\ exit_code' = [exit_code EXCEPT ![o] = c]
      /\ calls' = [calls EXCEPT ![o] = @ \o [i \in 1 .. on_finish[o] |-> c]]
  BY <1>1 DEF Finish
<1>6. /\ child \in [Pids -> {"none", "running", "zombie"}] /\ finished \in [Procs -> BOOLEAN]
      /\ exit_code \in [Procs -> Codes \cup {None}] /\ calls \in [Procs -> Seq(Codes)]
      /\ on_finish[o] \in Nat /\ asked[o] \in Nat /\ status[o] \in Statuses \cup {None}
  BY <1>3, <1>4 DEF TypeOK
<1>7. status[o] # None /\ on_finish[o] = asked[o] /\ calls[o] = << >>
  BY <1>1, <1>3, <1>4 DEF FollowsChild, AnsweredOnce
<1>8. c \in Codes
  BY <1>6, <1>7, ExitStatusType
<1> HIDE DEF c
<1>9. calls[o] \o [i \in 1 .. on_finish[o] |-> c] = [i \in 1 .. asked[o] |-> c]
  BY <1>6, <1>7, <1>8
<1>10. [i \in 1 .. asked[o] |-> c] \in Seq(Codes)
  BY <1>6, <1>8, Repeated
<1> HIDE DEF o
<1>11. TypeOK'
  <2>1. finished' \in [Procs -> BOOLEAN]
    BY <1>4, <1>5, <1>6, Zenon
  <2>2. /\ child' \in [Pids -> {"none", "running", "zombie"}]
        /\ exit_code' \in [Procs -> Codes \cup {None}]
    BY <1>1, <1>5, <1>6, <1>8
  <2>3. calls' \in [Procs -> Seq(Codes)]
    BY <1>5, <1>6, <1>9, <1>10
  <2> QED BY <2>1, <2>2, <2>3, <1>2, <1>3 DEF TypeOK
<1>12. \A o2 \in Procs : o2 # o /\ ~finished[o2] => pid[o2] # p
  BY <1>3, <1>4 DEF TableCurrent, o
<1>13. TableCurrent'
  BY <1>2, <1>3, <1>5, <1>6 DEF TableCurrent
<1>14. ChildHasObject'
  BY <1>1, <1>2, <1>3, <1>4, <1>5, <1>6, <1>12 DEF ChildHasObject
<1>15. FollowsChild'
  BY <1>1, <1>2, <1>3, <1>4, <1>5, <1>6, <1>7, <1>12 DEF FollowsChild, TypeOK, c
<1>16. NoForgottenChild'
  BY <1>2 DEF NoForgottenChild
<1>17. AnsweredOnce'
  <2> SUFFICES ASSUME NEW q \in Procs
               PROVE  calls'[q] = IF finished'[q]
                                  THEN [i \in 1 .. asked'[q] |-> ExitStatus(status'[q])]
                                  ELSE << >>
    BY DEF AnsweredOnce
  <2>1. CASE q = o
    BY <2>1, <1>2, <1>5, <1>6, <1>9 DEF c
  <2>2. CASE q # o
    BY <2>2, <1>2, <1>3, <1>5, <1>6 DEF AnsweredOnce
  <2> QED BY <2>1, <2>2
<1> QED BY <1>11, <1>13, <1>14, <1>15, <1>16, <1>17 DEF ProcessesInv

\* A pending signal becomes a flag, the flag a call of the handler, and the
\* handler ends only when no child is left (Signals::handle, call_handlers).
LEMMA SignalInv ==
    ASSUME ProcessesInv,
           EpollPwait \/ CallHandlers \/ ReapNothing \/ HandlerReturn \/ UNCHANGED vars
    PROVE  ProcessesInv'
<1>1. TypeOK /\ TableCurrent /\ ChildHasObject /\ FollowsChild /\ NoForgottenChild /\ AnsweredOnce
  BY DEF ProcessesInv
<1>2. UNCHANGED <<objects, child, status>>
  BY DEF EpollPwait, CallHandlers, ReapNothing, HandlerReturn, vars
<1>3. TypeOK'
  <2>1. pending' \in BOOLEAN /\ signal_appeared' \in BOOLEAN
    BY <1>1, Zenon DEF EpollPwait, CallHandlers, ReapNothing, HandlerReturn, vars, TypeOK
  <2>2. pc' \in {"run", "signals", "handler"}
    BY <1>1 DEF EpollPwait, CallHandlers, ReapNothing, HandlerReturn, vars, TypeOK
  <2> QED BY <2>1, <2>2, <1>1, <1>2 DEF TypeOK, objects
<1>4. NoForgottenChild'
  BY <1>1 DEF EpollPwait, CallHandlers, ReapNothing, HandlerReturn, vars, NoForgottenChild, TypeOK
<1>5. TableCurrent' /\ ChildHasObject' /\ FollowsChild' /\ AnsweredOnce'
  BY <1>1, <1>2 DEF TableCurrent, ChildHasObject, FollowsChild, AnsweredOnce, objects
<1> QED BY <1>3, <1>4, <1>5 DEF ProcessesInv

\* Every call of Process::wait is answered once and with the code of its own
\* child, however pids are used again and signals of children are merged.
THEOREM ProcessesSafe == Spec => []ProcessesInv
<1>1. ProcessesInv /\ [Next]_vars => ProcessesInv'
  BY ExecInv, WaitInv, ChildExitInv, ReapInv, SignalInv DEF Next
<1> QED BY InitInv, <1>1, PTL DEF Spec

=============================================================================
