----------------------------- MODULE Processes -----------------------------
(***************************************************************************)
(* Child processes (libreactor/process.cpp) and the signal handling they   *)
(* rest on (libreactor/signals.cpp, the end of Reactor::step).             *)
(*                                                                         *)
(* SIGCHLD is blocked except in epoll_pwait, where its handler only sets   *)
(* a flag; call_handlers then runs sigchld_handler, which reaps every      *)
(* child that has exited, since signals that came together are one.        *)
(* fork is taken to succeed, and the callbacks of wait to do nothing else. *)
(* The kernel's processes and pending signal are the environment; it may   *)
(* give the pid of a reaped child to the next one.                         *)
(***************************************************************************)
EXTENDS Integers, Sequences

CONSTANTS
    Procs,      \* the Process objects that are created
    Pids,       \* the process ids there are
    Codes,      \* exit codes
    Killed,     \* the status of a child that a signal ended
    MaxWaits,   \* bound: calls of Process::wait for one object
    None

ASSUME ProcessesAssumption ==
    /\ MaxWaits \in Nat
    /\ 0 \in Codes /\ Killed \notin Codes
    /\ None \notin Procs \cup Pids \cup Codes \cup {Killed}

Statuses == Codes \cup {Killed}

VARIABLES
    pid,        \* Process::pid, None before exec
    processes,  \* Process::processes: the object of a pid
    finished,   \* Process::finished
    exit_code,  \* Process::exit_code
    on_finish,  \* number of callbacks in Process::on_finish
    asked,      \* number of calls of Process::wait
    calls,      \* the codes that the callbacks of wait were called with
    child,      \* the kernel's processes: "none", "running" or "zombie"
    status,     \* status[o]: how the child of object o ended
    pending,    \* SIGCHLD is pending, since it is blocked
    signal_appeared,  \* Signals::signal_appeared[SIGCHLD]
    pc          \* where the reactor is: "run", "signals" or "handler"

objects == <<pid, processes, finished, exit_code, on_finish, asked, calls>>
vars == <<objects, child, status, pending, signal_appeared, pc>>

TypeOK ==
    /\ pid \in [Procs -> Pids \cup {None}]
    /\ processes \in [Pids -> Procs \cup {None}]
    /\ finished \in [Procs -> BOOLEAN]
    /\ exit_code \in [Procs -> Codes \cup {None}]
    /\ on_finish \in [Procs -> 0 .. MaxWaits]
    /\ asked \in [Procs -> 0 .. MaxWaits]
    /\ calls \in [Procs -> Seq(Codes)]
    /\ child \in [Pids -> {"none", "running", "zombie"}]
    /\ status \in [Procs -> Statuses \cup {None}]
    /\ pending \in BOOLEAN /\ signal_appeared \in BOOLEAN
    /\ pc \in {"run", "signals", "handler"}

Init ==
    /\ pid = [o \in Procs |-> None]
    /\ processes = [p \in Pids |-> None]
    /\ finished = [o \in Procs |-> FALSE]
    /\ exit_code = [o \in Procs |-> None]
    /\ on_finish = [o \in Procs |-> 0]
    /\ asked = [o \in Procs |-> 0]
    /\ calls = [o \in Procs |-> << >>]
    /\ child = [p \in Pids |-> "none"]
    /\ status = [o \in Procs |-> None]
    /\ pending = FALSE /\ signal_appeared = FALSE
    /\ pc = "run"

-----------------------------------------------------------------------------
(* The program.                                                            *)

\* What processes[pid] = ptr leaves in the table.
Inserted(p, o) == o

\* Popen::exec: forks, and enters the object under its pid.
Exec(o) ==
    /\ pc = "run"
    /\ pid[o] = None
    /\ \E p \in Pids :
         /\ child[p] = "none"
         /\ child' = [child EXCEPT ![p] = "running"]
         /\ pid' = [pid EXCEPT ![o] = p]
         /\ processes' = [processes EXCEPT ![p] = Inserted(p, o)]
    /\ UNCHANGED <<finished, exit_code, on_finish, asked, calls, status, pending,
                   signal_appeared, pc>>

\* Faulty Wait: the callback is queued although the child has exited.
WaitQueued(o) ==
    /\ pc = "run"
    /\ pid[o] # None
    /\ asked[o] < MaxWaits
    /\ asked' = [asked EXCEPT ![o] = @ + 1]
    /\ on_finish' = [on_finish EXCEPT ![o] = @ + 1]
    /\ UNCHANGED <<calls, pid, processes, finished, exit_code, child, status, pending,
                   signal_appeared, pc>>

\* Process::wait: calls back at once if the child is known to have exited.
Wait(o) ==
    /\ pc = "run"
    /\ pid[o] # None
    /\ asked[o] < MaxWaits
    /\ asked' = [asked EXCEPT ![o] = @ + 1]
    /\ IF finished[o]
       THEN calls' = [calls EXCEPT ![o] = Append(@, exit_code[o])] /\ UNCHANGED on_finish
       ELSE on_finish' = [on_finish EXCEPT ![o] = @ + 1] /\ UNCHANGED calls
    /\ UNCHANGED <<pid, processes, finished, exit_code, child, status, pending,
                   signal_appeared, pc>>

\* Reactor::step: epoll_pwait unblocks the signals, and a pending one is
\* handled by Signals::handle.
EpollPwait ==
    /\ pc = "run"
    /\ signal_appeared' = (signal_appeared \/ pending)
    /\ pending' = FALSE
    /\ pc' = "signals"
    /\ UNCHANGED <<objects, child, status>>

\* Signals::call_handlers.
CallHandlers ==
    /\ pc = "signals"
    /\ signal_appeared' = FALSE
    /\ pc' = IF signal_appeared THEN "handler" ELSE "run"
    /\ UNCHANGED <<objects, child, status, pending>>

-----------------------------------------------------------------------------
(* Process::sigchld_handler: each step is an iteration of its loop.        *)

\* WEXITSTATUS: what it makes of a child that was killed is 0.
ExitStatus(s) == IF s = Killed THEN 0 ELSE s

\* What finding object o does to it: it is finished, with code c, and all
\* that wait for it are called.
Finish(o, c) ==
    /\ finished' = [finished EXCEPT ![o] = TRUE]
    /\ exit_code' = [exit_code EXCEPT ![o] = c]
    /\ calls' = [calls EXCEPT ![o] = @ \o [i \in 1 .. on_finish[o] |-> c]]

\* Faulty Reap: one child per signal.
ReapOne ==
    /\ pc = "handler"
    /\ \E p \in Pids :
         /\ child[p] = "zombie"
         /\ child' = [child EXCEPT ![p] = "none"]
         /\ Finish(processes[p], ExitStatus(status[processes[p]]))
    /\ pc' = "run"
    /\ UNCHANGED <<pid, processes, on_finish, asked, status, pending, signal_appeared>>

\* waitpid returns a child that has exited.
Reap ==
    /\ pc = "handler"
    /\ \E p \in Pids :
         /\ child[p] = "zombie"
         /\ child' = [child EXCEPT ![p] = "none"]
         /\ Finish(processes[p], ExitStatus(status[processes[p]]))
    /\ UNCHANGED <<pid, processes, on_finish, asked, status, pending, signal_appeared, pc>>

\* waitpid returns 0: there are children, and none has exited.  No object has
\* the pid 0, and the loop goes on.
ReapNothing ==
    /\ pc = "handler"
    /\ \A p \in Pids : child[p] # "zombie"
    /\ \E p \in Pids : child[p] = "running"
    /\ UNCHANGED vars

\* Faulty HandlerReturn: a failing waitpid is tried again.
HandlerTriesAgain ==
    /\ pc = "handler"
    /\ \A p \in Pids : child[p] = "none"
    /\ UNCHANGED vars

\* waitpid fails because there are no children: the loop ends.
HandlerReturn ==
    /\ pc = "handler"
    /\ \A p \in Pids : child[p] = "none"
    /\ pc' = "run"
    /\ UNCHANGED <<objects, child, status, pending, signal_appeared>>

-----------------------------------------------------------------------------
(* The kernel.                                                             *)

\* The child of object o exits, which makes SIGCHLD pending.
ChildExit(o) ==
    /\ pid[o] # None /\ status[o] = None
    /\ child[pid[o]] = "running"
    /\ child' = [child EXCEPT ![pid[o]] = "zombie"]
    /\ \E c \in Statuses : status' = [status EXCEPT ![o] = c]
    /\ pending' = TRUE
    /\ UNCHANGED <<objects, signal_appeared, pc>>

-----------------------------------------------------------------------------

Next ==
    \/ \E o \in Procs : Exec(o) \/ Wait(o) \/ ChildExit(o)
    \/ EpollPwait \/ CallHandlers
    \/ Reap \/ ReapNothing \/ HandlerReturn

Spec == Init /\ [][Next]_vars

\* The reactor and the handler run; children may run forever.
FairSpec ==
    /\ Spec
    /\ WF_vars(EpollPwait) /\ WF_vars(CallHandlers)
    /\ WF_vars(Reap) /\ WF_vars(HandlerReturn)

-----------------------------------------------------------------------------
(* Properties.                                                             *)

\* Every call of wait is answered exactly once, with the code of that child,
\* whether it came before or after the exit and whoever has its pid by now.
AnsweredOnce ==
    \A o \in Procs :
        calls[o] = IF finished[o] THEN [i \in 1 .. asked[o] |-> ExitStatus(status[o])]
                   ELSE << >>

\* A child that has exited is not forgotten, although its signal may have
\* been merged with that of another one: a signal is on its way to the
\* handler, or the handler is still looping.
NoForgottenChild ==
    (\E p \in Pids : child[p] = "zombie") => pending \/ signal_appeared \/ pc = "handler"

\* The table leads from the pid of a child to its own object, also when the
\* pid was used before.
TableCurrent ==
    \A o \in Procs : pid[o] # None /\ ~finished[o] => processes[pid[o]] = o

\* Whoever waits for a child that exits is told.
EventuallyAnswered ==
    \A o \in Procs : \A n \in 1 .. MaxWaits :
        (asked[o] = n /\ status[o] # None) ~> Len(calls[o]) >= n

\* The handler gives the reactor back once it has reaped all children.  It
\* does not while another child runs: waitpid then returns 0, not an error.
HandlerReturns == pc = "handler" ~> pc = "run" \/ \E p \in Pids : child[p] = "running"

\* An object follows its child: no child before exec; a running child has no
\* status yet; one that has exited is a zombie until it is reaped, which is what
\* makes its object finished, with its code.  Until then all calls of wait are
\* in on_finish.
FollowsChild ==
    \A o \in Procs :
        /\ pid[o] = None => status[o] = None /\ ~finished[o] /\ asked[o] = 0
        /\ pid[o] # None /\ status[o] = None =>
              ~finished[o] /\ child[pid[o]] = "running"
        /\ pid[o] # None /\ status[o] # None /\ ~finished[o] =>
              child[pid[o]] = "zombie"
        /\ finished[o] => exit_code[o] = ExitStatus(status[o])
        /\ ~finished[o] => on_finish[o] = asked[o]

\* Every process that the kernel still has is the child of the object that the
\* table has for its pid, and that object is not finished.
ChildHasObject ==
    \A p \in Pids : child[p] # "none" =>
        processes[p] \in Procs /\ pid[processes[p]] = p /\ ~finished[processes[p]]

\* The safety of Process as a whole: every wait for a child is answered once
\* and with its own code, which rests on a table that is current under reuse of
\* pids and on no merged signal leaving a child behind.
ProcessesInv ==
    /\ TypeOK
    /\ TableCurrent /\ ChildHasObject /\ FollowsChild
    /\ NoForgottenChild
    /\ AnsweredOnce

=============================================================================
