----------------------------- MODULE CatProcess ----------------------------
(***************************************************************************)
(* src/cat_process.c: a child process with the coroutines that wait for    *)
(* its exit.  libuv reaps it and calls the exit callback.  The program     *)
(* closes a process only when nobody waits for it any more: nothing in     *)
(* the code would end such a wait.                                         *)
(***************************************************************************)
EXTENDS CatTime, Integers

CONSTANT Process   \* numbers from 1

ASSUME ProcessAssumption == Process \subseteq Nat \ {0}

VARIABLES process,  \* the processes
          prof      \* the process that the call of a coroutine is about

\* What `loop' is while the exit callback of process p notifies.
InExit(p) == -20 - p

NoProcess == [mem |-> "none", exited |-> FALSE, waiters |-> << >>]

ProcessInit ==
  /\ process = [p \in Process |-> NoProcess]
  /\ prof = [c \in Coroutine |-> 0]

\* cat_process_run(): a spawn that fails leaves a handle to close.
cat_process_run(c) ==
  /\ At(c, "user")
  /\ \E p \in Process, mem \in {"open", "closing"} :
       /\ process[p].mem = "none" /\ \A q \in Process : q < p => process[q].mem # "none"
       /\ process' = [process EXCEPT ![p] = [NoProcess EXCEPT !.mem = mem]]
  /\ UNCHANGED << waiting, prof >>

\* Mutant: a process that has exited is waited for.
WaitExited(c, p) ==
  /\ At(c, "user") /\ process[p].mem = "open"
  /\ process' = [process EXCEPT ![p].waiters = Append(@, c)]
  /\ prof' = [prof EXCEPT ![c] = p]
  /\ cat_time_wait(c, "process", TRUE)
  /\ UNCHANGED loop

\* (Nothing is waited for after the exit.)
cat_process_wait(c, p) ==
  /\ At(c, "user") /\ process[p].mem = "open"
  /\ ~ process[p].exited
  /\ process' = [process EXCEPT ![p].waiters = Append(@, c)]
  /\ prof' = [prof EXCEPT ![c] = p]
  /\ cat_time_wait(c, "process", TRUE)
  /\ UNCHANGED loop

ProcessWaited(c) ==
  /\ At(c, "process")
  /\ process' = [process EXCEPT ![prof[c]].waiters = Without(@, c)]
  /\ prof' = [prof EXCEPT ![c] = 0]
  /\ Return(c)
  /\ UNCHANGED loop

cat_process_close(c, p) ==
  /\ At(c, "user") /\ process[p].mem = "open"
  /\ process[p].waiters = << >>
  /\ process' = [process EXCEPT ![p].mem = "closing"]
  /\ UNCHANGED << waiting, prof >>

\* The exit callback notifies the first waiter as long as there is one.
NotifyWaiters(p) ==
  IF process[p].waiters = << >>
  THEN loop' = 0 /\ UNCHANGED << chain, pc, timer >>
  ELSE loop' = InExit(p) /\ Schedule(Head(process[p].waiters))

cat_process_exit_callback(p) ==
  /\ LoopIdle /\ process[p].mem = "open" /\ ~ process[p].exited
  /\ process' = [process EXCEPT ![p].exited = TRUE]
  /\ NotifyWaiters(p)
  /\ UNCHANGED prof

ExitGoesOn(p) ==
  /\ LoopAt(InExit(p))
  /\ NotifyWaiters(p)
  /\ UNCHANGED << process, prof >>

cat_process_close_callback(p) ==
  /\ LoopIdle /\ process[p].mem = "closing"
  /\ process' = [process EXCEPT ![p] = NoProcess]
  /\ UNCHANGED << waiting, prof >>

ProcessNext(c) ==
  \/ cat_process_run(c)
  \/ \E p \in Process : cat_process_wait(c, p) \/ cat_process_close(c, p)
  \/ ProcessWaited(c)

ExitNext ==
  \E p \in Process :
    cat_process_exit_callback(p) \/ ExitGoesOn(p) \/ cat_process_close_callback(p)

-----------------------------------------------------------------------------
\* Once the exit callback has returned nobody waits for the process, however the
\* waiters that it has woken have cancelled each other or waited again, and the
\* callback works on memory that has not been freed.
ExitWakesAll ==
  /\ \A p \in Process : process[p].exited /\ loop # InExit(p) =>
       \A c \in Coroutine : pc[c] = "process" /\ prof[c] = p => c = Running(chain)
  /\ \A p \in Process : loop = InExit(p) => process[p].mem # "none"
=============================================================================
