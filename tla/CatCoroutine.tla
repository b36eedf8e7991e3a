---------------------------- MODULE CatCoroutine ----------------------------
(***************************************************************************)
(* src/cat_coroutine.c: coroutines, the switch between them, the scheduler *)
(* coroutine and wait_all().                                               *)
(*                                                                         *)
(* One thread runs; exactly one coroutine, `current', has the control, and *)
(* it changes only inside jump().  Every action is the code one coroutine  *)
(* executes from one jump to the next.  `cont[c]' is where c stands in the *)
(* library code while it does not run, hence what it does when the control *)
(* comes back:                                                             *)
(*   "none"        there is no such coroutine (not created, or freed)      *)
(*   "new"         created, its function not entered yet                   *)
(*   "user"        in its own code, in resume() or in yield()              *)
(*   "schedule"    in cat_coroutine_schedule() of some other component     *)
(*   "wait_all"    in wait_all_ex()                                        *)
(*   "close_wait"  in the wait_all() of scheduler_close()                  *)
(*   "close_sched" in the schedule() of scheduler_close()                  *)
(*   "shutdown"    in the notify_all() of runtime_shutdown()               *)
(*   "down"        runtime_shutdown() is done                              *)
(*   "init"        the scheduler: in its first yield()                     *)
(*   "top"         the scheduler: at the head of its while loop            *)
(*   "loop"        the scheduler: in schedule(), that is, the event loop   *)
(*   "callback"    the scheduler: in the schedule() of an event callback   *)
(*   "notify"      the scheduler: in notify_all()                          *)
(*   "deadlock"    the scheduler: in deadlock()                            *)
(*   "fault"       beyond the last defined step: CAT_NEVER_HERE, or the    *)
(*                 schedule of a NULL waiter                               *)
(***************************************************************************)
EXTENDS CoroutineChain, FiniteSets

CONSTANTS NULL,             \* the null pointer
          FreedFlags,       \* what the SCHEDULING bit of a freed coroutine reads as
          DeadlockCallback, \* whether set_deadlock_callback() registered one
          WaitAllCallers    \* the coroutines whose code calls wait_all()

ASSUME FiniteAssumption == IsFiniteSet(Coroutine)
ASSUME NullAssumption == NULL \notin Routine
ASSUME FreedFlagsAssumption == FreedFlags \in (SUBSET BOOLEAN) \ {{}}
ASSUME DeadlockCallbackAssumption == DeadlockCallback \in BOOLEAN
ASSUME WaitAllCallersAssumption == WaitAllCallers \subseteq Coroutine

VARIABLES current,       \* CAT_COROUTINE_G(current)
          scheduler,     \* CAT_COROUTINE_G(scheduler)
          state,         \* coroutine->state; "NONE" when there is no coroutine
          previous,      \* coroutine->previous
          next,          \* coroutine->next
          from,          \* coroutine->from
          scheduling,    \* coroutine->flags & CAT_COROUTINE_FLAG_SCHEDULING
          cont,          \* where the coroutine stands (see above)
          count,         \* CAT_COROUTINE_G(count)
          waiters,       \* CAT_COROUTINE_G(waiters), a queue
          waiter_count,  \* CAT_COROUTINE_G(waiter_count)
          notify_left,   \* the `count' notify_all() counts down
          armed,         \* the parked coroutines an event of the loop will wake
          last_chance    \* the deadlock callback has been called in this round

links == << previous, next >>
waitVars == << waiters, waiter_count, notify_left >>
vars == << current, scheduler, state, links, from, scheduling, cont, count,
           waitVars, armed, last_chance >>

Conts == {"none", "new", "user", "schedule", "wait_all", "close_wait",
          "close_sched", "shutdown", "down", "init", "top", "loop", "callback",
          "notify", "deadlock", "fault"}

Init ==
  /\ current = Main
  /\ scheduler = NULL
  /\ state = [c \in Routine |-> IF c = Main THEN "RUNNING" ELSE "NONE"]
  /\ previous = [c \in Routine |-> NULL]
  /\ next = [c \in Routine |-> NULL]
  /\ from = [c \in Routine |-> NULL]
  /\ scheduling = [c \in Routine |-> FALSE]
  /\ cont = [c \in Routine |-> IF c = Main THEN "user" ELSE "none"]
  /\ count = 1
  /\ waiters = << >>
  /\ waiter_count = 0
  /\ notify_left = 0
  /\ armed = {}
  /\ last_chance = FALSE
-----------------------------------------------------------------------------
(* Switching *)

\* Where a coroutine stands once the control is back: schedule() returns to
\* its caller, an event callback to the event loop, a first resume enters the
\* function, the first yield of the scheduler leads to its loop.
Landing(k) == IF k \in {"new", "schedule"} THEN "user"
              ELSE IF k = "callback" THEN "loop"
              ELSE IF k = "init" THEN "top"
              ELSE k

\* Mutant: the state of the coroutine that stops is not updated.
JumpKeepsRunning(target, k, flag, arm) ==
  /\ current' = target
  /\ from' = [from EXCEPT ![target] = current]
  /\ state' = [state EXCEPT ![target] = "RUNNING"]
  /\ cont' = [cont EXCEPT ![current] = k, ![target] = Landing(cont[target])]
  /\ scheduling' = [scheduling EXCEPT ![current] = flag, ![target] = FALSE]
  /\ count' = IF cont[target] = "new" THEN count + 1 ELSE count
  /\ armed' = (armed \cup arm) \ {target}

\* Mutant: schedule() does not clear the bit when it is back.
JumpKeepsFlag(target, k, flag, arm) ==
  /\ current' = target
  /\ from' = [from EXCEPT ![target] = current]
  /\ state' = [state EXCEPT ![current] = "WAITING", ![target] = "RUNNING"]
  /\ cont' = [cont EXCEPT ![current] = k, ![target] = Landing(cont[target])]
  /\ scheduling' = [scheduling EXCEPT ![current] = flag]
  /\ count' = IF cont[target] = "new" THEN count + 1 ELSE count
  /\ armed' = (armed \cup arm) \ {target}

\* Mutant: a wait that is cancelled leaves its timer running.
JumpKeepsTimer(target, k, flag, arm) ==
  /\ current' = target
  /\ from' = [from EXCEPT ![target] = current]
  /\ state' = [state EXCEPT ![current] = "WAITING", ![target] = "RUNNING"]
  /\ cont' = [cont EXCEPT ![current] = k, ![target] = Landing(cont[target])]
  /\ scheduling' = [scheduling EXCEPT ![current] = flag, ![target] = FALSE]
  /\ count' = IF cont[target] = "new" THEN count + 1 ELSE count
  /\ armed' = (armed \cup arm)

\* cat_coroutine_jump_standard() from the current coroutine, which stops at k
\* (with its SCHEDULING bit as given, and woken by an event of the loop if it
\* is in `arm'), to the target, up to and including what
\* the target does before its next decision: context_function() counts a
\* coroutine it starts, schedule() clears the bit it set.
Jump(target, k, flag, arm) ==
  /\ current' = target
  /\ from' = [from EXCEPT ![target] = current]
  /\ state' = [state EXCEPT ![current] = "WAITING", ![target] = "RUNNING"]
  /\ cont' = [cont EXCEPT ![current] = k, ![target] = Landing(cont[target])]
  /\ scheduling' = [scheduling EXCEPT ![current] = flag, ![target] = FALSE]
  /\ count' = IF cont[target] = "new" THEN count + 1 ELSE count
  /\ armed' = (armed \cup arm) \ {target}

\* Mutant: the coroutine behind the target is not linked to the one before it.
LinkLosesNext(target) ==
  /\ previous' = [previous EXCEPT ![target] = current]
  /\ next' = [c \in Routine |->
                IF c = current THEN target
                ELSE IF c = target THEN NULL
                ELSE IF c = previous[target] THEN next[target]
                ELSE next[c]]

\* The pointer surgery of cat_coroutine_resume(): take the target out of the
\* list, put it behind the current coroutine.
Link(target) ==
  /\ previous' = [c \in Routine |->
                    IF c = target THEN current
                    ELSE IF c = next[target] THEN previous[target]
                    ELSE previous[c]]
  /\ next' = [c \in Routine |->
                IF c = current THEN target
                ELSE IF c = target THEN NULL
                ELSE IF c = previous[target] THEN next[target]
                ELSE next[c]]

\* cat_coroutine_resume(): check_resumability() lets only a waiting one pass.
ResumeTo(target, k, flag) ==
  /\ state[target] = "WAITING"
  /\ Link(target)
  /\ Jump(target, k, flag, {})

\* Mutant: a yield always goes to the scheduler when there is one.
YieldTargetScheduler ==
  IF scheduler \notin {NULL, current} THEN scheduler ELSE previous[current]

\* Where cat_coroutine_yield() goes, and whether there is somewhere to go.
YieldTarget == IF previous[current] # NULL THEN previous[current] ELSE scheduler

CanYield == YieldTarget \notin {NULL, current}

Unlink(target) ==
  /\ previous' = [previous EXCEPT ![current] = NULL]
  /\ next' = [next EXCEPT ![target] = NULL]

YieldWith(k, arm) ==
  /\ CanYield
  /\ Unlink(YieldTarget)
  /\ Jump(YieldTarget, k, FALSE, arm)

\* The end of context_function(): the coroutine is marked dead and yields; the
\* coroutine that gets the control frees it.
Die ==
  LET target == YieldTarget
  IN  /\ CanYield
      /\ Unlink(target)
      /\ current' = target
      /\ from' = [from EXCEPT ![target] = current]
      /\ state' = [state EXCEPT ![current] = "NONE", ![target] = "RUNNING"]
      /\ cont' = [cont EXCEPT ![current] = "none", ![target] = Landing(cont[target])]
      /\ scheduling' = [scheduling EXCEPT ![target] = FALSE]
      /\ armed' = armed

\* What coroutine->from->flags & CAT_COROUTINE_FLAG_SCHEDULING can read as; the
\* coroutine `from' points to may have been freed.
FromFlag(c) == IF state[from[c]] = "NONE" THEN FreedFlags ELSE {scheduling[from[c]]}
-----------------------------------------------------------------------------
(* What a running coroutine may call *)

\* c runs its own code.
InUser(c) == current = c /\ cont[c] = "user"

\* A coroutine in yield() on behalf of some component: it is off the chain.
Parked(c) == /\ cont[c] = "user" /\ state[c] = "WAITING"
             /\ previous[c] = NULL /\ next[c] = NULL

cat_coroutine_create(c, t) ==
  /\ InUser(c)
  /\ t # Main /\ state[t] = "NONE"
  /\ state' = [state EXCEPT ![t] = "WAITING"]
  /\ previous' = [previous EXCEPT ![t] = NULL]
  /\ next' = [next EXCEPT ![t] = NULL]
  /\ from' = [from EXCEPT ![t] = NULL]
  /\ scheduling' = [scheduling EXCEPT ![t] = FALSE]
  /\ cont' = [cont EXCEPT ![t] = "new"]
  /\ UNCHANGED << current, scheduler, count, waitVars, armed, last_chance >>

\* Only a coroutine that exists and is not alive, one that never ran, is freed.
cat_coroutine_close(c, t) ==
  /\ InUser(c)
  /\ state[t] # "NONE" /\ cont[t] = "new"
  /\ state' = [state EXCEPT ![t] = "NONE"]
  /\ cont' = [cont EXCEPT ![t] = "none"]
  /\ UNCHANGED << current, scheduler, links, from, scheduling, count, waitVars,
                  armed, last_chance >>

cat_coroutine_resume(c, t) ==
  /\ InUser(c)
  /\ ResumeTo(t, "user", FALSE)
  /\ UNCHANGED << scheduler, waitVars, last_chance >>

\* Some other component wakes a coroutine parked in one of its operations.
cat_coroutine_schedule(c, t) ==
  /\ InUser(c)
  /\ Parked(t)
  /\ ResumeTo(t, "schedule", TRUE)
  /\ UNCHANGED << scheduler, waitVars, last_chance >>

\* Park; `arm' says whether an event of the loop (a timer, IO) will wake c.
cat_coroutine_yield(c, arm) ==
  /\ InUser(c)
  /\ YieldWith("user", IF arm THEN {c} ELSE {})
  /\ UNCHANGED << scheduler, waitVars, last_chance >>

\* Mutant: the count of coroutines is not decremented.
FinishUncounted(c) ==
  /\ InUser(c) /\ c # Main
  /\ Die
  /\ UNCHANGED << scheduler, count, waitVars, last_chance >>

\* The function of c returns.
Finish(c) ==
  /\ InUser(c) /\ c # Main
  /\ Die
  /\ count' = count - 1
  /\ UNCHANGED << scheduler, waitVars, last_chance >>

\* It returns and has nowhere to go: CAT_NEVER_HERE("Coroutine is dead").
FinishNowhere(c) ==
  /\ InUser(c) /\ c # Main
  /\ ~CanYield
  /\ count' = count - 1
  /\ state' = [state EXCEPT ![c] = "DEAD"]
  /\ cont' = [cont EXCEPT ![c] = "fault"]
  /\ UNCHANGED << current, scheduler, links, from, scheduling, waitVars, armed,
                  last_chance >>
-----------------------------------------------------------------------------
(* wait_all and notify_all *)

WaitAll(c, k, arm) ==
  /\ YieldWith(k, arm)
  /\ waiters' = Append(waiters, c)
  /\ waiter_count' = waiter_count + 1
  /\ UNCHANGED << scheduler, notify_left, last_chance >>

\* wait_all_ex(); `timed': with a timeout.
cat_coroutine_wait_all_ex(c, timed) ==
  /\ InUser(c) /\ c \in WaitAllCallers
  /\ WaitAll(c, "wait_all", IF timed THEN {c} ELSE {})

\* Mutant: the front of the queue leaves, not the coroutine itself.
LeaveWaitersFront(c) ==
  /\ waiters' = Tail(waiters)
  /\ waiter_count' = waiter_count - 1

LeaveWaiters(c) ==
  /\ waiters' = Without(waiters, c)
  /\ waiter_count' = waiter_count - 1

\* wait_all_ex() after its cat_time_wait(); the result is the caller's.
WaitAllReturn(c) ==
  /\ current = c /\ cont[c] = "wait_all"
  /\ LeaveWaiters(c)
  /\ cont' = [cont EXCEPT ![c] = "user"]
  /\ UNCHANGED << current, scheduler, state, links, from, scheduling, count,
                  notify_left, armed, last_chance >>

\* One iteration of notify_all() by n, which stands at k.
NotifyNext(n, k) ==
  /\ current = n /\ cont[n] = k
  /\ notify_left > 0 /\ waiters # << >>
  /\ ResumeTo(Head(waiters), k, TRUE)
  /\ notify_left' = notify_left - 1
  /\ UNCHANGED << scheduler, waiters, waiter_count, last_chance >>

\* The same with the queue drained: cat_queue_front_data() is NULL.
NotifyNull(n, k) ==
  /\ current = n /\ cont[n] = k
  /\ notify_left > 0 /\ waiters = << >>
  /\ cont' = [cont EXCEPT ![n] = "fault"]
  /\ UNCHANGED << current, scheduler, state, links, from, scheduling, count,
                  waitVars, armed, last_chance >>
-----------------------------------------------------------------------------
(* The scheduler coroutine *)

\* scheduler_run(): create the scheduler, resume it; its function registers
\* itself, takes itself out of the count and yields back.
cat_coroutine_scheduler_run ==
  /\ InUser(Main)
  /\ scheduler = NULL /\ state[Scheduler] = "NONE"
  /\ scheduler' = Scheduler
  /\ state' = [state EXCEPT ![Scheduler] = "WAITING"]
  /\ from' = [from EXCEPT ![Scheduler] = Main, ![Main] = Scheduler]
  /\ scheduling' = [scheduling EXCEPT ![Scheduler] = FALSE]
  /\ cont' = [cont EXCEPT ![Scheduler] = "init"]
  /\ previous' = [previous EXCEPT ![Scheduler] = NULL]
  /\ next' = [next EXCEPT ![Scheduler] = NULL]
  /\ UNCHANGED << current, count, waitVars, armed, last_chance >>

AtScheduler(k) == current = Scheduler /\ cont[Scheduler] = k

\* The scheduler goes on at k without a switch.
SchedulerAt(k) ==
  /\ cont' = [cont EXCEPT ![Scheduler] = k]
  /\ UNCHANGED << current, scheduler, state, links, from, scheduling, count,
                  armed >>

\* while (!(coroutine->from->flags & CAT_COROUTINE_FLAG_SCHEDULING)): go on.
SchedulerLoop ==
  /\ AtScheduler("top")
  /\ FALSE \in FromFlag(Scheduler)
  /\ SchedulerAt("loop")
  /\ last_chance' = FALSE
  /\ UNCHANGED waitVars

\* Mutant: the pointer to the scheduler is not reset.
SchedulerExitKeepsPointer ==
  /\ AtScheduler("top")
  /\ TRUE \in FromFlag(Scheduler)
  /\ Die
  /\ UNCHANGED << scheduler, count, waitVars, last_chance >>

\* The loop ends: the scheduler unregisters itself and its function returns.
SchedulerExit ==
  /\ AtScheduler("top")
  /\ TRUE \in FromFlag(Scheduler)
  /\ scheduler' = NULL
  /\ Die
  /\ UNCHANGED << count, waitVars, last_chance >>

\* Mutant: the loop ends when nothing is left to do.
SchedulerStrandedEarly ==
  /\ AtScheduler("top")
  /\ TRUE \in FromFlag(Scheduler) \/ armed = {}
  /\ ~CanYield
  /\ scheduler' = NULL
  /\ state' = [state EXCEPT ![Scheduler] = "DEAD"]
  /\ cont' = [cont EXCEPT ![Scheduler] = "fault"]
  /\ UNCHANGED << current, links, from, scheduling, count, waitVars, armed,
                  last_chance >>

\* The same with no coroutine to return to: CAT_NEVER_HERE.
SchedulerStranded ==
  /\ AtScheduler("top")
  /\ TRUE \in FromFlag(Scheduler)
  /\ ~CanYield
  /\ scheduler' = NULL
  /\ state' = [state EXCEPT ![Scheduler] = "DEAD"]
  /\ cont' = [cont EXCEPT ![Scheduler] = "fault"]
  /\ UNCHANGED << current, links, from, scheduling, count, waitVars, armed,
                  last_chance >>

\* The event loop runs the callback of an event: it schedules the coroutine
\* that waits for it.
EventCallback(t) ==
  /\ AtScheduler("loop")
  /\ t \in armed
  /\ ResumeTo(t, "callback", TRUE)
  /\ UNCHANGED << scheduler, waitVars, last_chance >>

\* schedule() returns once nothing is pending in the event loop.
LoopDrained == AtScheduler("loop") /\ armed = {}

\* Mutant: the caller's own coroutine is not counted.
IsUnfinishedOffByOne == count > waiter_count + 1

\* count - waiter_count > 0, and both are unsigned.
is_unfinished == count # waiter_count

\* "There is only one chance": the callback may wake a parked coroutine.
CallDeadlockCallback(t) ==
  /\ LoopDrained /\ is_unfinished
  /\ DeadlockCallback /\ ~last_chance
  /\ last_chance' = TRUE
  /\ Parked(t)
  /\ ResumeTo(t, "callback", TRUE)
  /\ UNCHANGED << scheduler, waitVars >>

\* The callback wakes nobody, schedule() has nothing to do.
CallDeadlockCallbackInVain ==
  /\ LoopDrained /\ is_unfinished
  /\ DeadlockCallback /\ ~last_chance
  /\ last_chance' = TRUE
  /\ SchedulerAt("loop")
  /\ UNCHANGED waitVars

cat_coroutine_deadlock ==
  /\ LoopDrained /\ is_unfinished
  /\ DeadlockCallback => last_chance
  /\ SchedulerAt("deadlock")
  /\ UNCHANGED << waitVars, last_chance >>

\* cat_coroutine_unlock_deadlock(), from a signal handler or a debugger.
cat_coroutine_unlock_deadlock ==
  /\ AtScheduler("deadlock")
  /\ SchedulerAt("top")
  /\ UNCHANGED << waitVars, last_chance >>

\* The callback was of use: `continue' skips notify_all() in this round.
SkipNotify ==
  /\ LoopDrained /\ ~is_unfinished
  /\ last_chance
  /\ SchedulerAt("top")
  /\ UNCHANGED << waitVars, last_chance >>

\* Mutant: notify_all() counts one waiter too many.
StartNotifyOneMore ==
  /\ LoopDrained /\ ~is_unfinished
  /\ ~last_chance
  /\ notify_left' = waiter_count + 1
  /\ SchedulerAt("notify")
  /\ UNCHANGED << waiters, waiter_count, last_chance >>

\* Mutant: notify_all() stops one waiter early.
StartNotifyOneLess ==
  /\ LoopDrained /\ ~is_unfinished
  /\ ~last_chance
  /\ notify_left' = waiter_count - 1
  /\ SchedulerAt("notify")
  /\ UNCHANGED << waiters, waiter_count, last_chance >>

StartNotify ==
  /\ LoopDrained /\ ~is_unfinished
  /\ ~last_chance
  /\ notify_left' = waiter_count
  /\ SchedulerAt("notify")
  /\ UNCHANGED << waiters, waiter_count, last_chance >>

EndNotify ==
  /\ AtScheduler("notify")
  /\ notify_left = 0
  /\ SchedulerAt("top")
  /\ UNCHANGED << waitVars, last_chance >>
-----------------------------------------------------------------------------
(* Closing *)

\* Mutant: the scheduler is unregistered before the wait.
SchedulerCloseEarly ==
  /\ InUser(Main)
  /\ scheduler # NULL
  /\ YieldWith("close_wait", {})
  /\ waiters' = Append(waiters, Main)
  /\ waiter_count' = waiter_count + 1
  /\ scheduler' = NULL
  /\ UNCHANGED << notify_left, last_chance >>

\* scheduler_close(), up to its wait_all().
cat_coroutine_scheduler_close ==
  /\ InUser(Main)
  /\ scheduler # NULL
  /\ WaitAll(Main, "close_wait", {})

\* That wait_all() is `done', woken by a schedule(): schedule the scheduler so that it exits.
CloseScheduler ==
  /\ current = Main /\ cont[Main] = "close_wait"
  /\ TRUE \in FromFlag(Main)
  /\ LeaveWaiters(Main)
  /\ ResumeTo(Scheduler, "close_sched", TRUE)
  /\ UNCHANGED << scheduler, notify_left, last_chance >>

\* It was cancelled: wait again (the coroutine goes to the end of the queue).
CloseWaitAgain ==
  /\ current = Main /\ cont[Main] = "close_wait"
  /\ FALSE \in FromFlag(Main)
  /\ YieldWith("close_wait", {})
  /\ waiters' = Append(Without(waiters, Main), Main)
  /\ UNCHANGED << scheduler, waiter_count, notify_left, last_chance >>

\* The schedule() of scheduler_close() is back.
CloseReturn ==
  /\ current = Main /\ cont[Main] = "close_sched"
  /\ cont' = [cont EXCEPT ![Main] = "user"]
  /\ UNCHANGED << current, scheduler, state, links, from, scheduling, count,
                  waitVars, armed, last_chance >>

\* Mutant: `while (--count)'.
RuntimeShutdownOffByOne ==
  /\ InUser(Main)
  /\ scheduler = NULL
  /\ notify_left' = waiter_count - 1
  /\ cont' = [cont EXCEPT ![Main] = "shutdown"]
  /\ UNCHANGED << current, scheduler, state, links, from, scheduling, count,
                  waiters, waiter_count, armed, last_chance >>

\* runtime_shutdown(): notify_all() for the non-scheduler mode.
cat_coroutine_runtime_shutdown ==
  /\ InUser(Main)
  /\ scheduler = NULL
  /\ notify_left' = waiter_count
  /\ cont' = [cont EXCEPT ![Main] = "shutdown"]
  /\ UNCHANGED << current, scheduler, state, links, from, scheduling, count,
                  waiters, waiter_count, armed, last_chance >>

ShutdownReturn ==
  /\ current = Main /\ cont[Main] = "shutdown"
  /\ notify_left = 0
  /\ cont' = [cont EXCEPT ![Main] = "down"]
  /\ UNCHANGED << current, scheduler, state, links, from, scheduling, count,
                  waitVars, armed, last_chance >>

\* Nothing runs any more.
Halted == cont[current] \in {"down", "fault"} /\ UNCHANGED vars
-----------------------------------------------------------------------------
UserStep(c) ==
  \/ \E t \in Coroutine : \/ cat_coroutine_create(c, t)
                         \/ cat_coroutine_close(c, t)
                         \/ cat_coroutine_resume(c, t)
                         \/ cat_coroutine_schedule(c, t)
  \/ \E b \in BOOLEAN : \/ cat_coroutine_yield(c, b)
                       \/ cat_coroutine_wait_all_ex(c, b)
  \/ Finish(c)
  \/ FinishNowhere(c)
  \/ WaitAllReturn(c)

MainStep ==
  \/ cat_coroutine_scheduler_run
  \/ cat_coroutine_scheduler_close
  \/ CloseScheduler
  \/ CloseWaitAgain
  \/ CloseReturn
  \/ cat_coroutine_runtime_shutdown
  \/ NotifyNext(Main, "shutdown")
  \/ NotifyNull(Main, "shutdown")
  \/ ShutdownReturn

SchedulerStep ==
  \/ SchedulerLoop
  \/ SchedulerExit
  \/ SchedulerStranded
  \/ \E t \in Coroutine : EventCallback(t) \/ CallDeadlockCallback(t)
  \/ CallDeadlockCallbackInVain
  \/ cat_coroutine_deadlock
  \/ SkipNotify
  \/ StartNotify
  \/ NotifyNext(Scheduler, "notify")
  \/ NotifyNull(Scheduler, "notify")
  \/ EndNotify

Next ==
  \/ \E c \in Coroutine : UserStep(c)
  \/ MainStep
  \/ SchedulerStep
  \/ cat_coroutine_unlock_deadlock
  \/ Halted

Spec == Init /\ [][Next]_vars

\* The thread runs: the scheduler takes a step it can take, and the event loop
\* waits until an event it has been armed for happens.
FairSpec == Spec /\ WF_vars(SchedulerStep)
-----------------------------------------------------------------------------
(* Properties *)

\* Every variable has its type.
TypeOK ==
  /\ current \in Routine
  /\ scheduler \in {NULL, Scheduler}
  /\ state \in [Routine -> {"NONE", "WAITING", "RUNNING", "DEAD"}]
  /\ previous \in [Routine -> Routine \cup {NULL}]
  /\ next \in [Routine -> Routine \cup {NULL}]
  /\ from \in [Routine -> Routine \cup {NULL}]
  /\ scheduling \in [Routine -> BOOLEAN]
  /\ cont \in [Routine -> Conts]
  /\ count \in Nat
  /\ waiters \in Seq(Coroutine)
  /\ waiter_count \in Nat
  /\ notify_left \in Nat
  /\ armed \subseteq Coroutine
  /\ last_chance \in BOOLEAN

\* The previous/next pointers of cat_coroutine_t are one doubly linked list
\* that ends in the running coroutine, after any mix of resume(), cross resume,
\* schedule() and yield(); no coroutine that is freed is linked.
LinksSound ==
  /\ next[current] = NULL
  /\ \A c \in Routine : previous[c] # NULL => next[previous[c]] = c
  /\ \A c \in Routine : next[c] # NULL => previous[next[c]] = c
  /\ \A c \in Routine : previous[c] # NULL \/ next[c] # NULL =>
                          /\ state[c] \in {"RUNNING", "WAITING"}
                          /\ cont[c] # "new"

\* Exactly the current coroutine is in state RUNNING (unless it just died with
\* nowhere to go): check_resumability() refuses this one, and no waiting one.
OneRunning ==
  \A c \in Routine : state[c] = "RUNNING" <=> c = current /\ state[current] # "DEAD"

Alive(c) == cont[c] \notin {"none", "new"} /\ state[c] # "DEAD"

\* CAT_COROUTINE_G(count), on which deadlock detection and wait_all() rest, is
\* the number of started and unfinished coroutines, the scheduler left out.
CountExact == count = Cardinality({c \in Coroutine : Alive(c)})

InWaitAll(c) == cont[c] \in {"wait_all", "close_wait"}

\* The waiters queue holds, once each, the coroutines inside wait_all(), and
\* waiter_count is its length: a cancelled or timed out wait leaves nothing.
WaitersExact ==
  /\ waiter_count = Len(waiters)
  /\ OnChain(waiters) = {c \in Routine : InWaitAll(c)}
  /\ \A i, j \in DOMAIN waiters : waiters[i] = waiters[j] => i = j

\* The SCHEDULING bit, toggled with ^=, is set exactly while the coroutine is
\* inside schedule(), also when it is resumed out of it by a third coroutine.
SchedulingExact ==
  \A c \in Routine :
    scheduling[c] <=> /\ c # current
                      /\ cont[c] \in {"schedule", "callback", "close_sched",
                                      "notify", "shutdown"}

\* The run chain, read off the pointers.
ChainOf ==
  LET upTo[c \in Routine] == IF previous[c] = NULL THEN << c >>
                             ELSE Append(upTo[previous[c]], c)
  IN  upTo[current]

Chain == INSTANCE CoroutineChainSpec WITH
           chain <- ChainOf,
           idle <- {c \in Routine : state[c] # "NONE"} \ OnChain(ChainOf)

\* The pointer code implements the run chain: every resume moves the target to
\* the end, every yield continues the coroutine before, or the scheduler.
RefinesChain == Chain!ChainSpec

\* A waiting coroutine an event will wake is off the chain and waits.
ArmedParked == \A c \in armed : /\ state[c] = "WAITING"
                                /\ previous[c] = NULL /\ next[c] = NULL
                                /\ cont[c] \in {"user", "wait_all"}

\* What the code keeps in several places says the same in all of them: the state
\* RUNNING and `current', the count and the coroutines that live, the queue of
\* wait_all() with its count and the coroutines in it, the SCHEDULING bits and the
\* coroutines in schedule(), the pending events and the coroutines that are parked.
StateExact ==
  TypeOK /\ OneRunning /\ CountExact /\ WaitersExact /\ SchedulingExact /\ ArmedParked

\* The scheduler leaves its loop only because scheduler_close() asked it to.
SchedulerExitsWhenClosed ==
  [][scheduler # NULL /\ scheduler' = NULL => cont[Main] = "close_sched"]_vars

\* scheduler_close(): "wait all coroutines done before we close scheduler".  The
\* scheduler is told to exit only when no other coroutine is left, but for those
\* that wait for all coroutines themselves.
CloseWaitsForAll ==
  current = Scheduler /\ cont[Main] = "close_sched" =>
    \A c \in Coroutine \ {Main} : Alive(c) => InWaitAll(c)

\* scheduler_close(): CAT_ASSERT(CAT_COROUTINE_G(scheduler) == NULL) after its
\* schedule().
CloseAssert == current = Main /\ cont[Main] = "close_sched" => scheduler = NULL

\* notify_all() resumes as many waiters as it recorded: it never runs out.
NotifyFindsWaiter ==
  cont[current] \in {"notify", "shutdown"} /\ notify_left > 0 => waiters # << >>

\* The scheduler never spins: again and again it hands the control to some
\* coroutine, or it has reported the deadlock and sleeps.  The `continue' after
\* the deadlock callback skips notify_all() for one round only.
SchedulerHandsOver ==
  []<>(current # Scheduler \/ cont[Scheduler] \in {"deadlock", "fault"})

\* The scheduler never reaches CAT_NEVER_HERE("Coroutine is dead").
SchedulerNotStranded == state[Scheduler] # "DEAD"

\* The assertion of scheduler_close() holds, notify_all() finds whom it has counted
\* and the scheduler does not die, however coroutines resume each other on the way.
CloseSafe == CloseAssert /\ NotifyFindsWaiter /\ SchedulerNotStranded
=============================================================================
