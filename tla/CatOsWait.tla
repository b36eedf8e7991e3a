----------------------------- MODULE CatOsWait -----------------------------
(***************************************************************************)
(* src/cat_os_wait.c: wait(), waitpid() and their variants.  The process   *)
(* has one way to hear of its children, wait4() of any of them, and        *)
(* whoever calls it (dispatch()) hands what it hears to the coroutines     *)
(* that wait, or saves it.  The dispatcher runs in the SIGCHLD handler     *)
(* and in every coroutine that is about to wait, and it switches to those  *)
(* that it serves: dispatchers nest.                                       *)
(***************************************************************************)
EXTENDS CatTime, FiniteSets, Integers

CONSTANT Pid   \* the children

\* (NULL stands for -1, any child, which is no pid.)
ASSUME PidAssumption == NULL \notin Pid

VARIABLES kid,       \* the kernel: "running", "stopping", "stopped", "zombie", "gone"
          sigchld,   \* a SIGCHLD is on its way to the loop
          watchers,  \* sigchld_watcher_count
          saved,     \* child_process_state_tree
          list,      \* waiter_list
          task,      \* waitpid_task_tree
          osw,       \* the frames of wait() and of dispatch()
          heard      \* the children whose exit a call has returned, and those of others

oswait == << kid, sigchld, watchers, saved, list, task, osw, heard >>

\* What `loop' is while the SIGCHLD handler is under way.
InSigchld == -10

NoTask == [mem |-> FALSE, status |-> "none", count |-> 0, waiters |-> << >>]

\* A frame: the child asked for (NULL for any) and the one told, of the waiting
\* coroutine; of its dispatcher, `new', and the waiters `left' to notify of `pid'.
\* `stale' is set when the task is freed that the dispatcher will look at again.
NoFrame == [want |-> NULL, told |-> NULL, status |-> "none", new |-> 0,
            pid |-> NULL, left |-> 0, stale |-> FALSE]

\* Those in kids are children of the program.
OsWaitInit(kids) ==
  /\ kid = [p \in Pid |-> IF p \in kids THEN "running" ELSE "gone"]
  /\ sigchld = FALSE
  /\ watchers = 0
  /\ saved = [p \in Pid |-> "none"]
  /\ list = << >>
  /\ task = [p \in Pid |-> NoTask]
  /\ osw = [x \in Routine |-> NoFrame]
  /\ heard = Pid \ kids

-----------------------------------------------------------------------------
\* The children.

\* kill(want, 0) finds no process.
Gone(want) == want \in Pid /\ kid[want] = "gone"

Ready(p) == kid[p] \in {"stopping", "zombie"}

KidChanges(p, from, to) ==
  /\ kid[p] \in from
  /\ kid' = [kid EXCEPT ![p] = to]
  /\ sigchld' = (sigchld \/ watchers > 0)
  /\ UNCHANGED << watchers, saved, list, task, osw, heard, waiting >>

\* A child that has been stopped may go on, and exit, unnoticed.
KidExits(p) == KidChanges(p, {"running", "stopping", "stopped"}, "zombie")
KidStops(p) == KidChanges(p, {"running"}, "stopping")

\* wait4(-1, WNOHANG | WUNTRACED) returns p; its status.
Status(p) == IF kid[p] = "zombie" THEN "exited" ELSE "stopped"
wait4(p) == kid' = [kid EXCEPT ![p] = IF @ = "zombie" THEN "gone" ELSE "stopped"]

-----------------------------------------------------------------------------
\* The calls.

\* cat_os__wait() returns.
WaitReturns(c) ==
  /\ Return(c)
  /\ watchers' = watchers - 1
  /\ UNCHANGED << kid, sigchld, loop >>

\* Mutant: the watcher is started by the first waiter that parks.
WaitUnwatched(c, want) ==
  /\ At(c, "user")
  /\ pc' = [pc EXCEPT ![c] = "os_check"]
  /\ osw' = [osw EXCEPT ![c] = [NoFrame EXCEPT !.want = want]]
  /\ watchers' = IF list = << >> THEN watchers ELSE watchers + 1
  /\ UNCHANGED << chain, timer, loop, kid, sigchld, saved, list, task, heard >>

\* wait(), wait3(), waitpid(), wait4(): the watcher is started first.
cat_os__wait_wrapper(c, want) ==
  /\ At(c, "user")
  /\ pc' = [pc EXCEPT ![c] = "os_check"]
  /\ osw' = [osw EXCEPT ![c] = [NoFrame EXCEPT !.want = want]]
  /\ watchers' = watchers + 1
  /\ UNCHANGED << chain, timer, loop, kid, sigchld, saved, list, task, heard >>

\* Something saved is taken; a child that does not exist is an error; otherwise
\* the caller dispatches what there is.
cat_os__wait(c) ==
  /\ At(c, "os_check")
  /\ LET want == osw[c].want
         hit  == { p \in Pid : saved[p] # "none" /\ want \in {NULL, p} }
     IN  \/ \E p \in hit :
              /\ saved' = [saved EXCEPT ![p] = "none"]
              /\ heard' = IF saved[p] = "exited" THEN heard \cup {p} ELSE heard
              /\ osw' = [osw EXCEPT ![c] = NoFrame]
              /\ WaitReturns(c)
         \/ /\ hit = {} /\ Gone(want)
            /\ osw' = [osw EXCEPT ![c] = NoFrame]
            /\ WaitReturns(c)
            /\ UNCHANGED << saved, heard >>
         \/ /\ hit = {} /\ ~ Gone(want)
            /\ pc' = [pc EXCEPT ![c] = "os_dispatch"]
            /\ osw' = [osw EXCEPT ![c].new = 0]
            /\ UNCHANGED << chain, timer, loop, kid, sigchld, watchers, saved, heard >>
  /\ UNCHANGED << list, task >>

\* Mutant: only the waiter that creates the task is counted.
JoinUncounted(c) ==
  LET want == osw[c].want
      t == task[want]
  IN  /\ IF want = NULL
         THEN list' = Append(list, c) /\ UNCHANGED task
         ELSE /\ task' = [task EXCEPT ![want] = [t EXCEPT !.mem = TRUE, !.count = 1,
                                                          !.waiters = Append(t.waiters, c)]]
              /\ UNCHANGED list
      /\ cat_time_wait(c, "os_wait", TRUE)
      /\ UNCHANGED << loop, kid, sigchld, watchers, saved, osw, heard >>

\* The caller becomes a waiter.
JoinWaiters(c) ==
  LET want == osw[c].want
      t == task[want]
  IN  /\ IF want = NULL
         THEN list' = Append(list, c) /\ UNCHANGED task
         ELSE /\ task' = [task EXCEPT ![want] = [t EXCEPT !.mem = TRUE, !.count = t.count + 1,
                                                          !.waiters = Append(t.waiters, c)]]
              /\ UNCHANGED list
      /\ cat_time_wait(c, "os_wait", TRUE)
      /\ UNCHANGED << loop, kid, sigchld, watchers, saved, osw, heard >>

\* The wait is over.  The last waiter for a child frees the task.
OsWaited(c) ==
  /\ At(c, "os_wait")
  /\ LET p == osw[c].want
         ok == ~ TimedOut(c)
     IN  IF p = NULL
         THEN /\ list' = Without(list, c)
              /\ heard' = IF ok /\ osw[c].status = "exited" THEN heard \cup {osw[c].told} ELSE heard
              /\ osw' = [osw EXCEPT ![c] = NoFrame]
              /\ UNCHANGED task
         ELSE LET t == [task[p] EXCEPT !.count = @ - 1, !.waiters = Without(@, c)] IN
              /\ task' = [task EXCEPT ![p] = IF t.count = 0 THEN NoTask ELSE t]
              /\ heard' = IF ok /\ t.status = "exited" THEN heard \cup {p} ELSE heard
              /\ osw' = [x \in Routine |->
                           IF x = c THEN NoFrame
                           ELSE [osw[x] EXCEPT !.stale = @ \/ (t.count = 0 /\ osw[x].pid = p
                                                              /\ osw[x].left > 1)]]
              /\ UNCHANGED list
  /\ WaitReturns(c)
  /\ UNCHANGED saved

-----------------------------------------------------------------------------
\* The dispatcher, in a coroutine or in the loop.

Dispatching(x) ==
  /\ ~ osw[x].stale
  /\ \/ x \in Coroutine /\ At(x, "os_dispatch")
     \/ x = Scheduler /\ LoopAt(InSigchld)

\* The dispatcher tells the first waiter for p, and switches to it.
NotifyOne(x, p, status, left) ==
  /\ task' = [task EXCEPT ![p].status = status]
  /\ osw' = [osw EXCEPT ![x].pid = p, ![x].status = status, ![x].left = left]
  /\ Schedule(Head(task[p].waiters))

\* A child that nobody waits for is saved, unless the tree has something of it.
Save(x, p, status) ==
  /\ saved' = [saved EXCEPT ![p] = IF @ = "none" THEN status ELSE @]
  /\ osw' = [osw EXCEPT ![x].new = @ + 1]

\* Mutant: a child with waiters is given to the first of wait() as well.
DispatchListFirst(x) ==
  /\ Dispatching(x) /\ osw[x].left = 0
  /\ \E p \in Pid :
       /\ Ready(p) /\ wait4(p)
       /\ IF list # << >>
          THEN /\ osw' = [osw EXCEPT ![Head(list)].told = p, ![Head(list)].status = Status(p)]
               /\ Schedule(Head(list))
               /\ UNCHANGED << task, saved >>
          ELSE /\ osw' = [osw EXCEPT ![x].new = @ + 1]
               /\ UNCHANGED << chain, pc, timer, task, saved >>
  /\ UNCHANGED << loop, sigchld, watchers, list, heard >>

\* One round of cat_os_wait_dispatch(), up to the first switch.
cat_os_wait_dispatch(x) ==
  /\ Dispatching(x) /\ osw[x].left = 0
  /\ \E p \in Pid :
       /\ Ready(p) /\ wait4(p)
       /\ \/ /\ task[p].mem
             /\ NotifyOne(x, p, Status(p), task[p].count)
             /\ UNCHANGED saved
          \/ /\ ~ task[p].mem /\ list # << >>
             /\ osw' = [osw EXCEPT ![Head(list)].told = p, ![Head(list)].status = Status(p)]
             /\ Schedule(Head(list))
             /\ UNCHANGED << task, saved >>
          \/ /\ ~ task[p].mem /\ list = << >>
             /\ Save(x, p, Status(p))
             /\ UNCHANGED << chain, pc, timer, task >>
  /\ UNCHANGED << loop, sigchld, watchers, list, heard >>

\* Mutant: all waiters are notified, those too that have joined meanwhile.
NotifyAll(x) ==
  /\ Dispatching(x) /\ osw[x].left > 0
  /\ LET p == osw[x].pid IN
     IF task[p].waiters = << >>
     THEN /\ osw' = [osw EXCEPT ![x].left = 0]
          /\ UNCHANGED << chain, pc, timer, task >>
     ELSE NotifyOne(x, p, osw[x].status, 2)
  /\ UNCHANGED << loop, kid, sigchld, watchers, saved, list, heard >>

\* A waiter for osw[x].pid has been notified: the next of those counted before.
DispatchGoesOn(x) ==
  /\ Dispatching(x) /\ osw[x].left > 0
  /\ LET p == osw[x].pid IN
     IF osw[x].left = 1 \/ task[p].waiters = << >>
     THEN /\ osw' = [osw EXCEPT ![x].left = 0]
          /\ UNCHANGED << chain, pc, timer, task >>
     ELSE NotifyOne(x, p, osw[x].status, osw[x].left - 1)
  /\ UNCHANGED << loop, kid, sigchld, watchers, saved, list, heard >>

\* There is nothing more to dispatch.
DispatchDone(x) ==
  /\ Dispatching(x) /\ osw[x].left = 0
  /\ \A p \in Pid : ~ Ready(p)
  /\ \/ /\ x = Scheduler
        /\ loop' = 0
        /\ osw' = [osw EXCEPT ![x] = NoFrame]
        /\ UNCHANGED << chain, pc, timer, kid, sigchld, watchers, saved, list, task, heard >>
     \/ /\ x \in Coroutine /\ osw[x].new > 0
        /\ pc' = [pc EXCEPT ![x] = "os_check"]
        /\ UNCHANGED << chain, timer, loop, oswait >>
     \/ x \in Coroutine /\ osw[x].new = 0 /\ JoinWaiters(x)

\* The loop delivers SIGCHLD to the handler, if there still is one.
cat_os_wait_sigchld_handler ==
  /\ LoopIdle /\ sigchld
  /\ sigchld' = FALSE
  /\ loop' = IF watchers > 0 THEN InSigchld ELSE 0
  /\ UNCHANGED << chain, pc, timer, kid, watchers, saved, list, task, osw, heard >>

OsWaitNext(c) ==
  \/ \E want \in Pid \cup {NULL} : cat_os__wait_wrapper(c, want)
  \/ cat_os__wait(c)
  \/ OsWaited(c)

DispatchNext ==
  \/ \E x \in Routine : cat_os_wait_dispatch(x) \/ DispatchGoesOn(x) \/ DispatchDone(x)
  \/ cat_os_wait_sigchld_handler

-----------------------------------------------------------------------------
OsWaitPlaces == {"os_check", "os_dispatch", "os_wait"}

\* A coroutine that is in wait() or waitpid() and does not run.
Parked(c) == pc[c] = "os_wait" /\ c # Running(chain)

\* The queues hold exactly the coroutines that wait, the count of a task is the
\* length of its queue, and a task exists as long as somebody waits for it: what
\* the last waiter frees nobody else is queued in.
OsWaitersExact ==
  /\ { list[k] : k \in DOMAIN list } = { c \in Coroutine : pc[c] = "os_wait" /\ osw[c].want = NULL }
  /\ \A p \in Pid :
       /\ { task[p].waiters[k] : k \in DOMAIN task[p].waiters }
            = { c \in Coroutine : pc[c] = "os_wait" /\ osw[c].want = p }
       /\ task[p].count = Len(task[p].waiters)
       /\ task[p].mem <=> task[p].count > 0

\* dispatch() never looks at a task that a waiter has freed.  (It may, when the
\* waiter that it has woken cancels another one, or when a nested dispatcher hears
\* of the same child again.)
DispatchSafe == \A x \in Routine : ~ osw[x].stale

\* The exit of a child is never lost between the dispatcher and the callers: once
\* it has been taken from the kernel it is saved, in the hands of the coroutine
\* that has just been woken for it, or has been returned.
ExitKept ==
  \A p \in Pid : kid[p] = "gone" =>
    \/ p \in heard \/ saved[p] = "exited"
    \/ \E c \in Coroutine : At(c, "os_wait") /\ p \in {osw[c].want, osw[c].told}

\* No SIGCHLD is missed: while a coroutine waits, a child that has changed will
\* be looked at, by a dispatcher that is under way or by the handler.
SigchldNotMissed ==
  (\E c \in Coroutine : Parked(c)) /\ (\E p \in Pid : Ready(p)) =>
    \/ sigchld /\ watchers > 0
    \/ loop = InSigchld
    \/ \E c \in Coroutine : pc[c] = "os_dispatch"

\* "save status info if nobody cares" (src/cat_os_wait.c:184): what is saved is
\* the status of a child that nobody waits for.
NobodyCares ==
  \A p \in Pid : saved[p] # "none" =>
    ~ \E c \in Coroutine : Parked(c) /\ osw[c].want \in {NULL, p}
=============================================================================
