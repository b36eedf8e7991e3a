------------------------------ MODULE CatPoll ------------------------------
(***************************************************************************)
(* src/cat_poll.c with the io defer tasks of src/cat_event.c.  poll() and  *)
(* poll_one() watch descriptors with handles of libuv.  Events that come   *)
(* in the same round of the loop are reported together, so a callback does *)
(* not wake the coroutine: it creates a task that the loop runs after all  *)
(* IO callbacks of the round (`loop' is InIo between the first of them and *)
(* the tasks, InCheck while these run).  Timers, and the callbacks of      *)
(* handles that are closed, come in other phases of a round.               *)
(*                                                                         *)
(* A descriptor that is already watched is duplicated, so that it may be   *)
(* polled any number of times.                                             *)
(***************************************************************************)
EXTENDS CatTime, FiniteSets, Integers

CONSTANTS Fd,        \* descriptors, numbers from 1
          PollCtx    \* the memory of the calls, numbers from 1

ASSUME FdAssumption == IsFiniteSet(Fd)

VARIABLES poll,    \* the calls: context and handles
          pollof,  \* the call of a coroutine
          tasks    \* io_defer_tasks

polling == << poll, pollof, tasks >>

InIo == -1
InCheck == -2

\* A handle, its status and the events that it has seen.  What has not been
\* initialized is any of the values that a status may have.
NoHandle == [st |-> "none", status |-> "ok", events |-> FALSE]
AnyStatus == {"ok", "ECANCELED", "error"}

NoCall == [mem |-> FALSE, one |-> FALSE, ref |-> 0, coroutine |-> NULL,
           task |-> "none", fd |-> [f \in Fd |-> NoHandle]]

PollInit ==
  /\ poll = [k \in PollCtx |-> NoCall]
  /\ pollof = [c \in Coroutine |-> 0]
  /\ tasks = << >>

-----------------------------------------------------------------------------
\* The handles of a call.

Open(call) == { f \in Fd : call.fd[f].st # "none" }

\* CAT_REF_DEL(): the last reference frees the context and the handles in it.
\* (The handle of poll_one() is the only reference to its memory.)
Deref(call) == IF call.ref = 1 THEN NoCall ELSE [call EXCEPT !.ref = @ - 1]

\* Mutant: the call does not hold a reference of its own.
CloseAllUncounted(call) ==
  LET closed == [call EXCEPT !.coroutine = NULL, !.task = "none", !.fd =
                   [f \in Fd |-> IF call.fd[f].st = "none" THEN NoHandle
                                 ELSE [call.fd[f] EXCEPT !.st = "closing"]]]
  IN  IF call.one THEN closed ELSE Deref(Deref(closed))

\* The end of a call: its handles are closed, its reference is dropped.
CloseAll(call) ==
  LET closed == [call EXCEPT !.coroutine = NULL, !.task = "none", !.fd =
                   [f \in Fd |-> IF call.fd[f].st = "none" THEN NoHandle
                                 ELSE [call.fd[f] EXCEPT !.st = "closing"]]]
  IN  IF call.one THEN closed ELSE Deref(closed)

\* The handles for the descriptors `fds', in order: `bad' are those that cannot be
\* initialized, `odd' those that cannot be started.  After the first error
\* handles are initialized without being started.
Handles(fds, bad, odd, garbage) ==
  [f \in Fd |->
     IF f \notin fds THEN NoHandle
     ELSE IF f \in bad THEN [NoHandle EXCEPT !.status = "error"]
     ELSE IF \E g \in bad \cup odd : g < f
          THEN [NoHandle EXCEPT !.st = "idle", !.status = garbage]
     ELSE IF f \in odd THEN [NoHandle EXCEPT !.st = "idle", !.status = "error"]
     ELSE [NoHandle EXCEPT !.st = "watched", !.status = "ECANCELED"]]

NewCall(c, fds, bad, odd, one, garbage) ==
  LET hs == Handles(fds, bad, odd, garbage) IN
  [mem |-> TRUE, one |-> one, coroutine |-> c, task |-> "none", fd |-> hs,
   ref |-> Cardinality({ f \in Fd : hs[f].st # "none" }) + (IF one THEN 0 ELSE 1)]

\* cat_poll_impl() and cat_poll_one_impl(), which is the same for a single one:
\* with an error they return at once, otherwise they wait.
cat_poll(c, fds, one) ==
  /\ At(c, "user")
  /\ one => Cardinality(fds) = 1
  /\ \E k \in PollCtx, bad, odd \in SUBSET fds, garbage \in AnyStatus :
       /\ ~ poll[k].mem /\ \A j \in PollCtx : j < k => poll[j].mem
       /\ bad \cap odd = {}
       /\ bad \cup odd = {} => garbage = "ok"
       /\ LET call == NewCall(c, fds, bad, odd, one, garbage) IN
          IF bad \cup odd = {}
          THEN /\ poll' = [poll EXCEPT ![k] = call]
               /\ pollof' = [pollof EXCEPT ![c] = k]
               /\ cat_time_wait(c, "poll", TRUE)
          ELSE /\ poll' = [poll EXCEPT ![k] = IF call.ref = 0 THEN NoCall ELSE CloseAll(call)]
               /\ UNCHANGED << pollof, chain, pc, timer >>
  /\ UNCHANGED << tasks, loop >>

\* Mutant: the task stays in the queue of the loop.
PollWaitedQueued(c) ==
  /\ At(c, "poll")
  /\ poll' = [poll EXCEPT ![pollof[c]] = CloseAll(@)]
  /\ pollof' = [pollof EXCEPT ![c] = 0]
  /\ Return(c)
  /\ UNCHANGED << tasks, loop >>

\* The wait is over: cat_event_io_defer_task_close() and uv_close().
PollWaited(c) ==
  /\ At(c, "poll")
  /\ tasks' = Without(tasks, pollof[c])
  /\ poll' = [poll EXCEPT ![pollof[c]] = CloseAll(@)]
  /\ pollof' = [pollof EXCEPT ![c] = 0]
  /\ Return(c)
  /\ UNCHANGED loop

-----------------------------------------------------------------------------
\* The loop.

\* A handle with its status, and the events that come with a good one.
Reported(h, status) == [h EXCEPT !.status = status, !.events = h.events \/ status = "ok"]

\* cat_poll_callback(), cat_poll_one_callback().
Report(k, f, status) ==
  /\ poll[k].fd[f].st = "watched"
  /\ LET fds == [poll[k].fd EXCEPT ![f] = Reported(poll[k].fd[f], status)]
     IN  poll' = [poll EXCEPT ![k] = [poll[k] EXCEPT !.task = "created", !.fd = fds]]
  /\ tasks' = IF poll[k].task = "none" THEN Append(tasks, k) ELSE tasks

\* Mutant: the task waits for the next round.
PollCallbackLater(k, f, status) ==
  /\ LoopIdle \/ LoopAt(InIo)
  /\ Report(k, f, status)
  /\ loop' \in {0, InIo}
  /\ UNCHANGED << chain, pc, timer, pollof >>

cat_poll_callback(k, f, status) ==
  /\ LoopIdle \/ LoopAt(InIo)
  /\ Report(k, f, status)
  /\ loop' = InIo
  /\ UNCHANGED << chain, pc, timer, pollof >>

\* Another IO callback of the round wakes a coroutine.
IoWakeup(c) ==
  /\ LoopAt(InIo)
  /\ pc[c] = "user"
  /\ Schedule(c)
  /\ UNCHANGED << loop, polling >>

\* cat_event_do_io_defer_tasks(): the first task is taken out and run, as long as
\* there is one.  It is cat_poll_done_callback() or cat_poll_one_done_callback().
cat_event_do_io_defer_tasks ==
  /\ LoopAt(InIo) \/ LoopAt(InCheck)
  /\ IF tasks = << >>
     THEN loop' = 0 /\ UNCHANGED << chain, pc, timer, tasks >>
     ELSE /\ tasks' = Tail(tasks)
          /\ loop' = InCheck
          /\ Schedule(poll[Head(tasks)].coroutine)
  /\ UNCHANGED << poll, pollof >>

\* cat_poll_close_callback(), cat_poll_one_close_callback().
cat_poll_close_callback(k, f) ==
  /\ LoopIdle /\ poll[k].fd[f].st = "closing"
  /\ poll' = [poll EXCEPT ![k] = Deref([@ EXCEPT !.fd[f] = NoHandle])]
  /\ UNCHANGED << waiting, pollof, tasks >>

PollNext(c) ==
  \/ \E fds \in SUBSET Fd, one \in BOOLEAN : cat_poll(c, fds, one)
  \/ PollWaited(c)
  \/ IoWakeup(c)

PollLoopNext ==
  \/ \E k \in PollCtx, f \in Fd :
       (\E status \in {"ok", "error"} : cat_poll_callback(k, f, status)) \/ cat_poll_close_callback(k, f)
  \/ cat_event_do_io_defer_tasks

-----------------------------------------------------------------------------
\* "now we are using event_defer_task_close() to cancel this callback, so schedule
\* is always safe" (src/cat_poll.c:208): a task that the loop will run belongs to
\* a call that still waits, even when its coroutine can be resumed by others
\* between the IO callback and the task.
DoneSafe ==
  \A n \in DOMAIN tasks :
    \E c \in Coroutine : poll[tasks[n]].coroutine = c /\ pc[c] = "poll" /\ pollof[c] = tasks[n]

\* The memory of a call outlives its wait and all handles in it, and nothing
\* else keeps it: the references are one for each handle that is not closed yet
\* and one for the call of poll().
PollRefExact ==
  \A k \in PollCtx : LET call == poll[k] IN
    /\ call.mem <=> call.ref > 0
    /\ call.mem => call.ref = Cardinality(Open(call))
                              + (IF call.coroutine # NULL /\ ~ call.one THEN 1 ELSE 0)
    /\ \A c \in Coroutine : pc[c] = "poll" /\ pollof[c] = k => call.mem /\ call.coroutine = c

\* "If the time limit expires, poll() returns 0" (include/cat_poll.h:70): a
\* timeout does not come between the events and the report of them.
TimeoutMeansNone ==
  \A c \in Coroutine : pc[c] = "poll" /\ TimedOut(c) =>
    \A f \in Fd : ~ poll[pollof[c]].fd[f].events
=============================================================================
