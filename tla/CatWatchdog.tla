----------------------------- MODULE CatWatchdog ----------------------------
(***************************************************************************)
(* src/cat_watchdog.c: a thread that looks, once a quantum, whether the    *)
(* coroutine that runs has switched since the last look.                   *)
(*                                                                         *)
(* The thread that runs the coroutines blocks in cat_watchdog_run() until  *)
(* the other one has started, and in cat_watchdog_stop() until it is gone. *)
(* What either does under the mutex is one step.  Fork leaves a child with *)
(* the first thread only.                                                  *)
(***************************************************************************)
EXTENDS CatTime, FiniteSets

CONSTANT MaxAlerts   \* a bound on the count of alerts in a row

VARIABLE wd

\* `main' and `thread' are the places of the two threads, G is whether the global
\* names a watchdog, `res' what has been initialised and not yet destroyed, and
\* `same' whether no coroutine has switched since the thread read the count of
\* switches.
NoWatchdog ==
  [main |-> "idle", thread |-> "none", G |-> FALSE, stop |-> FALSE, sem |-> 0,
   res |-> {}, same |-> TRUE, alerts |-> 0]

WatchdogInit == wd = NoWatchdog

\* Mutant: a thread that cannot be created leaves the mutex.
UnwindForgets(failed) ==
  [sem |-> {"watchdog"}, cond |-> {"sem", "watchdog"},
   mutex |-> {"cond", "sem", "watchdog"}, thread |-> {"cond", "sem", "watchdog"}][failed]

\* What the labels at the end of cat_watchdog_run() release.
Unwind(failed) ==
  [sem |-> {"watchdog"}, cond |-> {"sem", "watchdog"},
   mutex |-> {"cond", "sem", "watchdog"},
   thread |-> {"mutex", "cond", "sem", "watchdog"}][failed]

\* What has been acquired when a step of cat_watchdog_run() fails.
Acquired(failed) ==
  [sem |-> {}, cond |-> {"sem"}, mutex |-> {"sem", "cond"},
   thread |-> {"sem", "cond", "mutex"}][failed]

\* Mutant: run() does not wait for its thread.
RunAtOnce(c) ==
  /\ At(c, "user") /\ ~ wd.G
  /\ wd' = [NoWatchdog EXCEPT !.thread = "post", !.G = TRUE, !.res = {"cond", "mutex"}]
  /\ UNCHANGED waiting

\* The memory is that of the caller, or allocated.
cat_watchdog_run(c) ==
  /\ At(c, "user") /\ ~ wd.G
  /\ \E memory \in { {}, {"watchdog"} } :
       wd' \in { [NoWatchdog EXCEPT !.main = "sem_wait", !.thread = "post", !.G = TRUE,
                                    !.res = memory \cup {"sem", "cond", "mutex"}] }
               \cup { [NoWatchdog EXCEPT !.res = (memory \cup Acquired(f)) \ Unwind(f)] :
                        f \in {"sem", "cond", "mutex", "thread"} }
  /\ UNCHANGED waiting

RunWaited ==
  /\ wd.main = "sem_wait" /\ wd.sem > 0
  /\ wd' = [wd EXCEPT !.main = "idle", !.sem = @ - 1, !.res = @ \ {"sem"}]

cat_watchdog_stop(c) ==
  /\ At(c, "user") /\ wd.G
  /\ wd' = [wd EXCEPT !.stop = TRUE, !.main = "signal"]
  /\ UNCHANGED waiting

StopSignals ==
  /\ wd.main = "signal"
  /\ wd' = [wd EXCEPT !.main = "join", !.thread = IF @ = "waiting" THEN "woken" ELSE @]

StopJoined ==
  /\ wd.main = "join" /\ wd.thread = "exited"
  /\ wd' = [wd EXCEPT !.main = "idle", !.thread = "none", !.G = FALSE, !.alerts = 0,
                      !.stop = FALSE, !.res = @ \ {"mutex", "cond", "watchdog"}]

\* In the child of a fork; what the watchdog of the parent had is given up there.
cat_watch_dog_reset(c) ==
  /\ At(c, "user") /\ wd.G
  /\ wd' = NoWatchdog
  /\ UNCHANGED waiting

\* Mutant: the thread waits for the signal alone.
LoopWaits(thread) ==
  wd.thread = thread /\ thread = "lock" /\ wd' = [wd EXCEPT !.thread = "waiting"]

\* uv_cond_timedwait(): under the mutex, and for a quantum.
LoopWait(thread) ==
  /\ wd.thread = thread
  /\ \/ thread = "lock" /\ wd' = [wd EXCEPT !.thread = "waiting"]
     \/ thread = "waiting" /\ wd' = [wd EXCEPT !.thread = "woken"]

\* The rest of cat_watchdog_loop(): it reports, reads the count of switches, looks
\* at the flag, and compares the count before it reads who runs.
LoopStep ==
  \/ wd.thread = "post" /\ wd' = [wd EXCEPT !.sem = @ + 1, !.thread = "read"]
  \/ wd.thread = "read" /\ wd' = [wd EXCEPT !.same = TRUE, !.thread = "lock"]
  \/ wd.thread = "woken" /\ wd' = [wd EXCEPT !.thread = IF wd.stop THEN "exited" ELSE "check"]
  \/ /\ wd.thread = "check"
     /\ wd' = IF wd.same THEN [wd EXCEPT !.thread = "look"]
              ELSE [wd EXCEPT !.thread = "read", !.alerts = 0]
  \/ /\ wd.thread = "look"
     /\ wd' = [wd EXCEPT !.thread = "read",
                         !.alerts = IF Running(chain) # Scheduler /\ Cardinality(Coroutine) > 1
                                    THEN IF @ < MaxAlerts THEN @ + 1 ELSE @
                                    ELSE 0]

cat_watchdog_loop ==
  /\ LoopStep \/ LoopWait("lock") \/ LoopWait("waiting")
  /\ UNCHANGED waiting

WatchdogCalls == (RunWaited \/ StopSignals \/ StopJoined) /\ UNCHANGED waiting

WatchdogNext(c) == cat_watchdog_run(c) \/ cat_watchdog_stop(c) \/ cat_watch_dog_reset(c)

-----------------------------------------------------------------------------
\* The thread uses nothing that has been destroyed: the semaphore, which is on the
\* stack of cat_watchdog_run(), until it has posted it, and the mutex and the
\* condition until it is gone; and the semaphore is gone when the watchdog is
\* stopped (CAT_ASSERT(watchdog->sem == NULL), src/cat_watchdog.c:264).  When no
\* watchdog runs, stopped or never started, nothing of it is left.
WatchdogSafe ==
  /\ wd.thread = "post" => "sem" \in wd.res
  /\ wd.thread \notin {"none", "exited"} => {"mutex", "cond"} \subseteq wd.res
  /\ wd.main \in {"signal", "join"} => "sem" \notin wd.res
  /\ wd.main = "idle" /\ ~ wd.G => wd.res = {} /\ wd.thread = "none"

\* cat_watchdog_run() and cat_watchdog_stop() return, though the signal of stop()
\* may come when the thread does not wait (src/cat_watchdog.c:83-89, 250-255).
WatchdogReturns == wd.main # "idle" ~> wd.main = "idle"
=============================================================================
