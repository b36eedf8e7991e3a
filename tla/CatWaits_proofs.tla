-------------------------- MODULE CatWaits_proofs --------------------------
(***************************************************************************)
(* What the one-shot waits promise, for any number of coroutines, handles, *)
(* processes and descriptors, while all of them share one event loop.      *)
(*                                                                         *)
(* The argument is about interference.  A step of a component is *local*:  *)
(* it moves no coroutine but the one that runs, and that one only between  *)
(* places of the component; a callback moves nobody.  So a component may   *)
(* be proved about with its own steps, the others keep what it relies on.  *)
(***************************************************************************)
EXTENDS CatWaits, CoroutineChain_proofs

Places == {"user", "poll", "process", "signal", "wait_group",
           "os_check", "os_dispatch", "os_wait"}

\* The chain is a sequence, of whatever a callback has switched to.
Base == pc \in [Coroutine -> Places] /\ \E S : chain \in Seq(S)

ChainMoves ==
  chain' = chain \/ chain' = YieldOn(chain) \/ \E t : chain' = ResumeOn(chain, t)

\* A step of the code whose places are `own'.
Local(own) ==
  /\ ChainMoves
  /\ \/ pc' = pc /\ chain' = chain
     \/ pc' = pc /\ Running(chain) = Scheduler
     \/ \E c \in Coroutine, to \in own :
          /\ Running(chain) = c /\ pc[c] \in own
          /\ pc' = pc \/ pc' = [pc EXCEPT ![c] = to]

\* What a local step of other code leaves alone: who is at the place, and the
\* chain when the one that runs is.
Keeps(place) ==
  /\ \A c \in Coroutine : pc'[c] = place <=> pc[c] = place
  /\ \A c \in Coroutine : Running(chain) = c /\ pc[c] = place => chain' = chain

\* The exit callback under way.
KeepsExit == \A p \in Process : loop' = InExit(p) <=> loop = InExit(p)

\* Removing from a queue leaves a queue, with all the other elements.
LEMMA WithoutKeeps ==
  ASSUME NEW S, NEW s \in Seq(S), NEW c
  PROVE  /\ Without(s, c) \in Seq(S)
         /\ \A x \in OnChain(s) : x # c => x \in OnChain(Without(s, c))
<1> DEFINE r == Without(s, c)
           at == CHOOSE i \in DOMAIN s : s[i] = c
<1>1. CASE ~ \E i \in DOMAIN s : s[i] = c
  BY <1>1 DEF Without
<1>2. CASE \E i \in DOMAIN s : s[i] = c
  <2>1. at \in 1..Len(s) /\ s[at] = c /\ Len(s) \in Nat
    BY <1>2
  <2>2. r = [j \in 1..(Len(s) - 1) |-> IF j < at THEN s[j] ELSE s[j + 1]]
    BY <1>2 DEF Without
  <2> HIDE DEF at, r
  <2> DEFINE n == Len(s) - 1
  <2>3. n \in Nat /\ \A j \in 1..n : s[j] \in S /\ s[j + 1] \in S
    BY <2>1
  <2>4. \A j \in 1..n : r[j] = IF j < at THEN s[j] ELSE s[j + 1]
    BY <2>2
  <2>5. r \in [1..n -> S]
    BY <2>2, <2>3
  <2>6. n + 1 = Len(s)
    BY <2>1
  <2> HIDE DEF n
  <2>7. r \in Seq(S) /\ Len(r) = n /\ DOMAIN r = 1..n
    BY <2>3, <2>5
  <2>8. ASSUME NEW x \in OnChain(s), x # c
        PROVE  x \in OnChain(r)
    <3>1. PICK i \in 1..(n + 1) : x = s[i]
      BY <2>6 DEF OnChain
    <3>2. i # at /\ at \in 1..(n + 1)
      BY <2>1, <2>6, <2>8, <3>1
    <3>3. CASE i < at
      <4>1. i \in 1..n
        BY <2>3, <3>2, <3>3
      <4>2. r[i] = x
        BY <2>4, <3>1, <3>3, <4>1
      <4> QED
        BY <2>7, <4>1, <4>2, Zenon DEF OnChain
    <3>4. CASE i > at
      <4>1. i - 1 \in 1..n /\ ~(i - 1 < at) /\ (i - 1) + 1 = i
        BY <2>3, <3>2, <3>4
      <4>2. r[i - 1] = x
        BY <2>4, <3>1, <4>1
      <4> QED
        BY <2>7, <4>1, <4>2 DEF OnChain
    <3> QED
      BY <2>3, <3>2, <3>3, <3>4
  <2> QED
    BY <2>7, <2>8 DEF r
<1> QED
  BY <1>1, <1>2

\* A resume makes the target run (cat_coroutine_resume()).
LEMMA ResumeRuns ==
  ASSUME NEW S, NEW ch \in Seq(S), NEW t
  PROVE  Running(ResumeOn(ch, t)) = t /\ ResumeOn(ch, t) \in Seq(S \cup {t})
<1> DEFINE r == Without(ch, t)
<1>1. r \in Seq(S)
  BY WithoutKeeps
<1> HIDE DEF r
<1>2. Append(r, t) \in Seq(S \cup {t}) /\ Len(Append(r, t)) = Len(r) + 1
      /\ Append(r, t)[Len(r) + 1] = t
  BY <1>1
<1> QED
  BY <1>2 DEF ResumeOn, Running, r

OfWaits == {"user"}

OfPoll == {"user", "poll"}

OfOsWait == {"user", "os_check", "os_dispatch", "os_wait"}

OfProcess == {"user", "process"}

OfSignal == {"user", "signal"}

OfWaitGroup == {"user", "wait_group"}

\* The chain stays a sequence.
LEMMA ChainKept ==
  ASSUME NEW S, chain \in Seq(S), ChainMoves
  PROVE  \E T : chain' \in Seq(T)
<1>1. CASE chain' = chain
  BY <1>1
<1>2. CASE chain' = YieldOn(chain)
  <2>1. << Scheduler >> \in Seq({Scheduler})
    OBVIOUS
  <2>2. Len(chain) > 1 => SubSeq(chain, 1, Len(chain) - 1) \in Seq(S)
    OBVIOUS
  <2> QED
    BY <1>2, <2>1, <2>2, Zenon DEF YieldOn
<1>3. CASE \E t : chain' = ResumeOn(chain, t)
  <2>1. PICK t : chain' = ResumeOn(chain, t)
    BY <1>3
  <2>2. ResumeOn(chain, t) \in Seq(S \cup {t})
    BY ResumeRuns
  <2> QED
    BY <2>1, <2>2
<1> QED
  BY <1>1, <1>2, <1>3 DEF ChainMoves

\* Local steps of other code keep a place.
LEMMA LocalKeeps ==
  ASSUME NEW own \in SUBSET Places, Base, Local(own)
  PROVE  Base' /\ \A place \in Places \ own : Keeps(place)
<1>1. \E S : chain' \in Seq(S)
  BY ChainKept DEF Base, Local
<1>2. CASE pc' = pc /\ chain' = chain
  BY <1>1, <1>2 DEF Base, Keeps
<1>3. CASE pc' = pc /\ Running(chain) = Scheduler
  BY <1>1, <1>3, SchedulerAssumption DEF Base, Keeps
<1>4. ASSUME NEW c \in Coroutine, NEW to \in own,
             Running(chain) = c, pc[c] \in own, pc' = pc \/ pc' = [pc EXCEPT ![c] = to]
      PROVE  Base' /\ \A place \in Places \ own : Keeps(place)
  BY <1>1, <1>4 DEF Base, Keeps
<1> QED
  BY <1>2, <1>3, <1>4 DEF Local

\* A sleep, a resume and a timeout, as any wait takes part in them.
LEMMA ElsewhereLocal ==
  ASSUME NEW c \in Coroutine, Elsewhere(c)
  PROVE  Local(OfWaits) /\ loop' = loop
<1>1. CASE Sleep(c)
  BY <1>1 DEF Sleep, At, Local, ChainMoves, OfWaits
<1>2. CASE Wakeup(c)
  BY <1>2 DEF Wakeup, LoopIdle, Schedule, Local, ChainMoves
<1>3. CASE cat_timer_callback(c)
  BY <1>3 DEF cat_timer_callback, LoopIdle, Local, ChainMoves
<1>4. ASSUME NEW target \in Coroutine, Resume(c, target)
      PROVE  Local(OfWaits) /\ loop' = loop
  BY <1>4 DEF Resume, At, Schedule, Local, ChainMoves, OfWaits
<1> QED
  BY <1>1, <1>2, <1>3, <1>4 DEF Elsewhere

\* poll() and the tasks of the loop.
LEMMA PollLocal ==
  ASSUME PollStep
  PROVE  Local(OfPoll) /\ KeepsExit
<1>1. ASSUME NEW c \in Coroutine, NEW fds \in SUBSET Fd, NEW one \in BOOLEAN, cat_poll(c, fds, one)
      PROVE  Local(OfPoll) /\ loop' = loop
  BY <1>1 DEF cat_poll, cat_time_wait, At, Local, ChainMoves, OfPoll
<1>2. ASSUME NEW c \in Coroutine, PollWaited(c)
      PROVE  Local(OfPoll) /\ loop' = loop
  BY <1>2, Zenon DEF PollWaited, Return, At, Local, ChainMoves, OfPoll
<1>3. ASSUME NEW c \in Coroutine, IoWakeup(c)
      PROVE  Local(OfPoll) /\ loop' = loop
  BY <1>3 DEF IoWakeup, LoopAt, Schedule, Local, ChainMoves
<1>4. ASSUME NEW k \in PollCtx, NEW f \in Fd, NEW status \in {"ok", "error"},
             cat_poll_callback(k, f, status)
      PROVE  Local(OfPoll) /\ KeepsExit
  BY <1>4, ProcessAssumption
  DEF cat_poll_callback, LoopIdle, LoopAt, Local, ChainMoves, KeepsExit, InExit, InIo
<1>5. ASSUME NEW k \in PollCtx, NEW f \in Fd, cat_poll_close_callback(k, f)
      PROVE  Local(OfPoll) /\ loop' = loop
  BY <1>5 DEF cat_poll_close_callback, waiting, Local, ChainMoves
<1>6. ASSUME cat_event_do_io_defer_tasks
      PROVE  Local(OfPoll) /\ KeepsExit
  <2>1. Local(OfPoll)
    BY <1>6 DEF cat_event_do_io_defer_tasks, LoopAt, Schedule, Local, ChainMoves
  <2>2. loop \in {-1, -2} /\ loop' \in {0, -2}
    BY <1>6 DEF cat_event_do_io_defer_tasks, LoopAt, InIo, InCheck
  <2> QED
    BY <2>1, <2>2, ProcessAssumption DEF KeepsExit, InExit
<1>7. loop' = loop => KeepsExit
  BY DEF KeepsExit
<1> QED
  BY <1>1, <1>2, <1>3, <1>4, <1>5, <1>6, <1>7 DEF PollStep, PollNext, PollLoopNext

\* wait(), its dispatchers and the children.
LEMMA OsWaitLocal ==
  ASSUME OsWaitStep
  PROVE  Local(OfOsWait) /\ KeepsExit
<1>1. ASSUME NEW c \in Coroutine, NEW want \in Pid \cup {NULL}, cat_os__wait_wrapper(c, want)
      PROVE  Local(OfOsWait) /\ loop' = loop
  BY <1>1, Zenon DEF cat_os__wait_wrapper, At, Local, ChainMoves, OfOsWait
<1>2. ASSUME NEW c \in Coroutine, cat_os__wait(c)
      PROVE  Local(OfOsWait) /\ loop' = loop
  BY <1>2 DEF cat_os__wait, WaitReturns, Return, At, Local, ChainMoves, OfOsWait
<1>3. ASSUME NEW c \in Coroutine, OsWaited(c)
      PROVE  Local(OfOsWait) /\ loop' = loop
  BY <1>3, Zenon DEF OsWaited, WaitReturns, Return, At, Local, ChainMoves, OfOsWait
<1>4. ASSUME NEW x \in Routine, Dispatching(x)
      PROVE  \/ x \in Coroutine /\ Running(chain) = x /\ pc[x] \in OfOsWait
             \/ x = Scheduler /\ Running(chain) = Scheduler /\ loop = -10
  BY <1>4 DEF Dispatching, At, LoopAt, OfOsWait, InSigchld
<1>5. ASSUME NEW x \in Routine, Dispatching(x), ChainMoves, pc' = pc
      PROVE  Local(OfOsWait)
  BY <1>4, <1>5 DEF Local, OfOsWait
<1>6. ASSUME NEW x \in Routine, cat_os_wait_dispatch(x)
      PROVE  Local(OfOsWait) /\ loop' = loop
  BY <1>5, <1>6 DEF cat_os_wait_dispatch, NotifyOne, Schedule, ChainMoves
<1>7. ASSUME NEW x \in Routine, DispatchGoesOn(x)
      PROVE  Local(OfOsWait) /\ loop' = loop
  BY <1>5, <1>7 DEF DispatchGoesOn, NotifyOne, Schedule, ChainMoves
<1>8. ASSUME NEW x \in Routine, DispatchDone(x)
      PROVE  Local(OfOsWait) /\ KeepsExit
  <2>1. CASE x = Scheduler
    <3>1. loop = -10 /\ loop' = 0 /\ pc' = pc /\ chain' = chain
      BY <1>4, <1>8, <2>1, SchedulerAssumption DEF DispatchDone
    <3> QED
      BY <3>1, ProcessAssumption DEF Local, ChainMoves, KeepsExit, InExit
  <2>2. CASE x \in Coroutine
    <3>1. /\ Running(chain) = x /\ pc[x] \in OfOsWait
          /\ pc' = [pc EXCEPT ![x] = "os_check"] \/ pc' = [pc EXCEPT ![x] = "os_wait"]
          /\ ChainMoves /\ loop' = loop
      BY <1>4, <1>8, <2>2, SchedulerAssumption
      DEF DispatchDone, JoinWaiters, cat_time_wait, ChainMoves
    <3> QED
      BY <2>2, <3>1 DEF Local, OfOsWait, KeepsExit
  <2> QED
    BY <2>1, <2>2 DEF Routine
<1>9. ASSUME cat_os_wait_sigchld_handler
      PROVE  Local(OfOsWait) /\ KeepsExit
  <2>1. loop = 0 /\ loop' \in {0, -10} /\ pc' = pc /\ chain' = chain
    BY <1>9 DEF cat_os_wait_sigchld_handler, LoopIdle, InSigchld
  <2> QED
    BY <2>1, ProcessAssumption DEF Local, ChainMoves, KeepsExit, InExit
<1>10. ASSUME NEW p \in Pid, KidExits(p) \/ KidStops(p)
       PROVE  Local(OfOsWait) /\ loop' = loop
  BY <1>10 DEF KidExits, KidStops, KidChanges, waiting, Local, ChainMoves
<1>11. loop' = loop => KeepsExit
  BY DEF KeepsExit
<1> QED
  BY <1>1, <1>2, <1>3, <1>6, <1>7, <1>8, <1>9, <1>10, <1>11
  DEF OsWaitStep, OsWaitNext, DispatchNext

\* The processes; their callbacks are the ones that KeepsExit is about.
LEMMA ProcessLocal ==
  ASSUME ProcessStep
  PROVE  Local(OfProcess)
<1>1. ASSUME NEW c \in Coroutine, ProcessNext(c)
      PROVE  Local(OfProcess)
  BY <1>1 DEF ProcessNext, cat_process_run, cat_process_wait, ProcessWaited, cat_process_close,
              cat_time_wait, Return, At, waiting, Local, ChainMoves, OfProcess
<1>2. ASSUME NEW p \in Process,
             cat_process_exit_callback(p) \/ ExitGoesOn(p) \/ cat_process_close_callback(p)
      PROVE  Local(OfProcess)
  BY <1>2 DEF cat_process_exit_callback, ExitGoesOn, cat_process_close_callback, NotifyWaiters,
              Schedule, LoopIdle, LoopAt, waiting, Local, ChainMoves
<1> QED
  BY <1>1, <1>2 DEF ProcessStep, ExitNext

\* The signals.
LEMMA SignalLocal ==
  ASSUME SignalStep
  PROVE  Local(OfSignal) /\ loop' = loop
<1>1. ASSUME NEW c \in Coroutine, SignalNext(c)
      PROVE  Local(OfSignal) /\ loop' = loop
  BY <1>1 DEF SignalNext, cat_signal_wait, SignalWaited,
              cat_time_wait, Return, At, Local, ChainMoves, OfSignal
<1>2. ASSUME NEW h \in SignalHandle, cat_signal_callback(h) \/ cat_signal_close_callback(h)
      PROVE  Local(OfSignal) /\ loop' = loop
  BY <1>2 DEF cat_signal_callback, cat_signal_close_callback, Schedule, LoopIdle, waiting,
              Local, ChainMoves
<1> QED
  BY <1>1, <1>2 DEF SignalStep, HandleNext

\* The steps of the wait group are local.
LEMMA WaitGroupLocal ==
  ASSUME WaitGroupStep
  PROVE  Local(OfWaitGroup) /\ loop' = loop
<1>1. ASSUME NEW c \in Coroutine, NEW delta \in {-1, 1}, cat_sync_wait_group_add(c, delta)
      PROVE  Local(OfWaitGroup) /\ loop' = loop
  BY <1>1 DEF cat_sync_wait_group_add, waiting, Local, ChainMoves
<1>2. ASSUME NEW c \in Coroutine,
             cat_sync_wait_group_wait(c) \/ WaitGroupWaited(c) \/ cat_sync_wait_group_done(c)
      PROVE  Local(OfWaitGroup) /\ loop' = loop
  BY <1>2 DEF cat_sync_wait_group_wait, WaitGroupWaited, cat_sync_wait_group_done,
              cat_time_wait, Return, Schedule, At, Local, ChainMoves, OfWaitGroup
<1> QED
  BY <1>1, <1>2 DEF WaitGroupStep, WaitGroupNext

\* Every step is one component's, and keeps the places of the others.
LEMMA StepKeeps ==
  ASSUME Base, [Next]_vars
  PROVE  /\ Base'
         /\ \/ WaitGroupStep
            \/ Keeps("wait_group") /\ wg' = wg
         /\ \/ SignalStep
            \/ Keeps("signal") /\ signal' = signal /\ sigof' = sigof
         /\ \/ ProcessStep
            \/ Keeps("process") /\ KeepsExit /\ process' = process /\ prof' = prof
         /\ \/ PollStep
            \/ Keeps("poll") /\ poll' = poll /\ pollof' = pollof /\ tasks' = tasks
<1>1. \A own \in {OfWaits, OfPoll, OfOsWait, OfProcess, OfSignal, OfWaitGroup} : own \subseteq Places
  BY DEF OfWaits, OfPoll, OfOsWait, OfProcess, OfSignal, OfWaitGroup, Places
<1>2. loop' = loop => KeepsExit
  BY DEF KeepsExit
<1>3. CASE UNCHANGED vars
  BY <1>2, <1>3 DEF vars, waiting, polling, Base, Keeps
<1>4. ASSUME NEW c \in Coroutine, Elsewhere(c),
             UNCHANGED << polling, oswait, process, prof, signal, sigof, wg >>
      PROVE  /\ Base' /\ KeepsExit
             /\ Keeps("wait_group") /\ Keeps("signal") /\ Keeps("process") /\ Keeps("poll")
  BY <1>1, <1>2, <1>4, ElsewhereLocal, LocalKeeps DEF Places, OfWaits
<1>5. CASE PollStep
  <2>1. Base' /\ KeepsExit /\ Keeps("wait_group") /\ Keeps("signal") /\ Keeps("process")
    BY <1>1, <1>5, PollLocal, LocalKeeps DEF Places, OfPoll
  <2> QED
    BY <1>5, <2>1 DEF PollStep
<1>6. CASE OsWaitStep
  <2>1. /\ Base' /\ KeepsExit
        /\ Keeps("wait_group") /\ Keeps("signal") /\ Keeps("process") /\ Keeps("poll")
    BY <1>1, <1>6, OsWaitLocal, LocalKeeps DEF Places, OfOsWait
  <2> QED
    BY <1>6, <2>1 DEF OsWaitStep, polling
<1>7. CASE ProcessStep
  <2>1. Base' /\ Keeps("wait_group") /\ Keeps("signal") /\ Keeps("poll")
    BY <1>1, <1>7, ProcessLocal, LocalKeeps DEF Places, OfProcess
  <2> QED
    BY <1>7, <2>1 DEF ProcessStep, polling
<1>8. CASE SignalStep
  <2>1. Base' /\ KeepsExit /\ Keeps("wait_group") /\ Keeps("process") /\ Keeps("poll")
    BY <1>1, <1>2, <1>8, SignalLocal, LocalKeeps DEF Places, OfSignal
  <2> QED
    BY <1>8, <2>1 DEF SignalStep, polling
<1>9. CASE WaitGroupStep
  <2>1. Base' /\ KeepsExit /\ Keeps("signal") /\ Keeps("process") /\ Keeps("poll")
    BY <1>1, <1>2, <1>9, WaitGroupLocal, LocalKeeps DEF Places, OfWaitGroup
  <2> QED
    BY <1>9, <2>1 DEF WaitGroupStep, polling
<1> QED
  BY <1>3, <1>4, <1>5, <1>6, <1>7, <1>8, <1>9 DEF Next, polling

\* At the start.
LEMMA BaseInit ==
  ASSUME Init
  PROVE  Base
<1>1. << Scheduler >> \in Seq({Scheduler})
  OBVIOUS
<1> QED
  BY <1>1, Zenon DEF Init, TimeInit, Base, Places

\* Steps of others leave wait() alone.
LEMMA OsStepKeeps ==
  ASSUME Base, [Next]_vars
  PROVE  /\ Base'
         /\ \/ OsWaitStep
            \/ /\ Keeps("os_check") /\ Keeps("os_dispatch") /\ Keeps("os_wait")
               /\ UNCHANGED oswait
<1>1. \A own \in {OfWaits, OfPoll, OfProcess, OfSignal, OfWaitGroup} :
        own \subseteq Places /\ own \cap OsWaitPlaces = {}
  BY DEF OfWaits, OfPoll, OfProcess, OfSignal, OfWaitGroup, Places, OsWaitPlaces
<1>2. OsWaitPlaces \subseteq Places
  BY DEF OsWaitPlaces, Places
<1>3. ASSUME NEW own \in {OfWaits, OfPoll, OfProcess, OfSignal, OfWaitGroup}, Local(own)
      PROVE  Keeps("os_check") /\ Keeps("os_dispatch") /\ Keeps("os_wait")
  <2>1. \A place \in Places \ own : Keeps(place)
    BY <1>1, <1>3, LocalKeeps
  <2> QED
    BY <1>1, <1>2, <2>1 DEF OsWaitPlaces
<1>4. Base'
  BY StepKeeps
<1>5. CASE UNCHANGED vars
  BY <1>4, <1>5 DEF vars, waiting, oswait, Keeps
<1>6. ASSUME NEW c \in Coroutine, Elsewhere(c),
             UNCHANGED << polling, oswait, process, prof, signal, sigof, wg >>
      PROVE  Keeps("os_check") /\ Keeps("os_dispatch") /\ Keeps("os_wait")
  BY <1>3, <1>6, ElsewhereLocal
<1>7. PollStep => Local(OfPoll) /\ UNCHANGED oswait
  BY PollLocal DEF PollStep
<1>8. ProcessStep => Local(OfProcess) /\ UNCHANGED oswait
  BY ProcessLocal DEF ProcessStep
<1>9. SignalStep => Local(OfSignal) /\ UNCHANGED oswait
  BY SignalLocal DEF SignalStep
<1>10. WaitGroupStep => Local(OfWaitGroup) /\ UNCHANGED oswait
  BY WaitGroupLocal DEF WaitGroupStep
<1> QED
  BY <1>3, <1>4, <1>5, <1>6, <1>7, <1>8, <1>9, <1>10 DEF Next

-----------------------------------------------------------------------------
\* Wait groups.

WaitGroupInv ==
  /\ Base
  /\ wg \in [coroutine : Coroutine \cup {NULL}, count : Nat]
  /\ WaitGroupServed

\* The invariant of the wait group holds in every state.
LEMMA WaitGroupInvariant == Spec => []WaitGroupInv
\* Each call of the wait group keeps its invariant.
<1>WaitGroupKept.
     ASSUME WaitGroupInv, Base', WaitGroupStep
     PROVE  WaitGroupInv'
  <2> USE <1>WaitGroupKept
  <2> USE DEF WaitGroupInv
  <2>0. NULL \notin Coroutine
    BY NullAssumption DEF Routine
  <2>1. ASSUME NEW c \in Coroutine, NEW delta \in {-1, 1}, cat_sync_wait_group_add(c, delta)
        PROVE  WaitGroupInv'
    <3>1. wg.count + delta \in Nat
      BY <2>1, MaxCountAssumption DEF cat_sync_wait_group_add
    <3>2. /\ wg.coroutine = NULL /\ pc' = pc
          /\ wg' = [coroutine |-> NULL, count |-> wg.count + delta]
      BY <2>1 DEF cat_sync_wait_group_add, waiting
    <3> QED
      BY <2>0, <3>1, <3>2 DEF WaitGroupServed
  <2>2. ASSUME NEW c \in Coroutine, cat_sync_wait_group_wait(c)
        PROVE  WaitGroupInv'
    <3>1. /\ wg.coroutine = NULL /\ wg.count # 0
          /\ wg' = [coroutine |-> c, count |-> wg.count]
          /\ pc' = [pc EXCEPT ![c] = "wait_group"]
      BY <2>2 DEF cat_sync_wait_group_wait, cat_time_wait
    <3> QED
      BY <2>0, <3>1 DEF WaitGroupServed, Base
  <2>3. ASSUME NEW c \in Coroutine, WaitGroupWaited(c)
        PROVE  WaitGroupInv'
    <3>1. /\ pc[c] = "wait_group" /\ pc' = [pc EXCEPT ![c] = "user"]
          /\ wg' = [coroutine |-> NULL, count |-> wg.count]
      BY <2>3 DEF WaitGroupWaited, At, Return
    <3> QED
      BY <2>0, <3>1 DEF WaitGroupServed, Base
  <2>4. ASSUME NEW c \in Coroutine, cat_sync_wait_group_done(c)
        PROVE  WaitGroupInv'
    <3>1. /\ pc' = pc /\ wg.count > 0
          /\ wg' = [coroutine |-> wg.coroutine, count |-> wg.count - 1]
          /\ wg.count = 1 /\ wg.coroutine # NULL => chain' = ResumeOn(chain, wg.coroutine)
      BY <2>4 DEF cat_sync_wait_group_done, Schedule
    <3>2. wg.count - 1 \in Nat /\ (wg.count - 1 = 0 => wg.count = 1)
      BY <3>1
    <3>3. wg.count = 1 /\ wg.coroutine # NULL => Running(chain') = wg.coroutine
      <4>1. PICK S : chain \in Seq(S)
        BY DEF Base
      <4>2. Running(ResumeOn(chain, wg.coroutine)) = wg.coroutine
        BY <4>1, ResumeRuns, Zenon
      <4> QED
        BY <3>1, <4>2
    <3> QED
      BY <2>0, <3>1, <3>2, <3>3 DEF WaitGroupServed
  <2> QED
    BY <2>1, <2>2, <2>3, <2>4 DEF WaitGroupStep, WaitGroupNext

<1>1. Init => WaitGroupInv
  <2> SUFFICES ASSUME Init PROVE WaitGroupInv
    OBVIOUS
  <2> QED
    BY BaseInit, NullAssumption
    DEF Init, WaitGroupInit, TimeInit, WaitGroupInv, WaitGroupServed, Routine
<1>2. WaitGroupInv /\ [Next]_vars => WaitGroupInv'
  <2> SUFFICES ASSUME WaitGroupInv, [Next]_vars PROVE WaitGroupInv'
    OBVIOUS
  <2>1. Base' /\ (WaitGroupStep \/ (Keeps("wait_group") /\ wg' = wg))
    BY StepKeeps DEF WaitGroupInv
  <2>2. CASE Keeps("wait_group") /\ wg' = wg
    BY <2>1, <2>2 DEF WaitGroupInv, WaitGroupServed, Keeps
  <2> QED
    BY <2>1, <2>2, <1>WaitGroupKept
<1> QED
  BY <1>1, <1>2, PTL DEF Spec

\* Whatever else waits on the loop, and whoever cancels whom, the wait group names
\* exactly the coroutine that waits, and wakes it when the last task is done.
THEOREM WaitGroupCorrect == Spec => []WaitGroupServed
<1>1. WaitGroupInv => WaitGroupServed
  BY DEF WaitGroupInv
<1> QED
  BY <1>1, WaitGroupInvariant, PTL

-----------------------------------------------------------------------------
\* Signals.

Handle ==
  [mem : {"none", "open", "closing"}, active : BOOLEAN, coroutine : Coroutine \cup {NULL}]

SignalInv ==
  /\ Base
  /\ signal \in [SignalHandle -> Handle]
  /\ sigof \in [Coroutine -> SignalHandle \cup {0}]
  /\ SignalSafe

\* The invariant of the signals holds in every state.
LEMMA SignalInvariant == Spec => []SignalInv
\* Each step of the signals keeps their invariant.
<1>SignalKept.
     ASSUME SignalInv, Base', SignalStep
     PROVE  SignalInv'
  <2> USE <1>SignalKept
  <2> USE DEF SignalInv
  <2>1. ASSUME NEW c \in Coroutine, cat_signal_wait(c)
        PROVE  SignalInv'
    <3>1. PICK h \in SignalHandle :
            /\ signal[h].mem = "none"
            /\ \/ /\ signal' = [signal EXCEPT ![h] = [mem |-> "open", active |-> TRUE, coroutine |-> c]]
                  /\ sigof' = [sigof EXCEPT ![c] = h]
                  /\ pc' = [pc EXCEPT ![c] = "signal"]
               \/ /\ signal' = [signal EXCEPT ![h].mem = "closing"]
                  /\ sigof' = sigof /\ pc' = pc
      BY <2>1 DEF cat_signal_wait, cat_time_wait
    <3>2. pc[c] = "user"
      BY <2>1 DEF cat_signal_wait, At
    <3>3. signal'[h] \in Handle => signal' \in [SignalHandle -> Handle]
      BY <3>1
    <3>4. \A d \in Coroutine : d # c => pc'[d] = pc[d] /\ sigof'[d] = sigof[d]
      BY <3>1 DEF Base
    <3>5. \A k \in SignalHandle : k # h => signal'[k] = signal[k]
      BY <3>1
    <3>6. CASE signal' = [signal EXCEPT ![h].mem = "closing"] /\ sigof' = sigof /\ pc' = pc
      <4>1. signal'[h].mem = "closing" /\ signal'[h].active = signal[h].active
            /\ signal'[h].coroutine = signal[h].coroutine /\ signal'[h] \in Handle
        BY <3>6 DEF Handle
      <4> QED
        BY <3>3, <3>5, <3>6, <4>1 DEF SignalSafe
    <3>7. CASE /\ signal' = [signal EXCEPT ![h] = [mem |-> "open", active |-> TRUE, coroutine |-> c]]
               /\ sigof' = [sigof EXCEPT ![c] = h] /\ pc' = [pc EXCEPT ![c] = "signal"]
      <4>1. signal'[h].coroutine = c /\ pc'[c] = "signal" /\ sigof'[c] = h
        BY <3>7 DEF Base
      <4>3. signal'[h] \in Handle /\ sigof' \in [Coroutine -> SignalHandle \cup {0}]
        BY <3>7 DEF Handle
      <4>2. SignalSafe'
        BY <3>2, <3>4, <3>5, <4>1 DEF SignalSafe
      <4> QED
        BY <3>3, <4>2, <4>3, Zenon
    <3> QED
      BY <3>1, <3>6, <3>7
  <2>2. ASSUME NEW c \in Coroutine, SignalWaited(c)
        PROVE  SignalInv'
    <3>1. /\ signal' = [signal EXCEPT ![sigof[c]].mem = "closing", ![sigof[c]].active = FALSE]
          /\ sigof' = [sigof EXCEPT ![c] = 0]
          /\ pc' = [pc EXCEPT ![c] = "user"]
      BY <2>2 DEF SignalWaited, Return
    <3>2. ASSUME NEW h \in SignalHandle
          PROVE  /\ signal'[h] \in Handle
                 /\ h # sigof[c] => signal'[h] = signal[h]
                 /\ h = sigof[c] => signal'[h].mem = "closing" /\ ~ signal'[h].active
      BY <3>1, ZenonT(30) DEF Handle
    <3>3. \A d \in Coroutine : d # c => pc'[d] = pc[d] /\ sigof'[d] = sigof[d]
      BY <3>1 DEF Base
    <3>4. signal' \in [SignalHandle -> Handle]
      BY <3>1, <3>2, Zenon
    <3>5. sigof' \in [Coroutine -> SignalHandle \cup {0}]
      BY <3>1
    <3>6. SignalSafe'
      BY <3>2, <3>3 DEF SignalSafe
    <3> QED
      BY <3>4, <3>5, <3>6
  <2>3. ASSUME NEW h \in SignalHandle, cat_signal_callback(h)
        PROVE  SignalInv'
    <3>1. /\ signal' = [signal EXCEPT ![h].active = FALSE, ![h].coroutine = NULL]
          /\ sigof' = sigof /\ pc' = pc
      BY <2>3 DEF cat_signal_callback, Schedule
    <3>2. signal'[h] \in Handle /\ ~ signal'[h].active /\ signal'[h].mem = signal[h].mem
      BY <3>1, Zenon DEF Handle
    <3>3. \A k \in SignalHandle : k # h => signal'[k] = signal[k]
      BY <3>1
    <3>4. SignalSafe'
      BY <3>1, <3>2, <3>3 DEF SignalSafe
    <3> QED
      BY <3>1, <3>2, <3>4
  <2>4. ASSUME NEW h \in SignalHandle, cat_signal_close_callback(h)
        PROVE  SignalInv'
    BY <2>4 DEF cat_signal_close_callback, NoSignal, waiting, SignalSafe, Handle
  <2> QED
    BY <2>1, <2>2, <2>3, <2>4 DEF SignalStep, SignalNext, HandleNext

<1>1. Init => SignalInv
  <2> SUFFICES ASSUME Init PROVE SignalInv
    OBVIOUS
  <2> QED
    BY BaseInit DEF Init, SignalInit, NoSignal, SignalInv, SignalSafe, Handle
<1>2. SignalInv /\ [Next]_vars => SignalInv'
  <2> SUFFICES ASSUME SignalInv, [Next]_vars PROVE SignalInv'
    OBVIOUS
  <2>1. Base' /\ (SignalStep \/ (Keeps("signal") /\ signal' = signal /\ sigof' = sigof))
    BY StepKeeps DEF SignalInv
  <2>2. CASE Keeps("signal") /\ signal' = signal /\ sigof' = sigof
    BY <2>1, <2>2 DEF SignalInv, SignalSafe, Keeps
  <2> QED
    BY <2>1, <2>2, <1>SignalKept
<1> QED
  BY <1>1, <1>2, PTL DEF Spec

\* The callback of a signal only ever switches to the coroutine that still waits
\* with this handle, and no handle stays open when its wait is over.
THEOREM SignalCorrect == Spec => []SignalSafe
<1>1. SignalInv => SignalSafe
  BY DEF SignalInv
<1> QED
  BY <1>1, SignalInvariant, PTL

-----------------------------------------------------------------------------
\* Processes.

Proc == [mem : {"none", "open", "closing"}, exited : BOOLEAN, waiters : Seq(Coroutine)]

\* A coroutine that waits is in the queue of its process, which is not closed; and
\* when a process has exited and its callback has returned nobody waits.
ProcessInv ==
  /\ Base
  /\ process \in [Process -> Proc]
  /\ prof \in [Coroutine -> Process \cup {0}]
  /\ \A c \in Coroutine : pc[c] = "process" =>
       /\ prof[c] \in Process
       /\ process[prof[c]].mem = "open"
       /\ c \in OnChain(process[prof[c]].waiters)
  /\ \A p \in Process : process[p].exited /\ loop # InExit(p) =>
       \A c \in Coroutine : pc[c] = "process" => prof[c] # p
  /\ \A p \in Process : loop = InExit(p) => process[p].mem # "none"

\* The invariant of the processes holds in every state.
LEMMA ProcessInvariant == Spec => []ProcessInv
\* The callbacks of two processes are told apart, and from an idle loop.
<1>ExitApart.
     ASSUME NEW p \in Process
     PROVE  InExit(p) # 0 /\ \A q \in Process : InExit(q) = InExit(p) => q = p
  BY <1>ExitApart, ProcessAssumption DEF InExit

\* The loop over the waiters ends when nobody is left.
<1>NotifyKept.
     ASSUME NEW p \in Process, ProcessInv, NotifyWaiters(p), process[p].mem = "open" \/ loop = InExit(p),
            \A q \in Process \ {p} : loop # InExit(q)
     PROVE  /\ pc' = pc
            /\ \A q \in Process : (loop' # InExit(q) /\ q = p) =>
                 \A c \in Coroutine : pc[c] = "process" => prof[c] # q
            /\ \A q \in Process \ {p} : loop' # InExit(q)
            /\ \A q \in Process : loop' = InExit(q) => process[q].mem # "none"
  <2> USE <1>NotifyKept
  <2>1. CASE process[p].waiters = << >>
    <3>1. OnChain(process[p].waiters) = {}
      BY <2>1 DEF OnChain
    <3>2. pc' = pc /\ loop' = 0
      BY <2>1 DEF NotifyWaiters
    <3> QED
      BY <3>1, <3>2, <1>ExitApart DEF ProcessInv
  <2>2. CASE process[p].waiters # << >>
    <3>1. pc' = pc /\ loop' = InExit(p)
      BY <2>2 DEF NotifyWaiters, Schedule
    <3> QED
      BY <3>1, <1>ExitApart DEF ProcessInv
  <2> QED
    BY <2>1, <2>2

\* Each step of the processes keeps their invariant.
<1>ProcessKept.
     ASSUME ProcessInv, Base', ProcessStep
     PROVE  ProcessInv'
  <2> USE <1>ProcessKept
  <2>1. ASSUME NEW c \in Coroutine, cat_process_run(c)
        PROVE  ProcessInv'
    <3>1. PICK p \in Process, mem \in {"open", "closing"} :
            /\ process[p].mem = "none"
            /\ process' = [process EXCEPT ![p] = [NoProcess EXCEPT !.mem = mem]]
      BY <2>1, Zenon DEF cat_process_run
    <3>2. pc' = pc /\ loop' = loop /\ prof' = prof
      BY <2>1 DEF cat_process_run, waiting
    <3>3. << >> \in Seq(Coroutine)
      OBVIOUS
    <3>4. process'[p] = [mem |-> mem, exited |-> FALSE, waiters |-> << >>]
      BY <3>1, Zenon DEF ProcessInv, NoProcess
    <3>5. \A q \in Process : q # p => process'[q] = process[q]
      BY <3>1 DEF ProcessInv
    <3>6. process'[p] \in Proc
      BY <3>3, <3>4 DEF Proc
    <3>7. process' \in [Process -> Proc]
      BY <3>1, <3>5, <3>6, ZenonT(30) DEF ProcessInv
    <3> QED
      BY <3>1, <3>2, <3>4, <3>5, <3>7 DEF ProcessInv
  <2>2. ASSUME NEW c \in Coroutine, NEW p \in Process, cat_process_wait(c, p)
        PROVE  ProcessInv'
    <3>1. /\ pc[c] = "user" /\ process[p].mem = "open" /\ ~ process[p].exited
          /\ process' = [process EXCEPT ![p].waiters = Append(@, c)]
          /\ prof' = [prof EXCEPT ![c] = p]
          /\ pc' = [pc EXCEPT ![c] = "process"]
          /\ loop' = loop
      BY <2>2 DEF cat_process_wait, cat_time_wait, At
    <3> DEFINE w == process[p].waiters
               longer == Append(w, c)
    <3>2. w \in Seq(Coroutine)
      BY DEF ProcessInv, Proc
    <3> HIDE DEF w
    <3>3. /\ longer \in Seq(Coroutine)
          /\ c \in OnChain(longer) /\ \A x \in OnChain(w) : x \in OnChain(longer)
      <4>1. /\ Append(w, c) \in Seq(Coroutine) /\ Len(w) \in Nat
            /\ DOMAIN Append(w, c) = 1..(Len(w) + 1) /\ DOMAIN w = 1..Len(w)
            /\ Append(w, c)[Len(w) + 1] = c
            /\ \A i \in 1..Len(w) : i \in 1..(Len(w) + 1) /\ Append(w, c)[i] = w[i]
        BY <3>2
      <4> QED
        BY <4>1 DEF OnChain
    <3>4. process'[p] = [mem |-> "open", exited |-> FALSE, waiters |-> longer]
      BY <3>1, Zenon DEF ProcessInv, Proc, w
    <3> HIDE DEF longer
    <3>5. \A q \in Process : q # p => process'[q] = process[q]
      BY <3>1 DEF ProcessInv
    <3>6. process' \in [Process -> Proc]
      <4>1. process'[p] \in Proc
        BY <3>3, <3>4 DEF Proc
      <4> QED
        BY <3>1, <3>5, <4>1 DEF ProcessInv
    <3>7. \A d \in Coroutine : d # c => pc'[d] = pc[d] /\ prof'[d] = prof[d]
      BY <3>1 DEF ProcessInv, Base
    <3>8. pc'[c] = "process" /\ prof'[c] = p /\ prof' \in [Coroutine -> Process \cup {0}]
      BY <3>1 DEF ProcessInv, Base
    <3>9. ASSUME NEW d \in Coroutine, pc'[d] = "process"
          PROVE  prof'[d] \in Process /\ process'[prof'[d]].mem = "open"
                 /\ d \in OnChain(process'[prof'[d]].waiters)
      <4>1. CASE d = c
        BY <3>3, <3>4, <3>8, <4>1
      <4>2. CASE d # c
        <5>1. prof'[d] = prof[d] /\ prof[d] \in Process /\ process[prof[d]].mem = "open"
              /\ d \in OnChain(process[prof[d]].waiters)
          BY <3>7, <3>9, <4>2, Zenon DEF ProcessInv
        <5>2. CASE prof[d] = p
          BY <3>3, <3>4, <5>1, <5>2 DEF w
        <5>3. CASE prof[d] # p
          BY <3>5, <5>1, <5>3
        <5> QED
          BY <5>2, <5>3
      <4> QED
        BY <4>1, <4>2
    <3>10. \A q \in Process : process'[q].exited /\ loop' # InExit(q) =>
             \A d \in Coroutine : pc'[d] = "process" => prof'[d] # q
      BY <3>1, <3>4, <3>5, <3>7, <3>8 DEF ProcessInv
    <3>11. \A q \in Process : loop' = InExit(q) => process'[q].mem # "none"
      BY <3>1, <3>4, <3>5 DEF ProcessInv
    <3> QED
      BY <3>6, <3>8, <3>9, <3>10, <3>11 DEF ProcessInv
  <2>3. ASSUME NEW c \in Coroutine, ProcessWaited(c)
        PROVE  ProcessInv'
    <3> DEFINE p == prof[c]
               w == process[p].waiters
    <3>1. /\ pc[c] = "process"
          /\ process' = [process EXCEPT ![p].waiters = Without(@, c)]
          /\ prof' = [prof EXCEPT ![c] = 0]
          /\ pc' = [pc EXCEPT ![c] = "user"]
          /\ loop' = loop
      BY <2>3 DEF ProcessWaited, Return, At
    <3>2. p \in Process /\ w \in Seq(Coroutine)
      BY <3>1 DEF ProcessInv, Proc
    <3> HIDE DEF w, p
    <3>3. Without(w, c) \in Seq(Coroutine)
          /\ \A x \in OnChain(w) : x # c => x \in OnChain(Without(w, c))
      BY <3>2, WithoutKeeps
    <3>4. process'[p] = [mem |-> process[p].mem, exited |-> process[p].exited,
                         waiters |-> Without(w, c)]
      BY <3>1, <3>2 DEF ProcessInv, Proc, w
    <3>5. \A q \in Process : q # p => process'[q] = process[q]
      BY <3>1 DEF ProcessInv
    <3>6. process' \in [Process -> Proc]
      <4>1. process'[p] \in Proc
        BY <3>2, <3>3, <3>4 DEF Proc, ProcessInv
      <4> QED
        BY <3>1, <3>5, <4>1, Zenon DEF ProcessInv
    <3>7. \A d \in Coroutine : d # c => pc'[d] = pc[d] /\ prof'[d] = prof[d]
      BY <3>1 DEF ProcessInv, Base
    <3>8. pc'[c] = "user" /\ prof' \in [Coroutine -> Process \cup {0}]
      BY <3>1, Zenon DEF ProcessInv, Base
    <3>9. ASSUME NEW d \in Coroutine, pc'[d] = "process"
          PROVE  prof'[d] \in Process /\ process'[prof'[d]].mem = "open"
                 /\ d \in OnChain(process'[prof'[d]].waiters)
      BY <3>3, <3>4, <3>5, <3>7, <3>8, <3>9 DEF ProcessInv, w
    <3>10. \A q \in Process : process'[q].exited /\ loop' # InExit(q) =>
             \A d \in Coroutine : pc'[d] = "process" => prof'[d] # q
      BY <3>1, <3>4, <3>5, <3>7, <3>8 DEF ProcessInv
    <3>11. \A q \in Process : loop' = InExit(q) => process'[q].mem # "none"
      BY <3>1, <3>4, <3>5 DEF ProcessInv
    <3> QED
      BY <3>6, <3>8, <3>9, <3>10, <3>11 DEF ProcessInv
  <2>4. ASSUME NEW c \in Coroutine, NEW p \in Process, cat_process_close(c, p)
        PROVE  ProcessInv'
    <3>1. /\ process[p].waiters = << >>
          /\ process' = [process EXCEPT ![p].mem = "closing"]
          /\ pc' = pc /\ loop' = loop /\ prof' = prof
      BY <2>4 DEF cat_process_close, waiting
    <3>2. \A c1 \in Coroutine : pc[c1] = "process" => prof[c1] # p
      BY <3>1 DEF ProcessInv, OnChain
    <3>3. process'[p] = [mem |-> "closing", exited |-> process[p].exited,
                         waiters |-> process[p].waiters]
      BY <3>1 DEF ProcessInv, Proc
    <3>4. \A q \in Process : q # p => process'[q] = process[q]
      BY <3>1 DEF ProcessInv
    <3>5. process'[p] \in Proc
      BY <3>3 DEF ProcessInv, Proc
    <3>6. process' \in [Process -> Proc]
      BY <3>1, <3>4, <3>5, Zenon DEF ProcessInv
    <3> QED
      BY <3>1, <3>2, <3>3, <3>4, <3>6 DEF ProcessInv
  <2>5. ASSUME NEW p \in Process, cat_process_exit_callback(p)
        PROVE  ProcessInv'
    <3>1. /\ loop = 0 /\ process[p].mem = "open" /\ NotifyWaiters(p) /\ prof' = prof
          /\ process' = [process EXCEPT ![p].exited = TRUE]
      BY <2>5 DEF cat_process_exit_callback, LoopIdle
    <3>2. \A q \in Process : loop # InExit(q)
      BY <3>1, <1>ExitApart
    <3>3. /\ pc' = pc
          /\ \A q \in Process : (loop' # InExit(q) /\ q = p) =>
               \A c \in Coroutine : pc[c] = "process" => prof[c] # q
          /\ \A q \in Process \ {p} : loop' # InExit(q)
          /\ \A q \in Process : loop' = InExit(q) => process[q].mem # "none"
      BY <3>1, <3>2, <1>NotifyKept
    <3>4. process'[p] = [mem |-> "open", exited |-> TRUE, waiters |-> process[p].waiters]
      BY <3>1, Zenon DEF ProcessInv, Proc
    <3>5. \A q \in Process : q # p => process'[q] = process[q]
      BY <3>1, Zenon DEF ProcessInv
    <3>6. process'[p] \in Proc
      BY <3>4 DEF ProcessInv, Proc
    <3>7. process' \in [Process -> Proc]
      BY <3>1, <3>5, <3>6 DEF ProcessInv
    <3>8. \A q \in Process : process'[q].mem = process[q].mem /\ process'[q].waiters = process[q].waiters
      BY <3>1, <3>4, <3>5
    <3>9. \A c \in Coroutine : pc'[c] = "process" =>
            prof'[c] \in Process /\ process'[prof'[c]].mem = "open"
            /\ c \in OnChain(process'[prof'[c]].waiters)
      BY <3>1, <3>3, <3>8 DEF ProcessInv
    <3>10. \A q \in Process : process'[q].exited /\ loop' # InExit(q) =>
             \A c \in Coroutine : pc'[c] = "process" => prof'[c] # q
      BY <3>1, <3>2, <3>3, <3>5, ZenonT(30) DEF ProcessInv
    <3>11. \A q \in Process : loop' = InExit(q) => process'[q].mem # "none"
      BY <3>3, <3>8
    <3>12. prof' \in [Coroutine -> Process \cup {0}]
      BY <3>1 DEF ProcessInv
    <3> QED
      BY <3>7, <3>9, <3>10, <3>11, <3>12 DEF ProcessInv
  <2>6. ASSUME NEW p \in Process, ExitGoesOn(p)
        PROVE  ProcessInv'
    <3>1. loop = InExit(p) /\ NotifyWaiters(p) /\ process' = process /\ prof' = prof
      BY <2>6 DEF ExitGoesOn, LoopAt
    <3>2. \A q \in Process \ {p} : loop # InExit(q)
      BY <3>1, <1>ExitApart
    <3>3. /\ pc' = pc
          /\ \A q \in Process : (loop' # InExit(q) /\ q = p) =>
               \A c \in Coroutine : pc[c] = "process" => prof[c] # q
          /\ \A q \in Process \ {p} : loop' # InExit(q)
          /\ \A q \in Process : loop' = InExit(q) => process[q].mem # "none"
      BY <3>1, <3>2, <1>NotifyKept
    <3> QED
      BY <3>1, <3>2, <3>3 DEF ProcessInv
  <2>7. ASSUME NEW p \in Process, cat_process_close_callback(p)
        PROVE  ProcessInv'
    <3>1. /\ loop = 0 /\ process[p].mem = "closing" /\ pc' = pc /\ loop' = loop /\ prof' = prof
          /\ process' = [process EXCEPT ![p] = NoProcess]
      BY <2>7 DEF cat_process_close_callback, LoopIdle, waiting
    <3>2. \A q \in Process : loop # InExit(q)
      BY <3>1, <1>ExitApart
    <3>3. << >> \in Seq(Coroutine)
      OBVIOUS
    <3>4. NoProcess \in Proc /\ ~ NoProcess.exited
      BY <3>3 DEF NoProcess, Proc
    <3>5. process'[p] = NoProcess /\ \A q \in Process : q # p => process'[q] = process[q]
      BY <3>1 DEF ProcessInv
    <3>6. process' \in [Process -> Proc]
      BY <3>1, <3>4 DEF ProcessInv
    <3> QED
      BY <3>1, <3>2, <3>4, <3>5, <3>6 DEF ProcessInv
  <2> QED
    BY <2>1, <2>2, <2>3, <2>4, <2>5, <2>6, <2>7 DEF ProcessStep, ProcessNext, ExitNext

<1>1. Init => ProcessInv
  <2> SUFFICES ASSUME Init PROVE ProcessInv
    OBVIOUS
  <2>1. << >> \in Seq(Coroutine)
    OBVIOUS
  <2>2. NoProcess \in Proc
    BY <2>1 DEF NoProcess, Proc
  <2>3. /\ process = [p \in Process |-> NoProcess] /\ prof = [c \in Coroutine |-> 0]
        /\ pc = [c \in Coroutine |-> "user"] /\ loop = 0
    BY DEF Init, ProcessInit, TimeInit
  <2>4. \A p \in Process : loop # InExit(p) /\ ~ process[p].exited
    BY <2>3, <1>ExitApart DEF NoProcess
  <2> QED
    BY <2>2, <2>3, <2>4, BaseInit DEF ProcessInv
<1>2. ProcessInv /\ [Next]_vars => ProcessInv'
  <2> SUFFICES ASSUME ProcessInv, [Next]_vars PROVE ProcessInv'
    OBVIOUS
  <2>1. /\ Base'
        /\ ProcessStep \/ (Keeps("process") /\ KeepsExit /\ process' = process /\ prof' = prof)
    BY StepKeeps, Zenon DEF ProcessInv
  <2>2. CASE Keeps("process") /\ KeepsExit /\ process' = process /\ prof' = prof
    BY <2>1, <2>2 DEF ProcessInv, Keeps, KeepsExit
  <2> QED
    BY <2>1, <2>2, <1>ProcessKept
<1> QED
  BY <1>1, <1>2, PTL DEF Spec

\* The exit callback leaves nobody behind, although each waiter that it wakes may
\* cancel, wait for or close anything before the callback goes on.
THEOREM ProcessCorrect == Spec => []ExitWakesAll
<1>1. ProcessInv => ExitWakesAll
  BY DEF ProcessInv, ExitWakesAll
<1> QED
  BY <1>1, ProcessInvariant, PTL

-----------------------------------------------------------------------------
\* Children.

Waits == {"poll", "process", "signal", "wait_group", "os_wait"}

Statuses == {"none", "exited", "stopped"}

Frame == [want : Pid \cup {NULL}, told : Pid \cup {NULL}, status : Statuses, new : Nat,
          pid : Pid \cup {NULL}, left : Nat, stale : BOOLEAN]

Task == [mem : BOOLEAN, status : Statuses, count : Nat, waiters : Seq(Coroutine)]

\* The coroutines that wait for p, or for any child when p is NULL.
WaitingFor(p) == { c \in Coroutine : pc[c] = "os_wait" /\ osw[c].want = p }

ListExact ==
  list \in Seq(Coroutine) /\ Injective(list) /\ OnChain(list) = WaitingFor(NULL)

TaskExact(p) ==
  /\ Injective(task[p].waiters)
  /\ OnChain(task[p].waiters) = WaitingFor(p)
  /\ task[p].count = Len(task[p].waiters)
  /\ task[p].mem <=> task[p].count > 0

OsInv ==
  /\ Base
  /\ task \in [Pid -> Task]
  /\ osw \in [Routine -> Frame]
  /\ \A x \in Routine : osw[x].left > 0 => osw[x].pid \in Pid
  /\ ListExact
  /\ \A p \in Pid : TaskExact(p)

\* The invariant of wait() holds in every state.
LEMMA OsInvariant == Spec => []OsInv
\* Nobody begins or ends to wait.
<1>SameWaiters.
     ASSUME OsInv, Base', list' = list, task' \in [Pid -> Task], osw' \in [Routine -> Frame],
            \A x \in Routine : osw'[x].left > 0 => osw'[x].pid \in Pid,
            \A p \in Pid : /\ task'[p].waiters = task[p].waiters
                           /\ task'[p].count = task[p].count /\ task'[p].mem = task[p].mem,
            \A c \in Coroutine : /\ pc'[c] = "os_wait" <=> pc[c] = "os_wait"
                                 /\ pc[c] = "os_wait" => osw'[c].want = osw[c].want
     PROVE  OsInv'
  <2> USE <1>SameWaiters
  <2>1. \A p : WaitingFor(p)' = WaitingFor(p)
    BY Zenon DEF WaitingFor
  <2>2. ListExact'
    BY <2>1, Zenon DEF OsInv, ListExact
  <2>3. ASSUME NEW p \in Pid
        PROVE  TaskExact(p)'
    BY <2>1 DEF OsInv, TaskExact
  <2> QED
    BY <2>2, <2>3, Zenon DEF OsInv

\* The frame of wait() that a call begins with or leaves.
<1>EmptyFrame.
     /\ NoFrame \in Frame /\ NoFrame.left = 0
     /\ \A want \in Pid \cup {NULL} :
          [NoFrame EXCEPT !.want = want] \in Frame /\ [NoFrame EXCEPT !.want = want].left = 0
  BY Zenon DEF NoFrame, Frame, Statuses

\* A task, put together.
<1>TaskType.
     ASSUME NEW m \in BOOLEAN, NEW s \in Statuses, NEW n \in Nat, NEW w \in Seq(Coroutine)
     PROVE  [mem |-> m, status |-> s, count |-> n, waiters |-> w] \in Task
  BY <1>TaskType DEF Task

\* The status of a child.
<1>StatusType.
     \A p : Status(p) \in Statuses
  BY DEF Status, Statuses

\* A dispatcher tells a waiter of p.
<1>TellKept.
     ASSUME OsInv, Base', NEW x \in Routine, NEW p \in Pid, NEW status \in Statuses, NEW left \in Nat,
            NotifyOne(x, p, status, left), list' = list
     PROVE  OsInv'
  <2> USE <1>TellKept
  <2>1. /\ task' = [task EXCEPT ![p].status = status]
        /\ osw' = [osw EXCEPT ![x].pid = p, ![x].status = status, ![x].left = left]
        /\ pc' = pc
    BY DEF NotifyOne, Schedule
  <2>2. task[p] \in Task /\ osw[x] \in Frame
    BY DEF OsInv
  <2>3. task'[p] = [task[p] EXCEPT !.status = status]
    BY <2>1 DEF OsInv
  <2>4. /\ task'[p] \in Task /\ task'[p].waiters = task[p].waiters
        /\ task'[p].count = task[p].count /\ task'[p].mem = task[p].mem
    BY <2>2, <2>3 DEF Task
  <2>5. \A q \in Pid : q # p => task'[q] = task[q]
    BY <2>1 DEF OsInv
  <2>6. task' \in [Pid -> Task]
    BY <2>1, <2>4 DEF OsInv
  <2>7. osw'[x] = [osw[x] EXCEPT !.pid = p, !.status = status, !.left = left]
    BY <2>1 DEF OsInv
  <2>8. osw'[x] \in Frame /\ osw'[x].want = osw[x].want /\ osw'[x].pid = p
    BY <2>2, <2>7, Zenon DEF Frame
  <2>9. \A y \in Routine : y # x => osw'[y] = osw[y]
    BY <2>1 DEF OsInv
  <2>10. osw' \in [Routine -> Frame]
    BY <2>1, <2>8, Zenon DEF OsInv
  <2>11. \A y \in Routine : osw'[y].left > 0 => osw'[y].pid \in Pid
    BY <2>8, <2>9, Zenon DEF OsInv
  <2>12. \A c \in Coroutine : osw'[c].want = osw[c].want
    BY <2>8, <2>9, Zenon DEF Routine
  <2>13. \A q \in Pid : /\ task'[q].waiters = task[q].waiters
                        /\ task'[q].count = task[q].count /\ task'[q].mem = task[q].mem
    BY <2>4, <2>5
  <2> QED
    BY <2>1, <2>6, <2>10, <2>11, <2>12, <2>13, <1>SameWaiters, Zenon

\* One round of a dispatcher.
<1>DispatchKept.
     ASSUME OsInv, Base', NEW x \in Routine, cat_os_wait_dispatch(x)
     PROVE  OsInv'
  <2> USE <1>DispatchKept
  <2>1. PICK p \in Pid :
          /\ list' = list
          /\ \/ NotifyOne(x, p, Status(p), task[p].count)
             \/ /\ list # << >> /\ task' = task /\ pc' = pc
                /\ osw' = [osw EXCEPT ![Head(list)].told = p, ![Head(list)].status = Status(p)]
             \/ Save(x, p, Status(p)) /\ task' = task /\ pc' = pc
    BY DEF cat_os_wait_dispatch, Schedule
  <2>2. Status(p) \in Statuses /\ task[p].count \in Nat
    BY <1>StatusType DEF OsInv, Task
  <2>3. CASE NotifyOne(x, p, Status(p), task[p].count)
    BY <2>1, <2>2, <2>3, <1>TellKept, Zenon
  <2>4. ASSUME NEW y \in Routine, list' = list, task' = task, pc' = pc,
               \A z \in Routine : z # y => osw'[z] = osw[z],
               osw' \in [Routine -> Frame], osw'[y].want = osw[y].want,
               osw'[y].left = osw[y].left, osw'[y].pid = osw[y].pid
        PROVE  OsInv'
    <3>1. \A z \in Routine : osw'[z].want = osw[z].want /\ osw'[z].left = osw[z].left
                             /\ osw'[z].pid = osw[z].pid
      BY <2>4
    <3>2. Coroutine \subseteq Routine /\ task' \in [Pid -> Task]
      BY <2>4, Zenon DEF Routine, OsInv
    <3>3. \A z \in Routine : osw'[z].left > 0 => osw'[z].pid \in Pid
      BY <3>1 DEF OsInv
    <3> QED
      BY <2>4, <3>1, <3>2, <3>3, <1>SameWaiters
  <2>5. CASE /\ list # << >> /\ task' = task /\ pc' = pc
             /\ osw' = [osw EXCEPT ![Head(list)].told = p, ![Head(list)].status = Status(p)]
    <3> DEFINE h == Head(list)
    <3>1. h \in Routine
      BY <2>5 DEF OsInv, ListExact, Routine
    <3> HIDE DEF h
    <3>2. osw' = [osw EXCEPT ![h].told = p, ![h].status = Status(p)]
      BY <2>5 DEF h
    <3>3. osw[h] \in Frame /\ osw'[h] = [osw[h] EXCEPT !.told = p, !.status = Status(p)]
      BY <3>1, <3>2 DEF OsInv
    <3>4. /\ osw'[h] \in Frame /\ osw'[h].want = osw[h].want
          /\ osw'[h].left = osw[h].left /\ osw'[h].pid = osw[h].pid
      BY <2>2, <3>3, Zenon DEF Frame
    <3>5. \A z \in Routine : z # h => osw'[z] = osw[z]
      BY <3>2 DEF OsInv
    <3>6. osw' \in [Routine -> Frame]
      BY <3>2, <3>4, Zenon DEF OsInv
    <3> QED
      BY <2>1, <2>4, <2>5, <3>1, <3>4, <3>5, <3>6
  <2>6. CASE Save(x, p, Status(p)) /\ task' = task /\ pc' = pc
    <3>1. osw' = [osw EXCEPT ![x].new = osw[x].new + 1] /\ osw[x] \in Frame
      BY <2>6 DEF Save, OsInv
    <3>2. osw'[x] = [osw[x] EXCEPT !.new = osw[x].new + 1]
      BY <3>1 DEF OsInv
    <3>3. /\ osw'[x] \in Frame /\ osw'[x].want = osw[x].want
          /\ osw'[x].left = osw[x].left /\ osw'[x].pid = osw[x].pid
      BY <3>1, <3>2 DEF Frame
    <3>4. \A z \in Routine : z # x => osw'[z] = osw[z]
      BY <3>1 DEF OsInv
    <3>5. osw' \in [Routine -> Frame]
      BY <3>1, <3>3 DEF OsInv
    <3> QED
      BY <2>1, <2>4, <2>6, <3>3, <3>4, <3>5
  <2> QED
    BY <2>1, <2>3, <2>5, <2>6

\* A dispatcher has nothing more to dispatch, and becomes a waiter.
<1>JoinKept.
     ASSUME OsInv, Base', NEW c \in Coroutine, pc[c] = "os_dispatch", JoinWaiters(c)
     PROVE  OsInv'
  <2> USE <1>JoinKept
  <2>0. PICK want \in Pid \cup {NULL} : want = osw[c].want
    BY DEF OsInv, Frame, Routine
  <2>1. /\ pc' = [pc EXCEPT ![c] = "os_wait"] /\ osw' = osw
        /\ IF want = NULL
           THEN list' = Append(list, c) /\ task' = task
           ELSE /\ task' = [task EXCEPT ![want] =
                              [task[want] EXCEPT !.mem = TRUE, !.count = task[want].count + 1,
                                                 !.waiters = Append(task[want].waiters, c)]]
                /\ list' = list
    BY <2>0 DEF JoinWaiters, cat_time_wait
  <2>2. c \in Routine /\ NULL \notin Pid
    BY PidAssumption DEF Routine
  <2>3. /\ pc'[c] = "os_wait" /\ \A d \in Coroutine : d # c => pc'[d] = pc[d]
    BY <2>1 DEF OsInv, Base
  <2>4. \A p \in Pid \cup {NULL} :
          /\ p = want => WaitingFor(p)' = WaitingFor(p) \cup {c}
          /\ p # want => WaitingFor(p)' = WaitingFor(p)
          /\ c \notin WaitingFor(p)
    BY <2>0, <2>1, <2>3 DEF WaitingFor
  <2>5. CASE want = NULL
    <3>1. list' = Append(list, c) /\ task' = task
      BY <2>1, <2>5
    <3>2. list \in Seq(Coroutine) /\ Injective(list) /\ c \notin OnChain(list)
      BY <2>4, Zenon DEF OsInv, ListExact
    <3>3. list' \in Seq(Coroutine) /\ Injective(list') /\ OnChain(list') = OnChain(list) \cup {c}
      BY <3>1, <3>2, AppendProperties
    <3>4. ListExact'
      BY <2>4, <2>5, <3>3, Zenon DEF OsInv, ListExact
    <3>5. ASSUME NEW p \in Pid PROVE TaskExact(p)'
      BY <2>2, <2>4, <2>5, <3>1 DEF OsInv, TaskExact
    <3> QED
      BY <2>1, <3>1, <3>4, <3>5 DEF OsInv
  <2>6. CASE want # NULL
    <3> DEFINE w == task[want].waiters
    <3>1. /\ want \in Pid /\ list' = list
          /\ task' = [task EXCEPT ![want] =
                        [task[want] EXCEPT !.mem = TRUE, !.count = task[want].count + 1,
                                           !.waiters = Append(w, c)]]
      BY <2>1, <2>2, <2>6
    <3>2. task[want] \in Task /\ TaskExact(want) /\ c \notin OnChain(w)
      BY <2>4, <3>1 DEF OsInv, TaskExact
    <3>3. task'[want] = [mem |-> TRUE, status |-> task[want].status,
                         count |-> task[want].count + 1, waiters |-> Append(w, c)]
      BY <3>1, <3>2, Zenon DEF OsInv, Task
    <3>4. w \in Seq(Coroutine) /\ Injective(w) /\ task[want].count \in Nat
      BY <3>2 DEF Task, TaskExact
    <3> HIDE DEF w
    <3>5. /\ Append(w, c) \in Seq(Coroutine) /\ Len(Append(w, c)) = Len(w) + 1
          /\ Injective(Append(w, c)) /\ OnChain(Append(w, c)) = OnChain(w) \cup {c}
      BY <3>2, <3>4, AppendProperties DEF w
    <3>6. /\ task'[want] \in Task /\ task'[want].waiters = Append(w, c)
          /\ task'[want].count = task[want].count + 1 /\ task'[want].mem
      <4>1. task[want].status \in Statuses /\ task[want].count + 1 \in Nat
        BY <3>2, <3>4 DEF Task
      <4>2. task'[want] \in Task
        BY <3>3, <3>5, <4>1, <1>TaskType, ZenonT(30)
      <4> QED
        BY <3>3, <4>2
    <3>7. TaskExact(want)'
      <4>1. WaitingFor(want)' = OnChain(Append(w, c))
        BY <2>4, <3>1, <3>2, <3>5 DEF TaskExact, w
      <4>2. task'[want].count = Len(Append(w, c)) /\ task'[want].count > 0
        BY <3>2, <3>4, <3>5, <3>6 DEF TaskExact, w
      <4> QED
        BY <3>5, <3>6, <4>1, <4>2 DEF TaskExact
    <3>8. \A p \in Pid : p # want => task'[p] = task[p]
      BY <3>1 DEF OsInv
    <3>9. ASSUME NEW p \in Pid PROVE TaskExact(p)'
      <4>1. CASE p = want
        BY <3>7, <4>1, Zenon
      <4>2. CASE p # want
        BY <2>4, <3>8, <4>2 DEF OsInv, TaskExact
      <4> QED
        BY <4>1, <4>2
    <3>10. ListExact'
      BY <2>4, <2>6, <3>1 DEF OsInv, ListExact
    <3>11. task' \in [Pid -> Task]
      BY <3>1, <3>6 DEF OsInv
    <3> QED
      BY <2>1, <3>9, <3>10, <3>11 DEF OsInv
  <2> QED
    BY <2>5, <2>6

\* A wait is over; the last waiter frees the task.
<1>OsWaitedKept.
     ASSUME OsInv, Base', NEW c \in Coroutine, OsWaited(c)
     PROVE  OsInv'
  <2> USE <1>OsWaitedKept
  <2>0. PICK want \in Pid \cup {NULL} : want = osw[c].want
    BY DEF OsInv, Frame, Routine
  <2> DEFINE t == [task[want] EXCEPT !.count = @ - 1, !.waiters = Without(@, c)]
  <2>1. /\ pc[c] = "os_wait" /\ pc' = [pc EXCEPT ![c] = "user"]
        /\ IF want = NULL
           THEN /\ list' = Without(list, c) /\ task' = task
                /\ osw' = [osw EXCEPT ![c] = NoFrame]
           ELSE /\ task' = [task EXCEPT ![want] = IF t.count = 0 THEN NoTask ELSE t]
                /\ osw' = [x \in Routine |->
                             IF x = c THEN NoFrame
                             ELSE [osw[x] EXCEPT !.stale = @ \/ (t.count = 0 /\ osw[x].pid = want
                                                                /\ osw[x].left > 1)]]
                /\ list' = list
    BY <2>0 DEF OsWaited, At, WaitReturns, Return
  <2>2. c \in Routine /\ NULL \notin Pid
    BY PidAssumption DEF Routine
  <2> HIDE DEF t
  <2>3. /\ pc'[c] = "user" /\ \A d \in Coroutine : d # c => pc'[d] = pc[d]
    BY <2>1, Zenon DEF OsInv, Base
  <2>4. /\ osw' \in [Routine -> Frame]
        /\ \A x \in Routine : x # c => /\ osw'[x].want = osw[x].want /\ osw'[x].left = osw[x].left
                                       /\ osw'[x].pid = osw[x].pid
        /\ osw'[c].left = 0
    <3>1. CASE want = NULL
      BY <2>1, <2>2, <3>1, <1>EmptyFrame DEF OsInv
    <3>2. CASE want # NULL
      <4>1. ASSUME NEW x \in Routine
            PROVE  /\ osw'[x] \in Frame
                   /\ x # c => /\ osw'[x].want = osw[x].want /\ osw'[x].left = osw[x].left
                               /\ osw'[x].pid = osw[x].pid
        <5> DEFINE s == osw[x].stale \/ (t.count = 0 /\ osw[x].pid = want /\ osw[x].left > 1)
        <5>1. osw[x] \in Frame
          BY DEF OsInv
        <5>2. osw'[x] = IF x = c THEN NoFrame ELSE [osw[x] EXCEPT !.stale = s]
          BY <2>1, <3>2
        <5>3. s \in BOOLEAN
          BY <5>1 DEF Frame
        <5> HIDE DEF s
        <5> QED
          BY <5>1, <5>2, <5>3, <1>EmptyFrame DEF Frame
      <4>2. osw'[c].left = 0
        BY <2>1, <2>2, <3>2, <1>EmptyFrame
      <4>3. osw' = [x \in Routine |-> osw'[x]]
        BY <2>1, <3>2
      <4> QED
        BY <4>1, <4>2, <4>3
    <3> QED
      BY <3>1, <3>2
  <2>5. \A x \in Routine : osw'[x].left > 0 => osw'[x].pid \in Pid
    BY <2>4 DEF OsInv
  <2>6. \A p \in Pid \cup {NULL} :
          /\ p = want => WaitingFor(p)' = WaitingFor(p) \ {c} /\ c \in WaitingFor(p)
          /\ p # want => WaitingFor(p)' = WaitingFor(p)
    BY <2>0, <2>1, <2>3, <2>4 DEF WaitingFor, Routine
  <2>7. CASE want = NULL
    <3>1. list' = Without(list, c) /\ task' = task
      BY <2>1, <2>7
    <3>2. list \in Seq(Coroutine) /\ Injective(list) /\ c \in OnChain(list)
      BY <2>6, <2>7 DEF OsInv, ListExact
    <3>3. list' \in Seq(Coroutine) /\ Injective(list') /\ OnChain(list') = OnChain(list) \ {c}
      BY <3>1, <3>2, WithoutProperties
    <3>4. ListExact'
      BY <2>6, <2>7, <3>3 DEF OsInv, ListExact
    <3>5. ASSUME NEW p \in Pid PROVE TaskExact(p)'
      BY <2>2, <2>6, <2>7, <3>1, Zenon DEF OsInv, TaskExact
    <3> QED
      BY <2>4, <2>5, <3>1, <3>4, <3>5 DEF OsInv
  <2>8. CASE want # NULL
    <3> DEFINE w == task[want].waiters
    <3>1. /\ want \in Pid /\ list' = list
          /\ task' = [task EXCEPT ![want] = IF t.count = 0 THEN NoTask ELSE t]
      BY <2>1, <2>2, <2>8, Zenon
    <3>2. task[want] \in Task /\ TaskExact(want) /\ c \in OnChain(w)
      BY <2>6, <3>1, Zenon DEF OsInv, TaskExact
    <3>3. w \in Seq(Coroutine) /\ Injective(w) /\ task[want].count \in Nat
          /\ task[want].count = Len(w)
      BY <3>2, Zenon DEF Task, TaskExact
    <3>4. /\ t.mem = task[want].mem /\ t.count = task[want].count - 1
          /\ t.waiters = Without(w, c)
          /\ task[want].count - 1 \in Nat /\ Without(w, c) \in Seq(Coroutine) => t \in Task
      <4>1. PICK n, v : n = task[want].count - 1 /\ v = Without(w, c)
        OBVIOUS
      <4>2. t = [task[want] EXCEPT !.count = n, !.waiters = v]
        BY <4>1 DEF t
      <4> HIDE DEF t, w
      <4>3. /\ t.mem = task[want].mem /\ t.count = n /\ t.waiters = v
            /\ n \in Nat /\ v \in Seq(Coroutine) => t \in Task
        BY <3>2, <4>2, Zenon DEF Task
      <4> QED
        BY <4>1, <4>3
    <3> HIDE DEF w
    <3>5. /\ Without(w, c) \in Seq(Coroutine) /\ Len(Without(w, c)) = Len(w) - 1 /\ Len(w) > 0
          /\ Injective(Without(w, c)) /\ OnChain(Without(w, c)) = OnChain(w) \ {c}
      BY <3>2, <3>3, WithoutProperties, Zenon
    <3>6. /\ t \in Task /\ t.waiters = Without(w, c) /\ t.count = Len(w) - 1
          /\ t.mem = task[want].mem
      <4>1. task[want].count - 1 \in Nat /\ task[want].count - 1 = Len(w) - 1
        BY <3>3, <3>5
      <4> QED
        BY <3>4, <3>5, <4>1, Zenon
    <3>7. task[want].mem
      BY <3>2, <3>3, <3>5, Zenon DEF TaskExact
    <3>8. /\ NoTask \in Task /\ NoTask.waiters = << >> /\ NoTask.count = 0 /\ NoTask.mem = FALSE
      <4>1. << >> \in Seq(Coroutine)
        OBVIOUS
      <4> QED
        BY <4>1 DEF NoTask, Task, Statuses
    <3>9. /\ task'[want] = IF t.count = 0 THEN NoTask ELSE t
          /\ \A p \in Pid : p # want => task'[p] = task[p]
      BY <3>1 DEF OsInv
    <3>10. TaskExact(want)'
      <4>1. WaitingFor(want)' = OnChain(Without(w, c))
        BY <2>6, <3>1, <3>2, <3>5, Zenon DEF TaskExact, w
      <4>2. CASE t.count = 0
        <5>1. Len(Without(w, c)) = 0
          BY <3>5, <3>6, <4>2
        <5>2. Without(w, c) = << >>
          BY <3>5, <5>1
        <5>3. task'[want] = NoTask
          BY <3>9, <4>2
        <5> QED
          BY <3>5, <3>8, <4>1, <5>2, <5>3 DEF TaskExact
      <4>3. CASE t.count # 0
        <5>1. task'[want] = t /\ t.count > 0
          BY <3>3, <3>5, <3>6, <3>9, <4>3
        <5> QED
          BY <3>5, <3>6, <3>7, <4>1, <5>1, ZenonT(30) DEF TaskExact
      <4> QED
        BY <4>2, <4>3, Zenon
    <3>11. ASSUME NEW p \in Pid PROVE TaskExact(p)'
      <4>1. CASE p = want
        BY <3>10, <4>1, Zenon
      <4>2. CASE p # want
        BY <2>6, <3>9, <4>2 DEF OsInv, TaskExact
      <4> QED
        BY <4>1, <4>2
    <3>12. ListExact'
      BY <2>6, <2>8, <3>1, Zenon DEF OsInv, ListExact
    <3>13. task' \in [Pid -> Task]
      BY <3>1, <3>6, <3>8, Zenon DEF OsInv
    <3> QED
      BY <2>4, <2>5, <3>11, <3>12, <3>13 DEF OsInv
  <2> QED
    BY <2>7, <2>8

\* A step of x, which does not wait: it gets another frame, and goes elsewhere.
<1>FrameKept.
     ASSUME OsInv, Base', list' = list, task' = task, NEW x \in Routine, NEW f \in Frame,
            f.left = 0, osw' = [osw EXCEPT ![x] = f],
            \/ pc' = pc /\ (x \in Coroutine => pc[x] # "os_wait")
            \/ /\ x \in Coroutine /\ pc[x] # "os_wait"
               /\ \E to : to # "os_wait" /\ pc' = [pc EXCEPT ![x] = to]
     PROVE  OsInv'
  <2> USE <1>FrameKept
  <2>1. /\ osw' \in [Routine -> Frame] /\ task' \in [Pid -> Task] /\ Coroutine \subseteq Routine
        /\ osw'[x] = f /\ \A y \in Routine : y # x => osw'[y] = osw[y]
    BY DEF OsInv, Routine
  <2>2. \A y \in Routine : osw'[y].left > 0 => osw'[y].pid \in Pid
    BY <2>1 DEF OsInv
  <2>3. \A c \in Coroutine : /\ pc'[c] = "os_wait" <=> pc[c] = "os_wait"
                             /\ pc[c] = "os_wait" => c # x
    BY DEF OsInv, Base
  <2>4. \A c \in Coroutine : pc[c] = "os_wait" => osw'[c].want = osw[c].want
    BY <2>1, <2>3, Zenon
  <2> QED
    BY <2>1, <2>2, <2>3, <2>4, <1>SameWaiters, Zenon

\* Nothing of wait() but the children or the loop changes.
<1>FramesKept.
     ASSUME OsInv, Base', list' = list, task' = task, osw' = osw, Keeps("os_wait")
     PROVE  OsInv'
  <2> USE <1>FramesKept
  <2>1. \A c \in Coroutine : pc'[c] = "os_wait" <=> pc[c] = "os_wait"
    BY DEF Keeps
  <2> QED
    BY <2>1, <1>SameWaiters, Zenon DEF OsInv

\* Each step of wait(), of its dispatchers and of the children keeps the queues.
<1>OsKept.
     ASSUME OsInv, Base', OsWaitStep
     PROVE  OsInv'
  <2> USE <1>OsKept
  <2>0. Coroutine \subseteq Routine /\ NoFrame \in Frame /\ NoFrame.left = 0
    BY <1>EmptyFrame DEF Routine
  <2>1. ASSUME NEW c \in Coroutine, NEW want \in Pid \cup {NULL}, cat_os__wait_wrapper(c, want)
        PROVE  OsInv'
    <3>1. PICK f \in Frame : f = [NoFrame EXCEPT !.want = want] /\ f.left = 0
      BY <1>EmptyFrame, Zenon
    <3>2. /\ pc[c] = "user" /\ pc' = [pc EXCEPT ![c] = "os_check"]
          /\ osw' = [osw EXCEPT ![c] = f] /\ list' = list /\ task' = task
      BY <2>1, <3>1 DEF cat_os__wait_wrapper, At
    <3> QED
      BY <2>0, <3>1, <3>2, <1>FrameKept, Zenon
  <2>2. ASSUME NEW c \in Coroutine, cat_os__wait(c)
        PROVE  OsInv'
    <3>1. /\ pc[c] = "os_check" /\ list' = list /\ task' = task
          /\ \/ /\ osw' = [osw EXCEPT ![c] = NoFrame]
                /\ pc' = [pc EXCEPT ![c] = "user"]
             \/ /\ osw' = [osw EXCEPT ![c].new = 0]
                /\ pc' = [pc EXCEPT ![c] = "os_dispatch"]
      BY <2>2 DEF cat_os__wait, At, WaitReturns, Return
    <3>2. CASE osw' = [osw EXCEPT ![c] = NoFrame] /\ pc' = [pc EXCEPT ![c] = "user"]
      BY <2>0, <3>1, <3>2, <1>FrameKept, Zenon
    <3>3. CASE osw' = [osw EXCEPT ![c].new = 0] /\ pc' = [pc EXCEPT ![c] = "os_dispatch"]
      <4>1. osw[c] \in Frame /\ osw'[c] = [osw[c] EXCEPT !.new = 0]
        BY <2>0, <3>3 DEF OsInv
      <4>2. /\ osw'[c] \in Frame /\ osw'[c].left = osw[c].left /\ osw'[c].pid = osw[c].pid
        BY <4>1 DEF Frame
      <4>3. osw' \in [Routine -> Frame] /\ \A y \in Routine : y # c => osw'[y] = osw[y]
        BY <3>3, <4>2, Zenon DEF OsInv
      <4>4. \A y \in Routine : osw'[y].left > 0 => osw'[y].pid \in Pid
        BY <4>2, <4>3 DEF OsInv
      <4>5. \A y \in Coroutine : /\ pc'[y] = "os_wait" <=> pc[y] = "os_wait"
                                 /\ pc[y] = "os_wait" => osw'[y].want = osw[y].want
        BY <2>0, <3>1, <3>3, <4>3 DEF OsInv, Base
      <4> QED
        BY <3>1, <4>3, <4>4, <4>5, <1>SameWaiters DEF OsInv
    <3> QED
      BY <3>1, <3>2, <3>3
  <2>3. ASSUME NEW x \in Routine, DispatchGoesOn(x)
        PROVE  OsInv'
    <3>1. /\ osw[x].left > 0 /\ list' = list
          /\ \/ pc' = pc /\ task' = task /\ osw' = [osw EXCEPT ![x].left = 0]
             \/ osw[x].left # 1 /\ NotifyOne(x, osw[x].pid, osw[x].status, osw[x].left - 1)
      BY <2>3 DEF DispatchGoesOn
    <3>2. osw[x] \in Frame /\ osw[x].pid \in Pid
      BY <3>1 DEF OsInv
    <3>3. CASE pc' = pc /\ task' = task /\ osw' = [osw EXCEPT ![x].left = 0]
      <4>1. osw'[x] = [osw[x] EXCEPT !.left = 0]
        BY <3>3 DEF OsInv
      <4>2. osw'[x] \in Frame /\ osw'[x].left = 0 /\ osw'[x].want = osw[x].want
        BY <3>2, <4>1 DEF Frame
      <4>3. osw' \in [Routine -> Frame] /\ \A y \in Routine : y # x => osw'[y] = osw[y]
        BY <3>3, <4>2 DEF OsInv
      <4>4. \A y \in Routine : osw'[y].left > 0 => osw'[y].pid \in Pid
        BY <4>2, <4>3 DEF OsInv
      <4>5. \A y \in Coroutine : osw'[y].want = osw[y].want
        BY <2>0, <4>2, <4>3
      <4> QED
        BY <3>1, <3>3, <4>3, <4>4, <4>5, <1>SameWaiters DEF OsInv
    <3>4. CASE osw[x].left # 1 /\ NotifyOne(x, osw[x].pid, osw[x].status, osw[x].left - 1)
      <4>1. osw[x].status \in Statuses /\ osw[x].left - 1 \in Nat
        BY <3>1, <3>2, <3>4 DEF Frame
      <4> QED
        BY <3>1, <3>2, <3>4, <4>1, <1>TellKept
    <3> QED
      BY <3>1, <3>3, <3>4
  <2>4. ASSUME NEW x \in Routine, DispatchDone(x)
        PROVE  OsInv'
    <3>1. CASE x = Scheduler
      <4>1. list' = list /\ task' = task /\ pc' = pc /\ osw' = [osw EXCEPT ![x] = NoFrame]
        BY <2>4, <3>1, SchedulerAssumption DEF DispatchDone
      <4> QED
        BY <2>0, <3>1, <4>1, <1>FrameKept, SchedulerAssumption, Zenon
    <3>2. CASE x \in Coroutine
      <4>1. /\ pc[x] = "os_dispatch"
            /\ \/ /\ pc' = [pc EXCEPT ![x] = "os_check"]
                  /\ list' = list /\ task' = task /\ osw' = osw
               \/ JoinWaiters(x)
        BY <2>4, <3>2, SchedulerAssumption, Zenon DEF DispatchDone, Dispatching, At, oswait
      <4>2. CASE pc' = [pc EXCEPT ![x] = "os_check"] /\ list' = list /\ task' = task /\ osw' = osw
        <5>1. \A c \in Coroutine : pc'[c] = "os_wait" <=> pc[c] = "os_wait"
          BY <4>1, <4>2, Zenon DEF OsInv, Base
        <5> QED
          BY <4>2, <5>1, <1>SameWaiters, Zenon DEF OsInv
      <4> QED
        BY <3>2, <4>1, <4>2, <1>JoinKept, Zenon
    <3> QED
      BY <3>1, <3>2 DEF Routine
  <2>5. ASSUME pc' = pc, osw' = osw, list' = list, task' = task
        PROVE  OsInv'
    BY <2>5, <1>SameWaiters DEF OsInv
  <2>6. cat_os_wait_sigchld_handler => OsInv'
    BY <2>5 DEF cat_os_wait_sigchld_handler
  <2>7. ASSUME NEW p \in Pid, KidExits(p) \/ KidStops(p)
        PROVE  OsInv'
    BY <2>5, <2>7 DEF KidExits, KidStops, KidChanges, waiting
  <2> QED
    BY <2>1, <2>2, <2>3, <2>4, <2>6, <2>7, <1>OsWaitedKept, <1>DispatchKept
    DEF OsWaitStep, OsWaitNext, DispatchNext

<1>1. Init => OsInv
  <2> SUFFICES ASSUME Init PROVE OsInv
    OBVIOUS
  <2>1. /\ list = << >> /\ task = [p \in Pid |-> NoTask]
        /\ osw = [x \in Routine |-> NoFrame] /\ pc = [c \in Coroutine |-> "user"]
    BY DEF Init, OsWaitInit, TimeInit
  <2>2. << >> \in Seq(Coroutine) /\ Injective(<< >>) /\ OnChain(<< >>) = {} /\ Len(<< >>) = 0
    BY DEF Injective, OnChain
  <2>3. /\ NoTask \in Task /\ NoTask.waiters = << >> /\ NoTask.count = 0 /\ ~ NoTask.mem
    <3>1. << >> \in Seq(Coroutine)
      OBVIOUS
    <3> QED
      BY <3>1 DEF NoTask, Task, Statuses
  <2>4. \A p : WaitingFor(p) = {}
    BY <2>1 DEF WaitingFor
  <2>5. ListExact
    BY <2>1, <2>2, <2>4 DEF ListExact
  <2>6. ASSUME NEW p \in Pid PROVE TaskExact(p)
    <3>1. task[p] = NoTask
      BY <2>1
    <3>2. ~ task[p].mem /\ ~ (task[p].count > 0) /\ task[p].waiters = << >> /\ task[p].count = 0
      BY <2>3, <3>1
    <3> QED
      BY <2>2, <2>4, <3>2, Zenon DEF TaskExact
  <2> QED
    BY <2>1, <2>3, <2>5, <2>6, BaseInit, <1>EmptyFrame DEF OsInv
<1>2. OsInv /\ [Next]_vars => OsInv'
  <2> SUFFICES ASSUME OsInv, [Next]_vars PROVE OsInv'
    OBVIOUS
  <2>1. Base' /\ (OsWaitStep \/ (Keeps("os_wait") /\ UNCHANGED oswait))
    BY OsStepKeeps DEF OsInv
  <2>2. CASE Keeps("os_wait") /\ UNCHANGED oswait
    BY <2>1, <2>2, <1>FramesKept, Zenon DEF oswait
  <2> QED
    BY <2>1, <2>2, <1>OsKept
<1> QED
  BY <1>1, <1>2, PTL DEF Spec

\* The queues of wait() and waitpid() hold exactly the coroutines that wait, whatever
\* ends their waits and in whatever order dispatchers nest; the last one frees the
\* task and nobody else does.
THEOREM OsWaitersCorrect == Spec => []OsWaitersExact
<1>1. OsInv => OsWaitersExact
  BY Zenon DEF OsInv, OsWaitersExact, ListExact, TaskExact, WaitingFor, OnChain
<1> QED
  BY <1>1, OsInvariant, PTL

-----------------------------------------------------------------------------
\* Polls.

FdHandle == [st : {"none", "idle", "watched", "closing"}, status : AnyStatus, events : BOOLEAN]

Call == [mem : BOOLEAN, one : BOOLEAN, ref : Int, coroutine : Coroutine \cup {NULL},
         task : {"none", "created"}, fd : [Fd -> FdHandle]]

\* The coroutine of the call k still waits in it.
Owned(k) ==
  /\ poll[k].coroutine \in Coroutine
  /\ pc[poll[k].coroutine] = "poll"
  /\ pollof[poll[k].coroutine] = k

PollTypes ==
  /\ poll \in [PollCtx -> Call]
  /\ pollof \in [Coroutine -> PollCtx \cup {0}]
  /\ tasks \in Seq(PollCtx) /\ Injective(tasks)

\* What can report, and what has been queued, belongs to a call that waits; ...
WatchedOwned == \A k \in PollCtx, f \in Fd : poll[k].fd[f].st = "watched" => Owned(k)

TasksOwned == \A k \in OnChain(tasks) : k \in PollCtx /\ Owned(k) /\ poll[k].task = "created"

\* ... what is being closed names nobody; the memory of a call that waits is in
\* use; and a coroutine that waits is the one of its call.
ClosingFree ==
  \A k \in PollCtx, f \in Fd : poll[k].fd[f].st = "closing" => poll[k].coroutine = NULL

OwnedInUse == \A k \in PollCtx : Owned(k) => poll[k].mem

WaiterNamed ==
  \A c \in Coroutine : pc[c] = "poll" => pollof[c] \in PollCtx /\ poll[pollof[c]].coroutine = c

PollInv ==
  Base /\ PollTypes /\ WatchedOwned /\ TasksOwned /\ ClosingFree /\ OwnedInUse /\ WaiterNamed

\* A call that is over.
Ended(call) ==
  call \in Call /\ call.coroutine = NULL /\ \A f \in Fd : call.fd[f].st # "watched"

\* The memory of no call.
LEMMA NoCallEnded == Ended(NoCall)
BY DEF Ended, NoCall, NoHandle, Call, FdHandle, AnyStatus

\* Dropping a reference ends nothing but what is over.
LEMMA DerefEnded ==
  ASSUME NEW call, Ended(call)
  PROVE  Ended(Deref(call))
<1>1. CASE call.ref = 1
  BY <1>1, NoCallEnded DEF Deref
<1>2. CASE call.ref # 1
  <2>1. Deref(call) = [call EXCEPT !.ref = call.ref - 1]
    BY <1>2 DEF Deref, Ended, Call
  <2>2. Deref(call) \in Call /\ Deref(call).coroutine = call.coroutine /\ Deref(call).fd = call.fd
    BY <2>1 DEF Ended, Call
  <2> QED
    BY <2>2 DEF Ended
<1> QED
  BY <1>1, <1>2

\* Closing all handles ends a call.
LEMMA CloseAllEnded ==
  ASSUME NEW call \in Call
  PROVE  Ended(CloseAll(call))
<1> DEFINE hs == [f \in Fd |-> IF call.fd[f].st = "none" THEN NoHandle
                               ELSE [call.fd[f] EXCEPT !.st = "closing"]]
           closed == [call EXCEPT !.coroutine = NULL, !.task = "none", !.fd = hs]
<1>1. \A f \in Fd : hs[f] \in FdHandle /\ hs[f].st # "watched"
  BY DEF Call, FdHandle, NoHandle, AnyStatus
<1>2. hs \in [Fd -> FdHandle]
  BY <1>1
<1> HIDE DEF hs
<1>3. closed \in Call /\ closed.coroutine = NULL /\ closed.fd = hs
  BY <1>2, Zenon DEF Call
<1>4. CloseAll(call) = IF call.one THEN closed ELSE Deref(closed)
  BY DEF CloseAll, hs
<1> HIDE DEF closed
<1>5. Ended(closed)
  BY <1>1, <1>3, Zenon DEF Ended
<1> QED
  BY <1>4, <1>5, DerefEnded

\* The handles of a call can be counted: Fd is finite.
Counting == \A S \in SUBSET Fd : Cardinality(S) \in Nat

\* The memory of a call that c has just begun.
Begun(call, c) ==
  /\ call \in Call /\ call.coroutine = c /\ call.mem /\ call.task = "none"
  /\ \A f \in Fd : call.fd[f].st # "closing" /\ ~ call.fd[f].events

\* A new call, which watches when nothing has failed.
LEMMA NewCallType ==
  ASSUME Counting, NEW c \in Coroutine, NEW fds \in SUBSET Fd, NEW bad \in SUBSET fds,
         NEW odd \in SUBSET fds, NEW one \in BOOLEAN, NEW garbage \in AnyStatus
  PROVE  Begun(NewCall(c, fds, bad, odd, one, garbage), c)
<1> DEFINE hs == Handles(fds, bad, odd, garbage)
           call == NewCall(c, fds, bad, odd, one, garbage)
           n == Cardinality({ f \in Fd : hs[f].st # "none" })
<1>1. \A f \in Fd : hs[f] \in FdHandle /\ hs[f].st # "closing" /\ ~ hs[f].events
  BY Zenon DEF Handles, NoHandle, FdHandle, AnyStatus
<1>2. hs \in [Fd -> FdHandle]
  BY <1>1 DEF Handles
<1>3. n \in Nat
  BY Zenon DEF Counting
<1>4. call = [mem |-> TRUE, one |-> one, coroutine |-> c, task |-> "none", fd |-> hs,
              ref |-> n + (IF one THEN 0 ELSE 1)]
  BY DEF NewCall
<1> HIDE DEF hs, n, call
<1>5. n + (IF one THEN 0 ELSE 1) \in Int
  BY <1>3
<1>6. call \in Call
  BY <1>2, <1>4, <1>5 DEF Call
<1>7. call.coroutine = c /\ call.mem /\ call.task = "none" /\ call.fd = hs
  BY <1>4, Zenon
<1>8. Begun(call, c)
  BY <1>1, <1>6, <1>7, Zenon DEF Begun
<1> QED
  BY <1>8, Zenon DEF call

\* The invariant of the polls holds in every state.
LEMMA PollInvariant ==
  ASSUME Counting
  PROVE  Spec => []PollInv
\* A call that nobody waits in is replaced by one that is over.
<1>EndedKept.
     ASSUME PollInv, Base', NEW k \in PollCtx, ~ Owned(k), NEW call, Ended(call),
            poll' = [poll EXCEPT ![k] = call], pc' = pc, pollof' = pollof, tasks' = tasks
     PROVE  PollInv'
  <2> USE <1>EndedKept
  <2>1. PollTypes /\ WatchedOwned /\ TasksOwned /\ ClosingFree /\ OwnedInUse /\ WaiterNamed
    BY DEF PollInv
  <2>2. NULL \notin Coroutine
    BY NullAssumption DEF Routine
  <2>3. poll'[k] = call /\ \A j \in PollCtx : j # k => poll'[j] = poll[j]
    BY <2>1, Zenon DEF PollTypes
  <2>4. \A j \in PollCtx : j # k => (Owned(j)' <=> Owned(j))
    BY <2>3 DEF Owned
  <2>5. ~ Owned(k)'
    BY <2>2, <2>3, Zenon DEF Owned, Ended
  <2>6. PollTypes'
    BY <2>1, Zenon DEF PollTypes, Ended
  <2>7. WatchedOwned'
    BY <2>1, <2>3, <2>4 DEF WatchedOwned, Ended
  <2>8. TasksOwned'
    BY <2>1, <2>3, <2>4, Zenon DEF TasksOwned
  <2>9. ClosingFree'
    BY <2>1, <2>3 DEF ClosingFree, Ended
  <2>10. OwnedInUse'
    BY <2>1, <2>3, <2>4, <2>5, Zenon DEF OwnedInUse
  <2>11. WaiterNamed'
    BY <2>1, <2>3 DEF WaiterNamed, Owned
  <2> QED
    BY <2>6, <2>7, <2>8, <2>9, <2>10, <2>11 DEF PollInv

\* poll() begins to wait, or fails.
<1>PollKept.
     ASSUME PollInv, Base', NEW c \in Coroutine, NEW fds \in SUBSET Fd, NEW one \in BOOLEAN,
            cat_poll(c, fds, one)
     PROVE  PollInv'
  <2> USE <1>PollKept
  <2>1. PollTypes /\ WatchedOwned /\ TasksOwned /\ ClosingFree /\ OwnedInUse /\ WaiterNamed
    BY DEF PollInv
  <2>2. PICK k \in PollCtx, bad \in SUBSET fds, odd \in SUBSET fds, garbage \in AnyStatus :
          /\ ~ poll[k].mem
          /\ LET call == NewCall(c, fds, bad, odd, one, garbage) IN
             IF bad \cup odd = {}
             THEN /\ poll' = [poll EXCEPT ![k] = call]
                  /\ pollof' = [pollof EXCEPT ![c] = k]
                  /\ cat_time_wait(c, "poll", TRUE)
             ELSE /\ poll' = [poll EXCEPT ![k] = IF call.ref = 0 THEN NoCall ELSE CloseAll(call)]
                  /\ UNCHANGED << pollof, chain, pc, timer >>
    BY ZenonT(30) DEF cat_poll
  <2>3. pc[c] = "user" /\ tasks' = tasks
    BY DEF cat_poll, At
  <2>4. bad \in SUBSET fds /\ odd \in SUBSET fds /\ garbage \in AnyStatus
    BY <2>2
  <2> DEFINE call == NewCall(c, fds, bad, odd, one, garbage)
  <2>5. Begun(call, c)
    BY <2>4, NewCallType, Zenon
  <2> HIDE DEF call
  <2>6. ~ Owned(k)
    BY <2>1, <2>2 DEF OwnedInUse
  <2>7. CASE bad \cup odd # {}
    <3>1. /\ poll' = [poll EXCEPT ![k] = IF call.ref = 0 THEN NoCall ELSE CloseAll(call)]
          /\ pc' = pc /\ pollof' = pollof
      BY <2>2, <2>7, Zenon DEF call
    <3>2. Ended(IF call.ref = 0 THEN NoCall ELSE CloseAll(call))
      BY <2>5, NoCallEnded, CloseAllEnded DEF Begun
    <3> QED
      BY <2>3, <2>6, <3>1, <3>2, <1>EndedKept, Zenon
  <2>8. CASE bad \cup odd = {}
    <3>1. /\ poll' = [poll EXCEPT ![k] = call]
          /\ pollof' = [pollof EXCEPT ![c] = k]
          /\ pc' = [pc EXCEPT ![c] = "poll"]
      BY <2>2, <2>8, Zenon DEF call, cat_time_wait
    <3>2. poll'[k] = call /\ \A j \in PollCtx : j # k => poll'[j] = poll[j]
      BY <2>1, <3>1 DEF PollTypes
    <3>3. /\ pc'[c] = "poll" /\ pollof'[c] = k
          /\ \A d \in Coroutine : d # c => pc'[d] = pc[d] /\ pollof'[d] = pollof[d]
      BY <2>1, <3>1, Zenon DEF PollInv, PollTypes, Base
    <3>4. Owned(k)'
      BY <2>5, <3>2, <3>3, Zenon DEF Begun, Owned
    <3>5. \A j \in PollCtx : j # k => (Owned(j)' <=> Owned(j))
      BY <2>3, <3>2, <3>3 DEF Owned
    <3>6. PollTypes'
      BY <2>1, <2>3, <2>5, <3>1 DEF Begun, PollTypes
    <3>7. WatchedOwned'
      BY <2>1, <3>2, <3>4, <3>5, Zenon DEF WatchedOwned
    <3>8. TasksOwned'
      BY <2>1, <2>3, <2>6, <3>2, <3>5, ZenonT(30) DEF TasksOwned
    <3>9. ClosingFree'
      BY <2>1, <2>5, <3>2, ZenonT(30) DEF Begun, ClosingFree
    <3>10. OwnedInUse'
      BY <2>1, <2>5, <3>2, <3>5, Zenon DEF Begun, OwnedInUse
    <3>11. ASSUME NEW d \in Coroutine, pc'[d] = "poll"
           PROVE  pollof'[d] \in PollCtx /\ poll'[pollof'[d]].coroutine = d
      <4>1. CASE d = c
        BY <2>5, <3>2, <3>3, <4>1, ZenonT(30) DEF Begun
      <4>2. CASE d # c
        <5>1. pc[d] = "poll" /\ pollof'[d] = pollof[d] /\ pollof[d] \in PollCtx
              /\ poll[pollof[d]].coroutine = d
          BY <2>1, <3>3, <3>11, <4>2, Zenon DEF WaiterNamed
        <5>2. pollof[d] # k
          BY <2>6, <5>1, Zenon DEF Owned
        <5> QED
          BY <3>2, <5>1, <5>2, ZenonT(30)
      <4> QED
        BY <4>1, <4>2
    <3>12. WaiterNamed'
      BY <3>11 DEF WaiterNamed
    <3> QED
      BY <3>6, <3>7, <3>8, <3>9, <3>10, <3>12, Zenon DEF PollInv
  <2> QED
    BY <2>7, <2>8

\* The wait is over, and with it the call and its task.
<1>PollWaitedKept.
     ASSUME PollInv, Base', NEW c \in Coroutine, PollWaited(c)
     PROVE  PollInv'
  <2> USE <1>PollWaitedKept
  <2>1. PollTypes /\ WatchedOwned /\ TasksOwned /\ ClosingFree /\ OwnedInUse /\ WaiterNamed
    BY Zenon DEF PollInv
  <2>2. PICK k \in PollCtx : pc[c] = "poll" /\ pollof[c] = k /\ poll[k].coroutine = c
    BY <2>1, Zenon DEF PollWaited, At, WaiterNamed
  <2>3. /\ pc' = [pc EXCEPT ![c] = "user"]
        /\ poll' = [poll EXCEPT ![k] = CloseAll(poll[k])]
        /\ pollof' = [pollof EXCEPT ![c] = 0]
        /\ tasks' = Without(tasks, k)
    BY <2>2 DEF PollWaited, Return
  <2>4. poll[k] \in Call
    BY <2>1 DEF PollTypes
  <2>5. Ended(CloseAll(poll[k])) /\ NULL \notin Coroutine
    BY <2>4, CloseAllEnded, NullAssumption DEF Routine
  <2>6. poll'[k] = CloseAll(poll[k]) /\ \A j \in PollCtx : j # k => poll'[j] = poll[j]
    BY <2>1, <2>3, Zenon DEF PollTypes
  <2>7. pc'[c] = "user" /\ \A d \in Coroutine : d # c => pc'[d] = pc[d] /\ pollof'[d] = pollof[d]
    BY <2>1, <2>3 DEF PollInv, PollTypes, Base
  <2>8. tasks' \in Seq(PollCtx) /\ Injective(tasks') /\ OnChain(tasks') = OnChain(tasks) \ {k}
    <3>1. CASE k \in OnChain(tasks)
      BY <2>1, <2>3, <3>1, WithoutProperties, Zenon DEF PollTypes
    <3>2. CASE k \notin OnChain(tasks)
      <4>1. ~ \E i \in DOMAIN tasks : tasks[i] = k
        BY <3>2 DEF OnChain
      <4>2. Without(tasks, k) = tasks
        BY <4>1, Zenon DEF Without
      <4> QED
        BY <2>1, <2>3, <3>2, <4>2, Zenon DEF PollTypes
    <3> QED
      BY <3>1, <3>2, Zenon
  <2>9. ~ Owned(k)'
    BY <2>5, <2>6, Zenon DEF Owned, Ended
  <2>10. \A j \in PollCtx : j # k => (Owned(j)' <=> Owned(j))
    BY <2>2, <2>6, <2>7, Zenon DEF Owned
  <2>11. PollTypes'
    BY <2>1, <2>3, <2>5, <2>8, Zenon DEF PollTypes, Ended
  <2>12. WatchedOwned'
    BY <2>1, <2>5, <2>6, <2>10, Zenon DEF WatchedOwned, Ended
  <2>13. TasksOwned'
    BY <2>1, <2>6, <2>8, <2>10, Zenon DEF TasksOwned
  <2>14. ClosingFree'
    BY <2>1, <2>5, <2>6, Zenon DEF ClosingFree, Ended
  <2>15. OwnedInUse'
    BY <2>1, <2>6, <2>9, <2>10, Zenon DEF OwnedInUse
  <2>16. ASSUME NEW d \in Coroutine, pc'[d] = "poll"
         PROVE  pollof'[d] \in PollCtx /\ poll'[pollof'[d]].coroutine = d
    <3>1. d # c /\ pc[d] = "poll" /\ pollof'[d] = pollof[d]
      BY <2>7, <2>16, Zenon
    <3>2. pollof[d] \in PollCtx /\ poll[pollof[d]].coroutine = d
      BY <2>1, <3>1, Zenon DEF WaiterNamed
    <3> QED
      BY <2>2, <2>6, <3>1, <3>2, Zenon
  <2>17. WaiterNamed'
    BY <2>16 DEF WaiterNamed
  <2> QED
    BY <2>11, <2>12, <2>13, <2>14, <2>15, <2>17 DEF PollInv

\* The callbacks that report events queue the task of a call once.
<1>ReportKept.
     ASSUME PollInv, Base', NEW k \in PollCtx, NEW f \in Fd, NEW status \in {"ok", "error"},
            cat_poll_callback(k, f, status)
     PROVE  PollInv'
  <2> USE <1>ReportKept
  <2> DEFINE h == Reported(poll[k].fd[f], status)
             hs == [poll[k].fd EXCEPT ![f] = h]
  <2>1. PollTypes /\ WatchedOwned /\ TasksOwned /\ ClosingFree /\ OwnedInUse /\ WaiterNamed
    BY DEF PollInv
  <2>2. /\ poll[k].fd[f].st = "watched"
        /\ poll' = [poll EXCEPT ![k] = [poll[k] EXCEPT !.task = "created", !.fd = hs]]
        /\ tasks' = IF poll[k].task = "none" THEN Append(tasks, k) ELSE tasks
        /\ pc' = pc /\ pollof' = pollof
    BY DEF cat_poll_callback, Report
  <2> HIDE DEF h, hs
  <2>3. poll[k] \in Call /\ Owned(k)
    BY <2>1, <2>2 DEF PollTypes, WatchedOwned
  <2>4. \A j \in PollCtx : j # k => poll'[j] = poll[j]
    BY <2>1, <2>2 DEF PollTypes
  <2>5. /\ poll'[k] \in Call /\ poll'[k].task = "created"
        /\ poll'[k].coroutine = poll[k].coroutine /\ poll'[k].mem = poll[k].mem
        /\ \A g \in Fd : poll'[k].fd[g].st = poll[k].fd[g].st
    <3>1. poll[k].fd \in [Fd -> FdHandle]
      BY <2>3 DEF Call
    <3>2. h \in FdHandle /\ h.st = poll[k].fd[f].st
      BY <3>1, ZenonT(30) DEF FdHandle, AnyStatus, Reported, h
    <3>3. hs \in [Fd -> FdHandle] /\ \A g \in Fd : hs[g].st = poll[k].fd[g].st
      BY <3>1, <3>2 DEF hs
    <3>4. poll'[k] = [poll[k] EXCEPT !.task = "created", !.fd = hs]
      BY <2>1, <2>2 DEF PollTypes
    <3> QED
      BY <2>3, <3>3, <3>4, ZenonT(30) DEF Call
  <2>6. \A j \in PollCtx : Owned(j)' <=> Owned(j)
    BY <2>2, <2>4, <2>5, ZenonT(30) DEF Owned
  <2>7. tasks' \in Seq(PollCtx) /\ Injective(tasks') /\ OnChain(tasks') \subseteq OnChain(tasks) \cup {k}
    <3>1. CASE poll[k].task = "none"
      <4>1. k \notin OnChain(tasks)
        BY <2>1, <3>1 DEF TasksOwned
      <4> QED
        BY <2>1, <2>2, <3>1, <4>1, AppendProperties DEF PollTypes
    <3>2. CASE poll[k].task # "none"
      BY <2>1, <2>2, <3>2, Zenon DEF PollTypes
    <3> QED
      BY <3>1, <3>2
  <2>8. \A j \in PollCtx : /\ poll'[j].coroutine = poll[j].coroutine /\ poll'[j].mem = poll[j].mem
                           /\ \A g \in Fd : poll'[j].fd[g].st = poll[j].fd[g].st
    BY <2>4, <2>5
  <2>9. PollTypes'
    BY <2>1, <2>2, <2>4, <2>5, <2>7, Zenon DEF PollTypes
  <2>10. WatchedOwned'
    BY <2>1, <2>6, <2>8 DEF WatchedOwned
  <2>11. TasksOwned'
    BY <2>1, <2>3, <2>4, <2>5, <2>6, <2>7, Zenon DEF TasksOwned
  <2>12. ClosingFree'
    BY <2>1, <2>8, ZenonT(30) DEF ClosingFree
  <2>13. OwnedInUse'
    BY <2>1, <2>6, <2>8, Zenon DEF OwnedInUse
  <2>14. WaiterNamed'
    BY <2>1, <2>2, <2>8 DEF WaiterNamed
  <2> QED
    BY <2>9, <2>10, <2>11, <2>12, <2>13, <2>14 DEF PollInv

\* The loop takes the first task.
<1>TaskKept.
     ASSUME PollInv, Base', cat_event_do_io_defer_tasks
     PROVE  PollInv'
  <2> USE <1>TaskKept
  <2>1. PollTypes /\ WatchedOwned /\ TasksOwned /\ ClosingFree /\ OwnedInUse /\ WaiterNamed
    BY DEF PollInv
  <2>2. poll' = poll /\ pollof' = pollof /\ pc' = pc
    BY DEF cat_event_do_io_defer_tasks, Schedule
  <2>3. tasks' \in Seq(PollCtx) /\ Injective(tasks') /\ OnChain(tasks') \subseteq OnChain(tasks)
    <3>1. CASE tasks = << >>
      BY <2>1, <3>1, Zenon DEF cat_event_do_io_defer_tasks, PollTypes
    <3>2. CASE tasks # << >>
      <4>1. /\ Tail(tasks) \in Seq(PollCtx) /\ Len(Tail(tasks)) = Len(tasks) - 1
            /\ Len(tasks) \in Nat /\ Len(tasks) > 0
            /\ DOMAIN tasks = 1..Len(tasks) /\ DOMAIN Tail(tasks) = 1..(Len(tasks) - 1)
            /\ \A i \in 1..(Len(tasks) - 1) : Tail(tasks)[i] = tasks[i + 1]
        BY <2>1, <3>2 DEF PollTypes
      <4>2. \A i \in 1..(Len(tasks) - 1) : i + 1 \in DOMAIN tasks
        BY <4>1
      <4>3. Injective(Tail(tasks))
        BY <2>1, <4>1, <4>2 DEF PollTypes, Injective
      <4>4. OnChain(Tail(tasks)) \subseteq OnChain(tasks)
        BY <4>1, <4>2 DEF OnChain
      <4>5. tasks' = Tail(tasks)
        BY <3>2, Zenon DEF cat_event_do_io_defer_tasks
      <4> QED
        BY <4>1, <4>3, <4>4, <4>5, Zenon
    <3> QED
      BY <3>1, <3>2, Zenon
  <2>4. \A j : Owned(j)' <=> Owned(j)
    BY <2>2, Zenon DEF Owned
  <2>5. PollTypes' /\ TasksOwned'
    BY <2>1, <2>2, <2>3, <2>4, Zenon DEF PollTypes, TasksOwned
  <2>6. WatchedOwned' /\ ClosingFree' /\ OwnedInUse' /\ WaiterNamed'
    BY <2>1, <2>2, <2>4 DEF WatchedOwned, ClosingFree, OwnedInUse, WaiterNamed
  <2> QED
    BY <2>5, <2>6 DEF PollInv

\* A handle has been closed.
<1>PollCloseKept.
     ASSUME PollInv, Base', NEW k \in PollCtx, NEW f \in Fd, cat_poll_close_callback(k, f)
     PROVE  PollInv'
  <2> USE <1>PollCloseKept
  <2> DEFINE call == [poll[k] EXCEPT !.fd[f] = NoHandle]
  <2>1. PollTypes /\ WatchedOwned /\ ClosingFree
    BY DEF PollInv
  <2>2. /\ poll[k].fd[f].st = "closing"
        /\ poll' = [poll EXCEPT ![k] = Deref(call)]
        /\ pc' = pc /\ pollof' = pollof /\ tasks' = tasks
    BY <2>1 DEF cat_poll_close_callback, waiting, PollTypes
  <2>3. poll[k].coroutine = NULL /\ ~ Owned(k) /\ poll[k] \in Call
    BY <2>1, <2>2, NullAssumption, Zenon DEF PollTypes, ClosingFree, Owned, Routine
  <2>4. \A g \in Fd : poll[k].fd[g].st # "watched"
    BY <2>1, <2>3, Zenon DEF WatchedOwned
  <2>5. Ended(call)
    <3>1. NoHandle \in FdHandle /\ NoHandle.st # "watched"
      BY DEF NoHandle, FdHandle, AnyStatus
    <3>2. call \in Call /\ call.coroutine = NULL /\ call.fd = [poll[k].fd EXCEPT ![f] = NoHandle]
      BY <2>3, <3>1, Zenon DEF Call
    <3> HIDE DEF call
    <3>3. poll[k].fd \in [Fd -> FdHandle]
      BY <2>3, Zenon DEF Call
    <3>4. \A g \in Fd : call.fd[g].st # "watched"
      BY <2>4, <3>1, <3>2, <3>3
    <3> QED
      BY <3>2, <3>4, Zenon DEF Ended
  <2> HIDE DEF call
  <2>6. Ended(Deref(call))
    BY <2>5, DerefEnded, Zenon
  <2> QED
    BY <2>2, <2>3, <2>6, <1>EndedKept, Zenon

<1>1. Init => PollInv
  <2> SUFFICES ASSUME Init PROVE PollInv
    OBVIOUS
  <2>1. /\ poll = [k \in PollCtx |-> NoCall] /\ pollof = [c \in Coroutine |-> 0] /\ tasks = << >>
        /\ pc = [c \in Coroutine |-> "user"]
    BY DEF Init, PollInit, TimeInit
  <2>2. << >> \in Seq(PollCtx) /\ DOMAIN << >> = {}
    OBVIOUS
  <2>3. Injective(tasks) /\ OnChain(tasks) = {}
    BY <2>1, <2>2, Zenon DEF Injective, OnChain
  <2>4. poll \in [PollCtx -> Call]
    BY <2>1, NoCallEnded, Zenon DEF Ended
  <2>5. \A k \in PollCtx : ~ Owned(k)
    BY <2>1, NoCallEnded, NullAssumption DEF Ended, Owned, Routine
  <2> QED
    BY <2>1, <2>2, <2>3, <2>4, <2>5, NoCallEnded, BaseInit
    DEF PollInv, PollTypes, WatchedOwned, TasksOwned, ClosingFree, OwnedInUse, WaiterNamed, Ended
<1>2. PollInv /\ [Next]_vars => PollInv'
  <2> SUFFICES ASSUME PollInv, [Next]_vars PROVE PollInv'
    OBVIOUS
  <2>1. /\ Base'
        /\ PollStep \/ (Keeps("poll") /\ poll' = poll /\ pollof' = pollof /\ tasks' = tasks)
    BY StepKeeps DEF PollInv
  <2>2. CASE Keeps("poll") /\ poll' = poll /\ pollof' = pollof /\ tasks' = tasks
    <3>1. \A k : Owned(k)' <=> Owned(k)
      BY <2>2, Zenon DEF Owned, Keeps
    <3> QED
      BY <2>1, <2>2, <3>1, ZenonT(30)
      DEF PollInv, PollTypes, WatchedOwned, TasksOwned, ClosingFree, OwnedInUse, WaiterNamed, Keeps
  <2>3. ASSUME NEW c \in Coroutine, IoWakeup(c)
        PROVE  PollInv'
    <3>1. UNCHANGED << poll, pollof, tasks, pc >>
      BY <2>3 DEF IoWakeup, Schedule, polling
    <3>2. \A k : Owned(k)' <=> Owned(k)
      BY <3>1, Zenon DEF Owned
    <3> QED
      BY <2>1, <3>1, <3>2, Zenon
      DEF PollInv, PollTypes, WatchedOwned, TasksOwned, ClosingFree, OwnedInUse, WaiterNamed
  <2>4. CASE PollStep
    BY <2>1, <2>3, <2>4, <1>PollKept, <1>PollWaitedKept, <1>ReportKept, <1>TaskKept, <1>PollCloseKept,
      Zenon DEF PollStep, PollNext, PollLoopNext
  <2> QED
    BY <2>1, <2>2, <2>4
<1> QED
  BY <1>1, <1>2, PTL DEF Spec

-----------------------------------------------------------------------------
\* The loop runs one callback at a time.

Callbacks == {0, InIo, InCheck, InSigchld} \cup { InExit(p) : p \in Process }

\* A coroutine whose timer has fired runs; one that waits is on the run chain only
\* when it runs; a dispatcher is always on it.
RunInv ==
  /\ pc \in [Coroutine -> Places] /\ RunChain(chain)
  /\ timer \in [Coroutine -> {"none", "armed", "fired"}]
  /\ \A c \in Coroutine : pc[c] \notin Waits => timer[c] = "none"
  /\ \A c \in Coroutine : timer[c] = "fired" => Running(chain) = c
  /\ \A c \in Coroutine : pc[c] \in Waits /\ c \in OnChain(chain) => Running(chain) = c
  /\ \A c \in Coroutine : pc[c] \in {"os_check", "os_dispatch"} => c \in OnChain(chain)
  /\ loop \in Callbacks

\* The steps, as the chain, the places and the timers see them: nothing happens;
\* somebody is resumed, by the loop, by user code or by a dispatcher; a timer fires;
\* a coroutine waits, goes to sleep, or returns; it goes on inside wait().
Still == chain' = chain /\ pc' = pc /\ timer' = timer

Resumes(t) ==
  /\ Running(chain) = Scheduler \/ \E c \in Coroutine : At(c, "user") \/ At(c, "os_dispatch")
  /\ chain' = ResumeOn(chain, t) /\ pc' = pc /\ timer' = timer

Expires(c) ==
  /\ Running(chain) = Scheduler /\ timer[c] = "armed" /\ loop = 0
  /\ chain' = ResumeOn(chain, c) /\ pc' = pc /\ timer' = [timer EXCEPT ![c] = "fired"]

Parks(c, where) ==
  /\ At(c, "user") \/ At(c, "os_dispatch")
  /\ chain' = YieldOn(chain) /\ pc' = [pc EXCEPT ![c] = where]
  /\ \E t \in {"none", "armed"} : timer' = [timer EXCEPT ![c] = t]

Sleeps(c) == At(c, "user") /\ chain' = YieldOn(chain) /\ pc' = pc /\ timer' = timer

Returns(c) ==
  /\ Running(chain) = c
  /\ chain' = chain /\ pc' = [pc EXCEPT ![c] = "user"] /\ timer' = [timer EXCEPT ![c] = "none"]

Checks(c, to) ==
  /\ Running(chain) = c /\ pc[c] \notin Waits
  /\ chain' = chain /\ pc' = [pc EXCEPT ![c] = to] /\ timer' = timer

Moves ==
  \/ Still
  \/ \E c \in Coroutine : Resumes(c) \/ Expires(c) \/ Sleeps(c) \/ Returns(c)
  \/ \E c \in Coroutine : \E where \in Waits : Parks(c, where)
  \/ \E c \in Coroutine : \E to \in {"os_check", "os_dispatch"} : Checks(c, to)

\* Every step of the program and of the loop is one of these.
LEMMA ElsewhereMoves ==
  ASSUME NEW c \in Coroutine, Elsewhere(c)
  PROVE  Moves /\ loop' = loop
<1>1. Sleep(c) => Sleeps(c) /\ loop' = loop
  BY DEF Sleep, Sleeps
<1>2. Wakeup(c) => Resumes(c) /\ loop' = loop
  BY DEF Wakeup, LoopIdle, Schedule, Resumes
<1>3. cat_timer_callback(c) => Expires(c) /\ loop' = loop
  BY DEF cat_timer_callback, LoopIdle, Expires
<1>4. ASSUME NEW target \in Coroutine, Resume(c, target)
      PROVE  Resumes(target) /\ loop' = loop
  BY <1>4 DEF Resume, Schedule, Resumes
<1> QED
  BY <1>1, <1>2, <1>3, <1>4 DEF Elsewhere, Moves

\* Whatever the waits rely on.
WaitsInv == WaitGroupInv /\ SignalInv /\ ProcessInv /\ PollInv /\ OsInv

\* Every step moves the coroutines in one of these ways.
LEMMA StepMoves ==
  ASSUME WaitsInv, [Next]_vars
  PROVE  Moves /\ (loop' = loop \/ loop' \in Callbacks)
\* A wait begins.
<1>WaitMoves.
     ASSUME NEW c \in Coroutine, NEW where \in Waits, NEW timed, At(c, "user"),
            cat_time_wait(c, where, timed)
     PROVE  Parks(c, where) /\ Moves
  BY <1>WaitMoves, Zenon DEF cat_time_wait, Parks, Moves

\* A wait ends.
<1>ReturnMoves.
     ASSUME NEW c \in Coroutine, Running(chain) = c, Return(c)
     PROVE  Returns(c) /\ Moves
  BY <1>ReturnMoves, Zenon DEF Return, Returns, Moves

\* poll() and the loop: a task resumes a coroutine.
<1>PollMoves.
     ASSUME PollInv, PollStep
     PROVE  Moves /\ loop' \in {loop, 0, InIo, InCheck}
  <2> USE <1>PollMoves
  <2>0. "poll" \in Waits
    BY DEF Waits
  <2>1. ASSUME NEW c \in Coroutine, NEW fds \in SUBSET Fd, NEW one \in BOOLEAN, cat_poll(c, fds, one)
        PROVE  Moves /\ loop' = loop
    <3>1. At(c, "user") /\ loop' = loop /\ (Still \/ cat_time_wait(c, "poll", TRUE))
      BY <2>1, ZenonT(30) DEF cat_poll, Still
    <3> QED
      BY <2>0, <3>1, <1>WaitMoves, Zenon DEF Moves
  <2>2. ASSUME NEW c \in Coroutine, PollWaited(c)
        PROVE  Moves /\ loop' = loop
    BY <2>2, <1>ReturnMoves DEF PollWaited, At
  <2>3. ASSUME NEW c \in Coroutine, IoWakeup(c)
        PROVE  Moves /\ loop' = loop
    BY <2>3 DEF IoWakeup, LoopAt, Schedule, Resumes, Moves
  <2>4. ASSUME NEW k \in PollCtx, NEW f \in Fd, NEW status \in {"ok", "error"},
               cat_poll_callback(k, f, status)
        PROVE  Moves /\ loop' = InIo
    BY <2>4 DEF cat_poll_callback, Still, Moves
  <2>5. ASSUME NEW k \in PollCtx, NEW f \in Fd, cat_poll_close_callback(k, f)
        PROVE  Moves /\ loop' = loop
    BY <2>5 DEF cat_poll_close_callback, waiting, Still, Moves
  <2>6. ASSUME cat_event_do_io_defer_tasks
        PROVE  Moves /\ loop' \in {0, InCheck}
    <3>1. CASE tasks = << >>
      BY <2>6, <3>1, Zenon DEF cat_event_do_io_defer_tasks, Still, Moves
    <3>2. CASE tasks # << >>
      <4>1. poll[Head(tasks)].coroutine \in Coroutine
        <5>1. 1 \in DOMAIN tasks /\ Head(tasks) = tasks[1]
          BY <3>2 DEF PollInv, PollTypes
        <5> QED
          BY <5>1 DEF PollInv, TasksOwned, Owned, OnChain
      <4> QED
        BY <2>6, <3>2, <4>1, Zenon DEF cat_event_do_io_defer_tasks, LoopAt, Schedule, Resumes, Moves
    <3> QED
      BY <3>1, <3>2
  <2> QED
    BY <2>1, <2>2, <2>3, <2>4, <2>5, <2>6, Zenon DEF PollStep, PollNext, PollLoopNext

\* wait() and its dispatchers, which resume the first of a queue.
<1>OsWaitMoves.
     ASSUME OsInv, OsWaitStep
     PROVE  Moves /\ loop' \in {loop, 0, InSigchld}
  <2> USE <1>OsWaitMoves
  <2>0. "os_wait" \in Waits /\ "os_check" \notin Waits /\ "user" \notin Waits
        /\ "os_dispatch" \notin Waits
    BY DEF Waits
  <2>1. ASSUME NEW c \in Coroutine, NEW want \in Pid \cup {NULL}, cat_os__wait_wrapper(c, want)
        PROVE  Moves /\ loop' = loop
    BY <2>0, <2>1, Zenon DEF cat_os__wait_wrapper, At, Checks, Moves
  <2>2. ASSUME NEW c \in Coroutine, cat_os__wait(c)
        PROVE  Moves /\ loop' = loop
    <3>1. /\ At(c, "os_check") /\ loop' = loop
          /\ \/ Return(c)
             \/ chain' = chain /\ timer' = timer /\ pc' = [pc EXCEPT ![c] = "os_dispatch"]
      BY <2>2 DEF cat_os__wait, WaitReturns
    <3> QED
      BY <2>0, <3>1, <1>ReturnMoves DEF At, Checks, Moves
  <2>3. ASSUME NEW c \in Coroutine, OsWaited(c)
        PROVE  Moves /\ loop' = loop
    BY <2>3, <1>ReturnMoves, Zenon DEF OsWaited, WaitReturns, At
  <2>4. ASSUME NEW x \in Routine, Dispatching(x), NEW t \in Coroutine, Schedule(t)
        PROVE  Moves
    BY <2>4 DEF Dispatching, LoopAt, Schedule, Resumes, Moves
  <2>5. ASSUME NEW p \in Pid, task[p].waiters # << >>
        PROVE  Head(task[p].waiters) \in Coroutine
    BY <2>5 DEF OsInv, Task
  <2>6. ASSUME NEW x \in Routine, cat_os_wait_dispatch(x)
        PROVE  Moves /\ loop' = loop
    <3>1. PICK p \in Pid :
            \/ task[p].mem /\ Schedule(Head(task[p].waiters))
            \/ list # << >> /\ Schedule(Head(list))
            \/ Still
      BY <2>6 DEF cat_os_wait_dispatch, NotifyOne, Still
    <3>2. Dispatching(x) /\ loop' = loop
      BY <2>6 DEF cat_os_wait_dispatch
    <3>3. task[p].mem => task[p].waiters # << >>
      BY DEF OsInv, TaskExact, Task
    <3>4. list # << >> => Head(list) \in Coroutine
      BY DEF OsInv, ListExact
    <3> QED
      BY <2>4, <2>5, <3>1, <3>2, <3>3, <3>4, Zenon DEF Moves
  <2>7. ASSUME NEW x \in Routine, DispatchGoesOn(x)
        PROVE  Moves /\ loop' = loop
    <3>1. /\ Dispatching(x) /\ loop' = loop /\ osw[x].left > 0
          /\ \/ Still
             \/ task[osw[x].pid].waiters # << >> /\ Schedule(Head(task[osw[x].pid].waiters))
      BY <2>7, Zenon DEF DispatchGoesOn, NotifyOne, Still
    <3>2. osw[x].pid \in Pid
      BY <3>1 DEF OsInv
    <3> QED
      BY <2>4, <2>5, <3>1, <3>2, Zenon DEF Moves
  <2>8. ASSUME NEW x \in Routine, DispatchDone(x)
        PROVE  Moves /\ loop' \in {loop, 0}
    <3>1. CASE x = Scheduler
      BY <2>8, <3>1, SchedulerAssumption, Zenon DEF DispatchDone, Still, Moves
    <3>2. CASE x \in Coroutine
      <4>1. /\ At(x, "os_dispatch") /\ loop' = loop
            /\ \/ chain' = chain /\ timer' = timer /\ pc' = [pc EXCEPT ![x] = "os_check"]
               \/ cat_time_wait(x, "os_wait", TRUE)
        BY <2>8, <3>2, SchedulerAssumption, Zenon DEF DispatchDone, Dispatching, JoinWaiters
      <4> QED
        BY <2>0, <3>2, <4>1 DEF At, cat_time_wait, Checks, Parks, Moves
    <3> QED
      BY <3>1, <3>2, Zenon DEF Routine
  <2>9. cat_os_wait_sigchld_handler => Moves /\ loop' \in {0, InSigchld}
    BY Zenon DEF cat_os_wait_sigchld_handler, Still, Moves
  <2>10. ASSUME NEW p \in Pid, KidExits(p) \/ KidStops(p)
         PROVE  Moves /\ loop' = loop
    BY <2>10, Zenon DEF KidExits, KidStops, KidChanges, waiting, Still, Moves
  <2> QED
    BY <2>1, <2>2, <2>3, <2>6, <2>7, <2>8, <2>9, <2>10,
      Zenon DEF OsWaitStep, OsWaitNext, DispatchNext

\* The processes and their exit callbacks.
<1>ProcessMoves.
     ASSUME ProcessInv, ProcessStep
     PROVE  Moves /\ (loop' \in {loop, 0} \/ \E p \in Process : loop' = InExit(p))
  <2> USE <1>ProcessMoves
  <2>0. "process" \in Waits
    BY DEF Waits
  <2>1. ASSUME NEW c \in Coroutine, ProcessNext(c)
        PROVE  Moves /\ loop' = loop
    <3>1. /\ loop' = loop
          /\ \/ Still
             \/ At(c, "user") /\ cat_time_wait(c, "process", TRUE)
             \/ Running(chain) = c /\ Return(c)
      BY <2>1, ZenonT(30)
         DEF ProcessNext, cat_process_run, cat_process_wait, ProcessWaited, cat_process_close,
                  waiting, Still, At
    <3> QED
      BY <2>0, <3>1, <1>WaitMoves, <1>ReturnMoves, Zenon DEF Moves
  <2>2. ASSUME NEW p \in Process, Running(chain) = Scheduler, NotifyWaiters(p)
        PROVE  Moves /\ loop' \in {0, InExit(p)}
    <3>1. process[p].waiters # << >> => Head(process[p].waiters) \in Coroutine
      BY DEF ProcessInv, Proc
    <3> QED
      BY <2>2, <3>1, Zenon DEF NotifyWaiters, Schedule, Resumes, Still, Moves
  <2>3. ASSUME NEW p \in Process,
               cat_process_exit_callback(p) \/ ExitGoesOn(p) \/ cat_process_close_callback(p)
        PROVE  Moves /\ loop' \in {loop, 0, InExit(p)}
    <3>1. \/ Still /\ loop' = loop
          \/ Running(chain) = Scheduler /\ NotifyWaiters(p)
      BY <2>3 DEF cat_process_exit_callback, ExitGoesOn, cat_process_close_callback,
                  LoopIdle, LoopAt, waiting, Still
    <3> QED
      BY <2>2, <3>1 DEF Moves
  <2> QED
    BY <2>1, <2>3 DEF ProcessStep, ExitNext

\* The signals.
<1>SignalMoves.
     ASSUME SignalInv, SignalStep
     PROVE  Moves /\ loop' = loop
  <2> USE <1>SignalMoves
  <2>0. "signal" \in Waits
    BY DEF Waits
  <2>1. ASSUME NEW c \in Coroutine, SignalNext(c)
        PROVE  Moves /\ loop' = loop
    <3>1. /\ loop' = loop
          /\ \/ Still
             \/ At(c, "user") /\ cat_time_wait(c, "signal", TRUE)
             \/ Running(chain) = c /\ Return(c)
      BY <2>1, Zenon DEF SignalNext, cat_signal_wait, SignalWaited, Still, At
    <3> QED
      BY <2>0, <3>1, <1>WaitMoves, <1>ReturnMoves, Zenon DEF Moves
  <2>2. ASSUME NEW h \in SignalHandle, cat_signal_callback(h) \/ cat_signal_close_callback(h)
        PROVE  Moves /\ loop' = loop
    <3>1. /\ loop' = loop
          /\ \/ Still
             \/ Running(chain) = Scheduler /\ signal[h].active /\ Schedule(signal[h].coroutine)
      BY <2>2, Zenon DEF cat_signal_callback, cat_signal_close_callback, LoopIdle, waiting, Still
    <3>2. signal[h].active => signal[h].coroutine \in Coroutine
      BY DEF SignalInv, SignalSafe
    <3> QED
      BY <3>1, <3>2 DEF Schedule, Resumes, Moves
  <2> QED
    BY <2>1, <2>2 DEF SignalStep, HandleNext

\* The wait group resumes only a coroutine that waits for it.
<1>WaitGroupMoves.
     ASSUME WaitGroupInv, WaitGroupStep
     PROVE  Moves /\ loop' = loop
  <2> USE <1>WaitGroupMoves
  <2>0. "wait_group" \in Waits /\ (wg.coroutine # NULL => wg.coroutine \in Coroutine)
    BY DEF Waits, WaitGroupInv
  <2>1. PICK c \in Coroutine :
          /\ loop' = loop
          /\ \/ Still
             \/ At(c, "user") /\ cat_time_wait(c, "wait_group", TRUE)
             \/ Running(chain) = c /\ Return(c)
             \/ At(c, "user") /\ wg.coroutine # NULL /\ Schedule(wg.coroutine)
    BY Zenon DEF WaitGroupStep, WaitGroupNext, cat_sync_wait_group_add, cat_sync_wait_group_wait,
           WaitGroupWaited, cat_sync_wait_group_done, waiting, Still, At
  <2>2. At(c, "user") /\ wg.coroutine # NULL /\ Schedule(wg.coroutine) => Moves
    BY <2>0, Zenon DEF Schedule, Resumes, Moves
  <2> QED
    BY <2>0, <2>1, <2>2, <1>WaitMoves, <1>ReturnMoves, Zenon DEF Moves

<1>1. CASE UNCHANGED vars
  BY <1>1 DEF vars, waiting, Still, Moves
<1>2. \A p \in Process : InExit(p) \in Callbacks
  BY DEF Callbacks
<1>3. 0 \in Callbacks /\ InIo \in Callbacks /\ InCheck \in Callbacks /\ InSigchld \in Callbacks
  BY DEF Callbacks
<1>4. CASE Next
  <2>1. \/ \E c \in Coroutine : Elsewhere(c)
        \/ PollStep \/ OsWaitStep \/ ProcessStep \/ SignalStep \/ WaitGroupStep
    BY <1>4 DEF Next
  <2>2. ASSUME NEW c \in Coroutine, Elsewhere(c)
        PROVE  Moves /\ loop' = loop
    BY <2>2, ElsewhereMoves
  <2>3. PollStep => Moves /\ loop' \in {loop, 0, InIo, InCheck}
    BY <1>PollMoves DEF WaitsInv
  <2>4. OsWaitStep => Moves /\ loop' \in {loop, 0, InSigchld}
    BY <1>OsWaitMoves DEF WaitsInv
  <2>5. ProcessStep => Moves /\ (loop' \in {loop, 0} \/ \E p \in Process : loop' = InExit(p))
    BY <1>ProcessMoves DEF WaitsInv
  <2>6. SignalStep => Moves /\ loop' = loop
    BY <1>SignalMoves DEF WaitsInv
  <2>7. WaitGroupStep => Moves /\ loop' = loop
    BY <1>WaitGroupMoves, Zenon DEF WaitsInv
  <2> QED
    BY <1>2, <1>3, <2>1, <2>2, <2>3, <2>4, <2>5, <2>6, <2>7, Zenon
<1> QED
  BY <1>1, <1>4

\* Who resumes another one does not wait, and no timer has fired.
LEMMA SwitcherFree ==
  ASSUME RunInv,
         Running(chain) = Scheduler \/ \E c \in Coroutine : At(c, "user") \/ At(c, "os_dispatch")
  PROVE  /\ \A c \in Coroutine : timer[c] # "fired"
         /\ \A c \in Coroutine : pc[c] \in Waits => c \notin OnChain(chain)
<1>1. \A c \in Coroutine : Running(chain) = c => pc[c] \notin Waits /\ timer[c] = "none"
  BY SchedulerAssumption DEF RunInv, At, Waits
<1> QED
  BY <1>1, Zenon DEF RunInv

\* All of it holds in every state.
LEMMA RunInvariant ==
  ASSUME Counting
  PROVE  Spec => [](WaitsInv /\ RunInv)
\* The steps keep the order of the run chain.
<1>RunKept.
     ASSUME RunInv, Moves, loop' \in Callbacks
     PROVE  RunInv'
  <2> USE <1>RunKept
  <2> USE DEF RunInv
  <2>0. Running(chain) \in OnChain(chain)
    BY RunningOnChain, Zenon
  <2>1. CASE Still
    BY <2>1, Zenon DEF Still
  <2>2. ASSUME NEW t \in Coroutine, Resumes(t)
        PROVE  RunInv'
    <3>1. /\ pc' = pc /\ timer' = timer /\ chain' = ResumeOn(chain, t)
          /\ \A c \in Coroutine : timer[c] # "fired"
          /\ \A c \in Coroutine : pc[c] \in Waits => c \notin OnChain(chain)
      BY <2>2, SwitcherFree, Zenon DEF Resumes
    <3>2. RunChain(chain') /\ Running(chain') = t /\ OnChain(chain') = OnChain(chain) \cup {t}
      BY <3>1, ResumeChain, Zenon
    <3> QED
      BY <3>1, <3>2, Zenon
  <2>3. ASSUME NEW t \in Coroutine, Expires(t)
        PROVE  RunInv'
    <3>1. /\ pc' = pc /\ timer' = [timer EXCEPT ![t] = "fired"] /\ chain' = ResumeOn(chain, t)
          /\ timer[t] = "armed"
          /\ \A c \in Coroutine : timer[c] # "fired"
          /\ \A c \in Coroutine : pc[c] \in Waits => c \notin OnChain(chain)
      BY <2>3, SwitcherFree, Zenon DEF Expires
    <3>2. RunChain(chain') /\ Running(chain') = t /\ OnChain(chain') = OnChain(chain) \cup {t}
      BY <3>1, ResumeChain
    <3> QED
      BY <3>1, <3>2, Zenon
  <2>4. ASSUME NEW c \in Coroutine, Running(chain) = c, chain' = YieldOn(chain),
               pc[c] \notin Waits, NEW where \in Waits, NEW t \in {"none", "armed"},
               \/ pc' = pc /\ timer' = timer /\ pc[c] = "user"
               \/ pc' = [pc EXCEPT ![c] = where] /\ timer' = [timer EXCEPT ![c] = t]
        PROVE  RunInv'
    <3>1. RunChain(chain') /\ OnChain(chain') = OnChain(chain) \ {c}
      BY <2>4, YieldChain, ZenonT(30)
    <3>2. \A d \in Coroutine : timer[d] # "fired"
      BY <2>4, Zenon
    <3>3. where \in Places /\ where \notin {"os_check", "os_dispatch"}
      BY DEF Waits, Places
    <3>4. CASE pc' = pc /\ timer' = timer /\ pc[c] = "user"
      BY <2>4, <3>1, <3>2, <3>4, ZenonT(30)
    <3>5. CASE pc' = [pc EXCEPT ![c] = where] /\ timer' = [timer EXCEPT ![c] = t]
      <4>1. /\ pc' \in [Coroutine -> Places] /\ timer' \in [Coroutine -> {"none", "armed", "fired"}]
            /\ pc'[c] = where /\ timer'[c] = t
            /\ \A d \in Coroutine : d # c => pc'[d] = pc[d] /\ timer'[d] = timer[d]
        BY <3>3, <3>5, Zenon
      <4>2. t # "fired"
        OBVIOUS
      <4> QED
        BY <2>4, <3>1, <3>2, <3>3, <4>1, <4>2, Zenon
    <3> QED
      BY <2>4, <3>4, <3>5, ZenonT(30)
  <2>5. ASSUME NEW c \in Coroutine, Sleeps(c)
        PROVE  RunInv'
    <3>1. "poll" \in Waits /\ "user" \notin Waits
      BY DEF Waits
    <3> QED
      BY <2>4, <2>5, <3>1, Zenon DEF Sleeps, At
  <2>6. ASSUME NEW c \in Coroutine, NEW where \in Waits, Parks(c, where)
        PROVE  RunInv'
    <3>1. PICK t \in {"none", "armed"} : timer' = [timer EXCEPT ![c] = t]
      BY <2>6, ZenonT(30) DEF Parks
    <3>2. /\ Running(chain) = c /\ chain' = YieldOn(chain) /\ pc[c] \notin Waits
          /\ pc' = [pc EXCEPT ![c] = where]
      BY <2>6, Zenon DEF Parks, At, Waits
    <3> QED
      BY <2>4, <3>1, <3>2, Zenon
  <2>7. ASSUME NEW c \in Coroutine, Returns(c)
        PROVE  RunInv'
    <3>1. "user" \in Places /\ "user" \notin Waits
      BY Zenon DEF Places, Waits
    <3> QED
      BY <2>7, <3>1, Zenon DEF Returns
  <2>8. ASSUME NEW c \in Coroutine, NEW to \in {"os_check", "os_dispatch"}, Checks(c, to)
        PROVE  RunInv'
    <3>1. to \in Places /\ to \notin Waits
      BY Zenon DEF Places, Waits
    <3> QED
      BY <2>0, <2>8, <3>1, Zenon DEF Checks
  <2> QED
    BY <2>1, <2>2, <2>3, <2>5, <2>6, <2>7, <2>8, ZenonT(30) DEF Moves

\* At the start only the scheduler runs.
<1>RunInit.
     Init => RunInv
  <2> SUFFICES ASSUME Init PROVE RunInv
    OBVIOUS
  <2>1. /\ chain = << Scheduler >> /\ pc = [c \in Coroutine |-> "user"]
        /\ timer = [c \in Coroutine |-> "none"] /\ loop = 0
    BY DEF Init, TimeInit
  <2>2. RunChain(<< Scheduler >>) /\ OnChain(<< Scheduler >>) = {Scheduler}
    <3>1. << Scheduler >> \in Seq(Routine) /\ Len(<< Scheduler >>) = 1
      BY DEF Routine
    <3> QED
      BY <3>1 DEF RunChain, Injective, OnChain
  <2>3. "user" \in Places /\ "user" \notin Waits
    BY DEF Places, Waits
  <2> QED
    BY <2>1, <2>2, <2>3, SchedulerAssumption, Zenon DEF RunInv, Callbacks

<1>1. Spec => []WaitsInv
  BY WaitGroupInvariant, SignalInvariant, ProcessInvariant, PollInvariant, OsInvariant, PTL
  DEF WaitsInv
<1>2. WaitsInv /\ RunInv /\ [Next]_vars => RunInv'
  <2> SUFFICES ASSUME WaitsInv, RunInv, [Next]_vars PROVE RunInv'
    BY Zenon
  <2>1. Moves /\ loop' \in Callbacks
    BY StepMoves DEF RunInv
  <2> QED
    BY <2>1, <1>RunKept
<1> QED
  BY <1>1, <1>2, <1>RunInit, PTL DEF Spec

-----------------------------------------------------------------------------
\* A poll that times out has been told nothing.

\* The call has seen events, or has at least a task for them.
Seen(k) == poll[k].task = "created" \/ \E f \in Fd : poll[k].fd[f].events

\* The tasks of the loop are run before it does anything else, and a call that has
\* seen events is in the queue of the tasks or is just being woken.
EventInv ==
  /\ tasks # << >> => loop \in {InIo, InCheck}
  /\ \A k \in PollCtx : Owned(k) /\ Seen(k) =>
       /\ timer[poll[k].coroutine] # "fired"
       /\ k \in OnChain(tasks) \/ Running(chain) = poll[k].coroutine

\* The invariant of the events holds in every state.
LEMMA EventInvariant ==
  ASSUME Counting
  PROVE  Spec => [](RunInv /\ WaitsInv /\ EventInv)
\* What is not poll() leaves a round of the loop alone.
<1>OthersKeepRound.
     ASSUME Next, ~ PollStep
     PROVE  loop \in {InIo, InCheck} => loop' = loop
  <2> USE <1>OthersKeepRound
  <2>1. InIo = -1 /\ InCheck = -2 /\ InSigchld = -10
    BY DEF InIo, InCheck, InSigchld
  <2>2. \A p \in Process : InExit(p) < -20
    BY ProcessAssumption DEF InExit
  <2>3. ASSUME NEW c \in Coroutine, Elsewhere(c)
        PROVE  loop' = loop
    BY <2>3, ElsewhereMoves
  <2>4. OsWaitStep => loop' = loop \/ loop \in {0, InSigchld}
    BY SchedulerAssumption, Zenon
       DEF OsWaitStep, OsWaitNext, DispatchNext, cat_os__wait_wrapper, cat_os__wait, OsWaited,
           WaitReturns, cat_os_wait_dispatch, DispatchGoesOn, DispatchDone, JoinWaiters,
           Dispatching, cat_os_wait_sigchld_handler, LoopIdle, LoopAt, KidExits, KidStops,
           KidChanges, waiting, Routine
  <2>5. ProcessStep => loop' = loop \/ loop = 0 \/ \E p \in Process : loop = InExit(p)
    BY Zenon
       DEF ProcessStep, ProcessNext, ExitNext, cat_process_run, cat_process_wait, ProcessWaited,
           cat_process_close, cat_process_exit_callback, ExitGoesOn, cat_process_close_callback,
           LoopIdle, LoopAt, waiting
  <2>6. SignalStep => loop' = loop
    BY SignalLocal
  <2>7. WaitGroupStep => loop' = loop
    BY WaitGroupLocal
  <2> QED
    BY <2>1, <2>2, <2>3, <2>4, <2>5, <2>6, <2>7 DEF Next

\* A timer fires only when there are no tasks, and never in a call that is queued.
<1>TimerKept.
     ASSUME RunInv, EventInv, Moves, NEW k \in PollCtx, Owned(k), Seen(k)
     PROVE  timer'[poll[k].coroutine] # "fired"
  <2> USE <1>TimerKept
  <2> DEFINE d == poll[k].coroutine
  <2>1. d \in Coroutine /\ timer[d] # "fired"
    BY DEF EventInv, Owned
  <2>2. \A c \in Coroutine : ~ (Expires(c) /\ c = d)
    <3>1. ~ (loop = 0 /\ Running(chain) = Scheduler)
      <4>1. loop = 0 => tasks = << >>
        BY DEF EventInv, InIo, InCheck
      <4>2. tasks = << >> => OnChain(tasks) = {}
        BY DEF OnChain
      <4> QED
        BY <2>1, <4>1, <4>2, SchedulerAssumption, Zenon DEF EventInv
    <3> QED
      BY <3>1, ZenonT(30) DEF Expires
  <2> HIDE DEF d
  <2>3. timer'[d] # "fired"
    BY <2>1, <2>2, ZenonT(30)
       DEF Moves, Still, Resumes, Expires, Parks, Sleeps, Returns, Checks, RunInv
  <2> QED
    BY <2>3, Zenon DEF d

\* A step that is not one of poll().
<1>OthersKeepEvents.
     ASSUME RunInv, EventInv, Moves, Keeps("poll"), UNCHANGED polling,
            loop \in {InIo, InCheck} => loop' = loop
     PROVE  EventInv'
  <2> USE <1>OthersKeepEvents
  <2>1. \A k : (Owned(k)' <=> Owned(k)) /\ (Seen(k)' <=> Seen(k)) /\ poll' = poll /\ tasks' = tasks
    BY Zenon DEF Owned, Seen, Keeps, polling
  <2>2. tasks' # << >> => loop' \in {InIo, InCheck}
    BY <2>1, ZenonT(30) DEF EventInv
  <2>3. ASSUME NEW k \in PollCtx, Owned(k), Seen(k)
        PROVE  /\ timer'[poll[k].coroutine] # "fired"
               /\ k \in OnChain(tasks) \/ Running(chain') = poll[k].coroutine
    <3>1. timer'[poll[k].coroutine] # "fired"
      BY <2>3, <1>TimerKept, ZenonT(30)
    <3>2. Running(chain) = poll[k].coroutine => chain' = chain
      BY <2>3 DEF Keeps, Owned
    <3> QED
      BY <2>3, <3>1, <3>2, ZenonT(30) DEF EventInv
  <2> QED
    BY <2>1, <2>2, <2>3, Zenon DEF EventInv

\* When the loop or another coroutine runs, what has been seen is queued.
<1>SeenQueued.
     ASSUME EventInv, NEW k \in PollCtx, Owned(k), Seen(k),
            Running(chain) = poll[k].coroutine => pc[poll[k].coroutine] # "poll"
     PROVE  k \in OnChain(tasks)
  BY <1>SeenQueued, Zenon DEF EventInv, Owned

\* poll() begins: what it replaces nobody waits in, and nothing has been seen yet.
<1>PollEvents.
     ASSUME PollInv, PollInv', RunInv, EventInv, Moves,
            NEW c \in Coroutine, NEW fds \in SUBSET Fd, NEW one \in BOOLEAN, cat_poll(c, fds, one)
     PROVE  EventInv'
  <2> USE <1>PollEvents
  <2>1. PICK k \in PollCtx, bad \in SUBSET fds, odd \in SUBSET fds, garbage \in AnyStatus :
          /\ ~ poll[k].mem
          /\ LET call == NewCall(c, fds, bad, odd, one, garbage) IN
             IF bad \cup odd = {}
             THEN /\ poll' = [poll EXCEPT ![k] = call]
                  /\ pollof' = [pollof EXCEPT ![c] = k]
                  /\ cat_time_wait(c, "poll", TRUE)
             ELSE /\ poll' = [poll EXCEPT ![k] = IF call.ref = 0 THEN NoCall ELSE CloseAll(call)]
                  /\ UNCHANGED << pollof, chain, pc, timer >>
    BY ZenonT(30) DEF cat_poll
  <2>2. Running(chain) = c /\ pc[c] = "user" /\ tasks' = tasks /\ loop' = loop
    BY DEF cat_poll, At
  <2>3. bad \in SUBSET fds /\ odd \in SUBSET fds /\ garbage \in AnyStatus
    BY <2>1, Zenon
  <2> DEFINE call == NewCall(c, fds, bad, odd, one, garbage)
  <2>4. Begun(call, c)
    BY <2>3, NewCallType, Zenon
  <2> HIDE DEF call
  <2>5. /\ \A j \in PollCtx : j # k => poll'[j] = poll[j]
        /\ \A d \in Coroutine : d # c => pc'[d] = pc[d] /\ pollof'[d] = pollof[d]
        /\ \A j \in PollCtx : j # k => ~ (pc'[c] = "poll" /\ pollof'[c] = j)
    BY <2>1, <2>2, Zenon DEF PollInv, PollTypes, Base, cat_time_wait
  <2>6. ~ (Owned(k)' /\ Seen(k)')
    <3>1. CASE bad \cup odd = {}
      <4>1. poll'[k] = call
        BY <2>1, <3>1 DEF PollInv, PollTypes, call
      <4> QED
        BY <2>4, <4>1, Zenon DEF Seen, Begun
    <3>2. CASE bad \cup odd # {}
      <4>1. poll'[k] = IF call.ref = 0 THEN NoCall ELSE CloseAll(call)
        BY <2>1, <3>2, Zenon DEF PollInv, PollTypes, call
      <4>2. Ended(IF call.ref = 0 THEN NoCall ELSE CloseAll(call))
        BY <2>4, NoCallEnded, CloseAllEnded, Zenon DEF Begun
      <4> QED
        BY <4>1, <4>2, NullAssumption, Zenon DEF Owned, Ended, Routine
    <3> QED
      BY <3>1, <3>2, Zenon
  <2>7. ASSUME NEW j \in PollCtx, Owned(j)', Seen(j)'
        PROVE  timer'[poll'[j].coroutine] # "fired" /\ j \in OnChain(tasks')
    <3>1. j # k /\ poll'[j] = poll[j]
      BY <2>5, <2>6, <2>7, Zenon
    <3>2. poll[j].coroutine \in Coroutine /\ poll[j].coroutine # c
      BY <2>5, <2>7, <3>1, Zenon DEF Owned
    <3>3. Owned(j) /\ Seen(j)
      BY <2>5, <2>7, <3>1, <3>2, ZenonT(30) DEF Owned, Seen
    <3> QED
      BY <2>2, <3>1, <3>2, <3>3, <1>TimerKept, <1>SeenQueued, Zenon
  <2> QED
    BY <2>2, <2>7, Zenon DEF EventInv

\* The first task is the one that is removed; the others stay.
<1>TailKeeps.
     ASSUME NEW S, NEW s \in Seq(S), s # << >>
     PROVE  \A x \in OnChain(s) : x # Head(s) => x \in OnChain(Tail(s))
  <2> USE <1>TailKeeps
  <2>1. /\ Len(s) \in Nat /\ Len(s) > 0 /\ DOMAIN s = 1..Len(s) /\ Head(s) = s[1]
        /\ DOMAIN Tail(s) = 1..(Len(s) - 1)
        /\ \A i \in 1..(Len(s) - 1) : Tail(s)[i] = s[i + 1]
    OBVIOUS
  <2>2. ASSUME NEW i \in 1..Len(s), s[i] # Head(s)
        PROVE  s[i] \in OnChain(Tail(s))
    <3>1. i - 1 \in 1..(Len(s) - 1) /\ (i - 1) + 1 = i
      BY <2>1, <2>2
    <3>2. Tail(s)[i - 1] = s[i]
      BY <2>1, <3>1
    <3> QED
      BY <2>1, <3>1, <3>2, Zenon DEF OnChain
  <2> QED
    BY <2>1, <2>2, Zenon DEF OnChain

\* The wait of poll() is over, and with it its task.
<1>PollWaitedEvents.
     ASSUME PollInv, PollInv', RunInv, EventInv, Moves, NEW c \in Coroutine, PollWaited(c)
     PROVE  EventInv'
  <2> USE <1>PollWaitedEvents
  <2>1. /\ Running(chain) = c /\ pc[c] = "poll" /\ loop' = loop
        /\ tasks' = Without(tasks, pollof[c])
        /\ poll' = [poll EXCEPT ![pollof[c]] = CloseAll(poll[pollof[c]])]
        /\ pollof' = [pollof EXCEPT ![c] = 0]
        /\ pc' = [pc EXCEPT ![c] = "user"]
    BY DEF PollWaited, At, Return
  <2>2. PICK k \in PollCtx : k = pollof[c]
    BY <2>1, ZenonT(30) DEF PollInv, WaiterNamed
  <2>3. ~ Owned(k)'
    <3>1. poll'[k] = CloseAll(poll[k]) /\ poll[k] \in Call
      BY <2>1, <2>2, Zenon DEF PollInv, PollTypes
    <3> QED
      BY <3>1, CloseAllEnded, NullAssumption, Zenon DEF Ended, Owned, Routine
  <2>4. \A j \in PollCtx : j # k => poll'[j] = poll[j]
    BY <2>1, <2>2 DEF PollInv, PollTypes
  <2>5. ASSUME NEW j \in PollCtx, Owned(j)', Seen(j)'
        PROVE  timer'[poll'[j].coroutine] # "fired" /\ j \in OnChain(tasks')
    <3>1. j # k /\ poll'[j] = poll[j]
      BY <2>3, <2>4, <2>5
    <3>2. poll[j].coroutine \in Coroutine /\ poll[j].coroutine # c
      BY <2>1, <2>5, <3>1, Zenon DEF Owned, PollInv, Base
    <3>3. Owned(j) /\ Seen(j)
      BY <2>1, <2>5, <3>1, <3>2, ZenonT(30) DEF Owned, Seen, PollInv, PollTypes, Base
    <3>4. j \in OnChain(tasks)
      BY <2>1, <3>2, <3>3, <1>SeenQueued, Zenon
    <3>5. j \in OnChain(Without(tasks, k))
      BY <3>1, <3>4, WithoutKeeps, Zenon DEF PollInv, PollTypes
    <3> QED
      BY <2>1, <2>2, <3>1, <3>3, <3>5, <1>TimerKept, ZenonT(30)
  <2>6. tasks = << >> => tasks' = << >>
    BY <2>1 DEF Without
  <2> QED
    BY <2>1, <2>5, <2>6, ZenonT(30) DEF EventInv

\* Events are reported: the call waits, and its task is in the queue.
<1>ReportEvents.
     ASSUME PollInv, PollInv', RunInv, EventInv, Moves,
            NEW k \in PollCtx, NEW f \in Fd, NEW status \in {"ok", "error"},
            cat_poll_callback(k, f, status)
     PROVE  EventInv'
  <2> USE <1>ReportEvents
  <2>1. /\ Running(chain) = Scheduler /\ loop' = InIo
        /\ poll[k].fd[f].st = "watched"
        /\ \E call : poll' = [poll EXCEPT ![k] = call]
        /\ tasks' = IF poll[k].task = "none" THEN Append(tasks, k) ELSE tasks
        /\ chain' = chain /\ pc' = pc /\ timer' = timer /\ pollof' = pollof
    BY Zenon DEF cat_poll_callback, Report, LoopIdle, LoopAt
  <2>2. Owned(k) /\ poll[k] \in Call
    BY <2>1, Zenon DEF PollInv, WatchedOwned, PollTypes
  <2>3. \A j \in PollCtx : j # k => poll'[j] = poll[j]
    BY <2>1, ZenonT(30) DEF PollInv, PollTypes
  <2>4. \A j \in OnChain(tasks) \cup {k} : j \in OnChain(tasks')
    <3>1. CASE poll[k].task = "none"
      <4>1. k \notin OnChain(tasks)
        BY <3>1, Zenon DEF PollInv, TasksOwned
      <4>2. tasks \in Seq(PollCtx) /\ Injective(tasks)
        BY Zenon DEF PollInv, PollTypes
      <4>3. OnChain(Append(tasks, k)) = OnChain(tasks) \cup {k}
        BY <4>1, <4>2, AppendProperties, ZenonT(30)
      <4> QED
        BY <2>1, <3>1, <4>3, ZenonT(30)
    <3>2. CASE poll[k].task # "none"
      <4>1. Seen(k)
        BY <2>2, <3>2, Zenon DEF Seen, Call
      <4>2. k \in OnChain(tasks)
        BY <2>1, <2>2, <4>1, <1>SeenQueued, SchedulerAssumption, ZenonT(30) DEF Owned
      <4> QED
        BY <2>1, <3>2, <4>2, Zenon
    <3> QED
      BY <3>1, <3>2
  <2>5. ASSUME NEW j \in PollCtx, Owned(j)', Seen(j)'
        PROVE  timer'[poll'[j].coroutine] # "fired" /\ j \in OnChain(tasks')
    <3>1. timer'[poll'[j].coroutine] # "fired"
      BY <2>1, <2>5, SchedulerAssumption, Zenon DEF RunInv, Owned
    <3>2. CASE j = k
      BY <2>4, <3>1, <3>2, ZenonT(30)
    <3>3. CASE j # k
      <4>1. poll'[j] = poll[j]
        BY <2>3, <3>3
      <4>2. Owned(j) /\ Seen(j)
        BY <2>1, <2>5, <4>1, Zenon DEF Owned, Seen
      <4>3. j \in OnChain(tasks)
        BY <2>1, <4>2, <1>SeenQueued, SchedulerAssumption, Zenon DEF Owned
      <4> QED
        BY <2>4, <3>1, <4>3, ZenonT(30)
    <3> QED
      BY <3>2, <3>3, Zenon
  <2> QED
    BY <2>1, <2>5, Zenon DEF EventInv

\* The loop runs the first task, as long as there is one.
<1>TaskEvents.
     ASSUME PollInv, RunInv, EventInv, Moves, cat_event_do_io_defer_tasks
     PROVE  EventInv'
  <2> USE <1>TaskEvents
  <2>1. /\ Running(chain) = Scheduler /\ poll' = poll /\ pollof' = pollof /\ pc' = pc
        /\ timer' = timer
        /\ IF tasks = << >> THEN tasks' = tasks
           ELSE /\ tasks' = Tail(tasks) /\ loop' = InCheck
                /\ chain' = ResumeOn(chain, poll[Head(tasks)].coroutine)
    BY DEF cat_event_do_io_defer_tasks, LoopAt, Schedule
  <2>2. \A j : (Owned(j)' <=> Owned(j)) /\ (Seen(j)' <=> Seen(j))
    BY <2>1, ZenonT(30) DEF Owned, Seen
  <2>3. \A j \in PollCtx : Owned(j) /\ Seen(j) => j \in OnChain(tasks)
    BY <2>1, <1>SeenQueued, SchedulerAssumption, Zenon DEF Owned
  <2>4. \A j \in PollCtx : Owned(j) => timer[poll[j].coroutine] # "fired"
    BY <2>1, SchedulerAssumption, Zenon DEF RunInv, Owned
  <2>5. CASE tasks = << >>
    <3>1. OnChain(tasks) = {}
      BY <2>5 DEF OnChain
    <3> QED
      BY <2>1, <2>2, <2>3, <2>5, <3>1, Zenon DEF EventInv
  <2>6. CASE tasks # << >>
    <3> DEFINE t == poll[Head(tasks)].coroutine
    <3>1. t \in Coroutine
      <4>1. 1 \in DOMAIN tasks /\ Head(tasks) = tasks[1]
        BY <2>6 DEF PollInv, PollTypes
      <4>2. Head(tasks) \in OnChain(tasks)
        BY <4>1, Zenon DEF OnChain
      <4>3. Owned(Head(tasks))
        BY <4>2 DEF PollInv, TasksOwned
      <4> QED
        BY <4>3 DEF Owned
    <3>2. Running(chain') = t
      <4>1. RunChain(chain) /\ chain' = ResumeOn(chain, t)
        BY <2>1, <2>6, Zenon DEF RunInv
      <4> HIDE DEF t
      <4> QED
        BY <3>1, <4>1, ResumeChain
    <3>3. ASSUME NEW j \in PollCtx, Owned(j), Seen(j)
          PROVE  j \in OnChain(tasks') \/ poll[j].coroutine = t
      BY <2>1, <2>3, <2>6, <3>3, <1>TailKeeps, Zenon DEF PollInv, PollTypes
    <3> HIDE DEF t
    <3> QED
      BY <2>1, <2>2, <2>4, <2>6, <3>2, <3>3, ZenonT(30) DEF EventInv
  <2> QED
    BY <2>5, <2>6, Zenon

\* A handle of a call that is over has been closed.
<1>PollCloseEvents.
     ASSUME PollInv, PollInv', RunInv, EventInv, Moves, NEW k \in PollCtx, NEW f \in Fd,
            cat_poll_close_callback(k, f)
     PROVE  EventInv'
  <2> USE <1>PollCloseEvents
  <2> DEFINE call == [poll[k] EXCEPT !.fd[f] = NoHandle]
  <2>1. /\ poll[k].fd[f].st = "closing" /\ UNCHANGED << waiting, pollof, tasks >>
        /\ poll' = [poll EXCEPT ![k] = Deref(call)]
    BY DEF cat_poll_close_callback, PollInv, PollTypes
  <2>2. poll'[k].coroutine = NULL
    <3>1. poll[k].coroutine = NULL /\ poll[k] \in Call
      BY <2>1 DEF PollInv, ClosingFree, PollTypes
    <3>2. call.coroutine = NULL
      BY <3>1 DEF Call
    <3> HIDE DEF call
    <3>3. Deref(call).coroutine = NULL
      BY <3>2 DEF Deref, NoCall
    <3> QED
      BY <2>1, <3>3, Zenon DEF PollInv, PollTypes
  <2> HIDE DEF call
  <2>3. \A j \in PollCtx : j # k => poll'[j] = poll[j]
    BY <2>1, ZenonT(30) DEF PollInv, PollTypes
  <2>4. \A j \in PollCtx : Owned(j)' => j # k
    BY <2>2, NullAssumption DEF Owned, Routine
  <2> QED
    BY <2>1, <2>3, <2>4, ZenonT(30) DEF EventInv, Owned, Seen, waiting

\* Each step keeps the events.
<1>EventKept.
     ASSUME WaitsInv, WaitsInv', RunInv, EventInv, [Next]_vars
     PROVE  EventInv'
  <2> USE <1>EventKept
  <2>0. Moves /\ PollInv /\ PollInv' /\ Base
    BY StepMoves DEF WaitsInv, PollInv
  <2>1. CASE UNCHANGED vars
    BY <2>1, Zenon DEF vars, waiting, polling, EventInv, Owned, Seen
  <2>2. CASE Next /\ ~ PollStep
    <3>1. Keeps("poll") /\ UNCHANGED polling
      BY <2>0, <2>2, StepKeeps, Zenon DEF polling
    <3> QED
      BY <2>0, <2>2, <3>1, <1>OthersKeepRound, <1>OthersKeepEvents, Zenon
  <2>3. CASE PollStep
    <3>1. ASSUME NEW c \in Coroutine, IoWakeup(c)
          PROVE  EventInv'
      <4>1. /\ Running(chain) = Scheduler /\ loop' = loop /\ poll' = poll /\ pollof' = pollof
            /\ tasks' = tasks /\ pc' = pc /\ timer' = timer
        BY <3>1 DEF IoWakeup, LoopAt, Schedule, polling
      <4>2. \A j \in PollCtx : Owned(j) /\ Seen(j) => j \in OnChain(tasks)
        BY <4>1, <1>SeenQueued, SchedulerAssumption, ZenonT(30) DEF Owned
      <4> QED
        BY <4>1, <4>2, Zenon DEF EventInv, Owned, Seen
    <3> QED
      BY <2>0, <2>3, <3>1, <1>PollEvents, <1>PollWaitedEvents, <1>ReportEvents, <1>TaskEvents,
        <1>PollCloseEvents,
        Zenon DEF PollStep, PollNext, PollLoopNext
  <2> QED
    BY <2>1, <2>2, <2>3

<1>1. Init => EventInv
  <2> SUFFICES ASSUME Init PROVE EventInv
    OBVIOUS
  <2>1. tasks = << >> /\ pc = [c \in Coroutine |-> "user"]
    BY DEF Init, PollInit, TimeInit
  <2> QED
    BY <2>1 DEF EventInv, Owned
<1>2. WaitsInv /\ WaitsInv' /\ RunInv /\ EventInv /\ [Next]_vars => EventInv'
  BY <1>EventKept
<1> QED
  BY <1>1, <1>2, RunInvariant, PTL DEF Spec

-----------------------------------------------------------------------------
\* Exits are not lost on the way to who waits for them.

\* c has just been woken for the exit of p, and will return it.
InHand(c, p) ==
  /\ At(c, "os_wait") /\ timer[c] # "fired"
  /\ \/ osw[c].want = p /\ task[p].status = "exited"
     \/ osw[c].want = NULL /\ osw[c].told = p /\ osw[c].status = "exited"

ExitInv ==
  "stop" \notin use =>
    /\ kid \in [Pid -> {"running", "zombie", "gone"}]
    /\ saved \in [Pid -> {"none", "exited"}]
    /\ \A p \in Pid : kid[p] = "gone" =>
         p \in heard \/ saved[p] = "exited" \/ \E c \in Coroutine : InHand(c, p)

\* No step loses an exit, as long as no child stops.
LEMMA ExitInvKept ==
  ASSUME WaitsInv, RunInv, ExitInv, [Next]_vars
  PROVE  ExitInv'
\* Nobody is being woken while somebody runs who does not wait.
<1>NoneInHand.
     ASSUME Running(chain) = Scheduler \/ \E c \in Coroutine : Running(chain) = c /\ pc[c] # "os_wait"
     PROVE  \A c \in Coroutine, p \in Pid : ~ InHand(c, p)
  BY <1>NoneInHand, SchedulerAssumption, ZenonT(30) DEF InHand, At

\* The steps of others leave the one that is being woken alone.
<1>OthersKeepExits.
     ASSUME RunInv, ExitInv, Moves, Keeps("os_wait"), UNCHANGED oswait, use' = use
     PROVE  ExitInv'
  <2> USE <1>OthersKeepExits
  <2>1. ASSUME NEW c \in Coroutine, NEW p \in Pid, InHand(c, p)
        PROVE  InHand(c, p)'
    <3>1. Running(chain) = c /\ pc[c] = "os_wait" /\ timer[c] # "fired"
      BY <2>1, Zenon DEF InHand, At
    <3>2. chain' = chain /\ pc'[c] = "os_wait"
      BY <3>1 DEF Keeps
    <3>3. timer'[c] # "fired"
      <4>1. \A d \in Coroutine : ~ Expires(d)
        BY <3>1, SchedulerAssumption, Zenon DEF Expires
      <4> QED
        BY <3>1, <4>1, ZenonT(30) DEF Moves, Still, Resumes, Parks, Sleeps, Returns, Checks, RunInv
    <3>4. osw' = osw /\ task' = task
      BY DEF oswait
    <3> QED
      BY <2>1, <3>1, <3>2, <3>3, <3>4, ZenonT(30) DEF InHand, At
  <2>2. kid' = kid /\ saved' = saved /\ heard' = heard
    BY DEF oswait
  <2> QED
    BY <2>1, <2>2 DEF ExitInv

\* A dispatcher hears of the exit of a child, and hands it to whom it wakes.
<1>DispatchExits.
     ASSUME OsInv, RunInv, ExitInv, "stop" \notin use, use' = use,
            NEW x \in Routine, cat_os_wait_dispatch(x)
     PROVE  ExitInv'
  <2> USE <1>DispatchExits
  <2>1. PICK p \in Pid :
          /\ Ready(p) /\ wait4(p)
          /\ \/ task[p].mem /\ NotifyOne(x, p, Status(p), task[p].count) /\ saved' = saved
             \/ /\ list # << >> /\ Schedule(Head(list)) /\ saved' = saved
                /\ osw' = [osw EXCEPT ![Head(list)].told = p, ![Head(list)].status = Status(p)]
             \/ Save(x, p, Status(p))
    BY DEF cat_os_wait_dispatch
  <2>2. /\ kid \in [Pid -> {"running", "zombie", "gone"}] /\ saved \in [Pid -> {"none", "exited"}]
        /\ heard' = heard /\ Dispatching(x)
    BY DEF ExitInv, cat_os_wait_dispatch
  <2>3. kid[p] = "zombie" /\ Status(p) = "exited" /\ kid' = [kid EXCEPT ![p] = "gone"]
    BY <2>1, <2>2, ZenonT(30) DEF Ready, Status, wait4
  <2>4. \/ Running(chain) = Scheduler
        \/ \E c \in Coroutine : Running(chain) = c /\ pc[c] = "os_dispatch"
    BY <2>2, Zenon DEF Dispatching, At, LoopAt
  <2>5. \A q \in Pid : kid[q] = "gone" => q \in heard \/ saved[q] = "exited"
    BY <2>4, <1>NoneInHand, Zenon DEF ExitInv
  <2>6. \A c \in Coroutine : timer[c] # "fired"
    BY <2>4, SwitcherFree DEF At
  <2>7. ASSUME NEW h \in Coroutine, chain' = ResumeOn(chain, h), pc' = pc, timer' = timer, saved' = saved,
               pc[h] = "os_wait",
               \/ osw'[h].want = p /\ task'[p].status = "exited"
               \/ osw'[h].want = NULL /\ osw'[h].told = p /\ osw'[h].status = "exited"
        PROVE  ExitInv'
    <3>1. Running(chain') = h
      BY <2>7, ResumeChain, Zenon DEF RunInv
    <3>2. InHand(h, p)'
      BY <2>6, <2>7, <3>1, Zenon DEF InHand, At
    <3> QED
      BY <2>2, <2>3, <2>5, <2>7, <3>2, Zenon DEF ExitInv
  <2>8. CASE task[p].mem /\ NotifyOne(x, p, Status(p), task[p].count) /\ saved' = saved
    <3>1. PICK h : h = Head(task[p].waiters)
      OBVIOUS
    <3>2. h \in Coroutine /\ pc[h] = "os_wait" /\ osw[h].want = p
      <4>1. task[p].waiters # << >> /\ task[p].waiters \in Seq(Coroutine)
        BY <2>8 DEF OsInv, TaskExact, Task
      <4>2. h \in OnChain(task[p].waiters)
        BY <3>1, <4>1 DEF OnChain
      <4> QED
        BY <4>2, Zenon DEF OsInv, TaskExact, WaitingFor
    <3>3. /\ chain' = ResumeOn(chain, h) /\ pc' = pc /\ timer' = timer
          /\ task' = [task EXCEPT ![p].status = "exited"]
          /\ osw' = [osw EXCEPT ![x].pid = p, ![x].status = "exited", ![x].left = task[p].count]
      BY <2>3, <2>8, <3>1 DEF NotifyOne, Schedule
    <3>4. task'[p].status = "exited"
      BY <3>3, Zenon DEF OsInv, Task
    <3>5. osw'[h].want = osw[h].want
      <4>1. osw[x] \in Frame /\ h \in Routine
        BY <3>2, Zenon DEF OsInv, Routine
      <4>2. CASE h = x
        BY <3>3, <4>1, <4>2 DEF OsInv, Frame
      <4>3. CASE h # x
        BY <3>3, <4>1, <4>3 DEF OsInv
      <4> QED
        BY <4>2, <4>3
    <3> QED
      BY <2>7, <2>8, <3>2, <3>3, <3>4, <3>5, Zenon
  <2>9. CASE /\ list # << >> /\ Schedule(Head(list)) /\ saved' = saved
             /\ osw' = [osw EXCEPT ![Head(list)].told = p, ![Head(list)].status = Status(p)]
    <3>1. PICK h : h = Head(list)
      BY Zenon
    <3>2. h \in Coroutine /\ pc[h] = "os_wait" /\ osw[h].want = NULL
      <4>1. h \in OnChain(list)
        BY <2>9, <3>1 DEF OsInv, ListExact, OnChain
      <4> QED
        BY <4>1 DEF OsInv, ListExact, WaitingFor
    <3>3. /\ chain' = ResumeOn(chain, h) /\ pc' = pc /\ timer' = timer
          /\ osw' = [osw EXCEPT ![h].told = p, ![h].status = "exited"]
      BY <2>3, <2>9, <3>1 DEF Schedule
    <3>4. osw'[h].want = NULL /\ osw'[h].told = p /\ osw'[h].status = "exited"
      <4>1. osw[h] \in Frame /\ h \in Routine
        BY <3>2 DEF OsInv, Routine
      <4> QED
        BY <3>2, <3>3, <4>1, Zenon DEF OsInv, Frame
    <3> QED
      BY <2>7, <2>9, <3>2, <3>3, <3>4
  <2>10. CASE Save(x, p, Status(p))
    <3>1. saved' = [saved EXCEPT ![p] = IF saved[p] = "none" THEN "exited" ELSE saved[p]]
      BY <2>3, <2>10, Zenon DEF Save
    <3>2. /\ saved' \in [Pid -> {"none", "exited"}] /\ saved'[p] = "exited"
          /\ \A q \in Pid : saved[q] = "exited" => saved'[q] = "exited"
      BY <2>2, <3>1, Zenon
    <3> QED
      BY <2>2, <2>3, <2>5, <3>2, Zenon DEF ExitInv
  <2> QED
    BY <2>1, <2>8, <2>9, <2>10, Zenon

\* A waiter returns what it has been woken for.
<1>OsWaitedExits.
     ASSUME OsInv, RunInv, ExitInv, "stop" \notin use, use' = use, NEW c \in Coroutine, OsWaited(c)
     PROVE  ExitInv'
  <2> USE <1>OsWaitedExits
  <2>1. Running(chain) = c /\ saved' = saved /\ kid' = kid
    BY DEF OsWaited, At, WaitReturns
  <2>2. heard \subseteq heard'
    BY DEF OsWaited
  <2>3. ASSUME NEW p \in Pid, InHand(c, p)
        PROVE  p \in heard'
    <3>1. timer[c] # "fired" /\ NULL # p
      BY <2>3, PidAssumption, Zenon DEF InHand
    <3>2. CASE osw[c].want = p /\ task[p].status = "exited"
      <4>1. PICK t : t = [task[p] EXCEPT !.count = task[p].count - 1,
                                         !.waiters = Without(task[p].waiters, c)]
        OBVIOUS
      <4>2. t.status = "exited"
        BY <3>2, <4>1 DEF OsInv, Task
      <4>3. heard' = IF t.status = "exited" THEN heard \cup {p} ELSE heard
        BY <3>1, <3>2, <4>1 DEF OsWaited, TimedOut
      <4> QED
        BY <4>2, <4>3
    <3>3. CASE osw[c].want = NULL /\ osw[c].told = p /\ osw[c].status = "exited"
      BY <3>1, <3>3, Zenon DEF OsWaited, TimedOut
    <3> QED
      BY <2>3, <3>2, <3>3, ZenonT(30) DEF InHand
  <2>4. \A d \in Coroutine, p \in Pid : InHand(d, p) => d = c
    BY <2>1, Zenon DEF InHand, At
  <2> QED
    BY <2>1, <2>2, <2>3, <2>4, Zenon DEF ExitInv

<1>0. OsInv /\ Moves /\ use' = use /\ Base
  BY StepMoves DEF WaitsInv, OsInv, Next, vars
<1>1. CASE ~ OsWaitStep
  <2>1. Keeps("os_wait") /\ UNCHANGED oswait
    BY <1>0, <1>1, OsStepKeeps, Zenon
  <2> QED
    BY <1>0, <2>1, <1>OthersKeepExits
<1>2. CASE OsWaitStep /\ "stop" \in use
  BY <1>0, <1>2, Zenon DEF ExitInv
<1>3. CASE OsWaitStep /\ "stop" \notin use
  <2>1. ASSUME Running(chain) = Scheduler \/ \E c \in Coroutine : Running(chain) = c /\ pc[c] # "os_wait",
               kid' = kid, saved' = saved, heard' = heard
        PROVE  ExitInv'
    BY <1>0, <2>1, <1>NoneInHand DEF ExitInv
  <2>2. ASSUME NEW c \in Coroutine, NEW want \in Pid \cup {NULL}, cat_os__wait_wrapper(c, want)
        PROVE  ExitInv'
    BY <2>1, <2>2 DEF cat_os__wait_wrapper, At
  <2>3. ASSUME NEW c \in Coroutine, cat_os__wait(c)
        PROVE  ExitInv'
    <3>1. Running(chain) = c /\ pc[c] = "os_check" /\ kid' = kid
      BY <2>3 DEF cat_os__wait, At, WaitReturns
    <3>2. \/ saved' = saved /\ heard' = heard
          \/ \E p \in Pid : /\ saved' = [saved EXCEPT ![p] = "none"]
                            /\ heard' = IF saved[p] = "exited" THEN heard \cup {p} ELSE heard
      BY <2>3, Zenon DEF cat_os__wait
    <3>3. ASSUME NEW p \in Pid, saved' = [saved EXCEPT ![p] = "none"],
                 heard' = IF saved[p] = "exited" THEN heard \cup {p} ELSE heard
          PROVE  ExitInv'
      <4>1. \A q \in Pid : kid[q] = "gone" => q \in heard \/ saved[q] = "exited"
        BY <1>3, <3>1, <1>NoneInHand, Zenon DEF ExitInv
      <4>2. saved \in [Pid -> {"none", "exited"}]
        BY <1>3 DEF ExitInv
      <4>3. saved' \in [Pid -> {"none", "exited"}] /\ \A q \in Pid : q # p => saved'[q] = saved[q]
        BY <3>3, <4>2
      <4>4. heard \subseteq heard' /\ (saved[p] = "exited" => p \in heard')
        BY <3>3, Zenon
      <4> QED
        BY <1>0, <1>3, <3>1, <4>1, <4>3, <4>4, Zenon DEF ExitInv
    <3> QED
      BY <2>1, <3>1, <3>2, <3>3
  <2>4. ASSUME NEW x \in Routine, DispatchGoesOn(x) \/ DispatchDone(x)
        PROVE  ExitInv'
    <3>1. Dispatching(x) /\ kid' = kid /\ saved' = saved /\ heard' = heard
      BY <2>4, Zenon DEF DispatchGoesOn, DispatchDone, JoinWaiters, oswait
    <3> QED
      BY <2>1, <3>1, Zenon DEF Dispatching, At, LoopAt
  <2>5. cat_os_wait_sigchld_handler => ExitInv'
    BY <2>1, Zenon DEF cat_os_wait_sigchld_handler, LoopIdle
  <2>6. ASSUME NEW p \in Pid, KidExits(p)
        PROVE  ExitInv'
    <3>1. /\ kid[p] # "gone" /\ kid' = [kid EXCEPT ![p] = "zombie"]
          /\ UNCHANGED << waiting, saved, heard, osw, task >>
      BY <2>6, Zenon DEF KidExits, KidChanges
    <3>2. \A c \in Coroutine, q \in Pid : InHand(c, q)' <=> InHand(c, q)
      BY <3>1, Zenon DEF InHand, At, waiting
    <3> QED
      BY <1>0, <1>3, <3>1, <3>2, Zenon DEF ExitInv
  <2> QED
    BY <1>0, <1>3, <2>2, <2>3, <2>4, <2>5, <2>6, <1>DispatchExits, <1>OsWaitedExits,
      Zenon DEF OsWaitStep, OsWaitNext, DispatchNext
<1> QED
  BY <1>1, <1>2, <1>3

=============================================================================
