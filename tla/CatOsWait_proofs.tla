-------------------------- MODULE CatOsWait_proofs --------------------------
(****************************************************************************)
(* What the waits promise, continued: the memory of poll() (src/cat_poll.c) *)
(* is freed by the last of its handles, and wait() and its dispatchers      *)
(* (src/cat_os_wait.c), which nest along the run chain, lose no exit of a   *)
(* child.                                                                   *)
(****************************************************************************)
EXTENDS FiniteSetTheorems, CatWaits_proofs

-----------------------------------------------------------------------------
\* Polls.

\* A set of descriptors can be counted.
LEMMA CountingHolds == Counting
<1>1. \A S \in SUBSET Fd : IsFiniteSet(S)
  BY FdAssumption, FS_Subset
<1> QED
  BY <1>1, FS_CardinalityType DEF Counting

\* A task of the loop always finds the call that it is to wake, even when others
\* resume the coroutine between the event and the task.
THEOREM PollCorrect == Spec => []DoneSafe
<1>1. PollInv => DoneSafe
  BY DEF PollInv, TasksOwned, DoneSafe, Owned, OnChain
<1> QED
  BY <1>1, CountingHolds, PollInvariant, PTL

\* The timeout of poll() never comes between events and the report of them: when it
\* has fired, no descriptor has seen any.  (The loop runs the tasks of a round before
\* its timers, and a task that is queued is not overtaken by either.)
THEOREM PollTimeoutCorrect == Spec => []TimeoutMeansNone
<1>1. WaitsInv /\ EventInv => TimeoutMeansNone
  <2> SUFFICES ASSUME WaitsInv, EventInv, NEW c \in Coroutine, pc[c] = "poll", timer[c] = "fired",
                      NEW f \in Fd, poll[pollof[c]].fd[f].events
               PROVE  FALSE
    BY DEF TimeoutMeansNone, TimedOut
  <2>1. PICK k \in PollCtx : k = pollof[c] /\ poll[k].coroutine = c
    BY DEF WaitsInv, PollInv, WaiterNamed
  <2>2. Owned(k) /\ Seen(k)
    BY <2>1 DEF Owned, Seen
  <2> QED
    BY <2>1, <2>2, Zenon DEF EventInv
<1> QED
  BY <1>1, CountingHolds, EventInvariant, PTL

Held(call) == IF call.coroutine # NULL /\ ~ call.one THEN 1 ELSE 0

\* Memory that is free holds nothing; memory in use has a reference for each handle
\* and one for the call that waits.
Counted(call) ==
  /\ ~ call.mem => call = NoCall
  /\ call.mem => call.ref > 0 /\ call.ref = Cardinality(Open(call)) + Held(call)

RefInv == \A k \in PollCtx : Counted(poll[k])

\* The memory of a call is in use exactly as long as something refers to it, and
\* the references are those of its handles and of the coroutine that waits.
THEOREM PollRefCorrect == Spec => []PollRefExact
\* The handles of a call can be counted.
<1>OpenFinite.
     ASSUME NEW call
     PROVE  IsFiniteSet(Open(call)) /\ Cardinality(Open(call)) \in Nat
  <2> USE <1>OpenFinite
  <2>1. IsFiniteSet(Open(call))
    BY FdAssumption, FS_Subset DEF Open
  <2> QED
    BY <2>1, FS_CardinalityType

\* No call, no references.
<1>NoCallCounted.
     Counted(NoCall)
  BY DEF Counted, NoCall

\* A reference is dropped for a handle that has been closed, or for the call.
<1>DerefCounted.
     ASSUME NEW call \in Call, call.mem, call.ref > 0,
            call.ref = Cardinality(Open(call)) + Held(call) + 1
     PROVE  Counted(Deref(call))
  <2> USE <1>DerefCounted
  <2>1. CASE call.ref = 1
    BY <2>1, <1>NoCallCounted DEF Deref
  <2>2. CASE call.ref # 1
    <3>1. Deref(call) = [call EXCEPT !.ref = call.ref - 1]
      BY <2>2 DEF Deref
    <3>2. /\ Deref(call).mem /\ Deref(call).ref = call.ref - 1 /\ Deref(call).fd = call.fd
          /\ Deref(call).coroutine = call.coroutine /\ Deref(call).one = call.one
      BY <3>1 DEF Call
    <3>3. Open(Deref(call)) = Open(call) /\ Held(Deref(call)) = Held(call)
      BY <3>2 DEF Open, Held
    <3>4. call.ref \in Int /\ Cardinality(Open(call)) \in Nat /\ Held(call) \in {0, 1}
      BY <1>OpenFinite DEF Call, Held
    <3> QED
      BY <2>2, <3>2, <3>3, <3>4 DEF Counted
  <2> QED
    BY <2>1, <2>2

\* The call drops its reference when it closes its handles.
<1>CloseAllCounted.
     ASSUME NEW call \in Call, Counted(call), call.mem, call.coroutine \in Coroutine
     PROVE  Counted(CloseAll(call))
  <2> USE <1>CloseAllCounted
  <2> DEFINE hs == [f \in Fd |-> IF call.fd[f].st = "none" THEN NoHandle
                                 ELSE [call.fd[f] EXCEPT !.st = "closing"]]
             closed == [call EXCEPT !.coroutine = NULL, !.task = "none", !.fd = hs]
  <2>1. \A f \in Fd : hs[f] \in FdHandle /\ (hs[f].st = "none" <=> call.fd[f].st = "none")
    BY DEF Call, FdHandle, NoHandle, AnyStatus
  <2>2. hs \in [Fd -> FdHandle]
    BY <2>1
  <2> HIDE DEF hs
  <2>3. /\ closed \in Call /\ closed.coroutine = NULL /\ closed.fd = hs
        /\ closed.mem /\ closed.ref = call.ref /\ closed.one = call.one
    BY <2>2, Zenon DEF Call
  <2>4. CloseAll(call) = IF call.one THEN closed ELSE Deref(closed)
    BY DEF CloseAll, hs
  <2> HIDE DEF closed
  <2>5. Open(closed) = Open(call)
    BY <2>1, <2>3 DEF Open
  <2>6. Held(closed) = 0 /\ Held(call) = IF call.one THEN 0 ELSE 1
    BY <2>3, NullAssumption DEF Held, Routine
  <2>7. Cardinality(Open(call)) \in Nat /\ call.ref \in Int
    BY <1>OpenFinite DEF Call
  <2>8. CASE call.one
    BY <2>3, <2>4, <2>5, <2>6, <2>7, <2>8, Zenon DEF Counted
  <2>9. CASE ~ call.one
    <3>1. closed.ref > 0 /\ closed.ref = Cardinality(Open(closed)) + Held(closed) + 1
      BY <2>3, <2>5, <2>6, <2>7, <2>9 DEF Counted
    <3>2. Counted(Deref(closed))
      BY <2>3, <3>1, <1>DerefCounted
    <3> QED
      BY <2>4, <2>9, <3>2
  <2> QED
    BY <2>8, <2>9

\* A new call has a reference for each handle, and one of its own.
<1>NewCallCounted.
     ASSUME NEW c \in Coroutine, NEW fds \in SUBSET Fd, NEW bad \in SUBSET fds, NEW odd \in SUBSET fds,
            NEW one \in BOOLEAN, NEW garbage \in AnyStatus,
            NewCall(c, fds, bad, odd, one, garbage).ref # 0
     PROVE  Counted(NewCall(c, fds, bad, odd, one, garbage))
  <2> USE <1>NewCallCounted
  <2> DEFINE call == NewCall(c, fds, bad, odd, one, garbage)
             hs == Handles(fds, bad, odd, garbage)
  <2>1. /\ call.mem /\ call.fd = hs /\ call.coroutine = c /\ call.one = one
        /\ call.ref = Cardinality({ f \in Fd : hs[f].st # "none" }) + (IF one THEN 0 ELSE 1)
    BY Zenon DEF NewCall
  <2> HIDE DEF call, hs
  <2>2. Open(call) = { f \in Fd : hs[f].st # "none" }
    BY <2>1 DEF Open
  <2>3. Held(call) = IF one THEN 0 ELSE 1
    BY <2>1, NullAssumption DEF Held, Routine
  <2>4. Cardinality(Open(call)) \in Nat
    BY <1>OpenFinite
  <2>5. call.ref # 0
    BY DEF call
  <2>6. Counted(call)
    BY <2>1, <2>2, <2>3, <2>4, <2>5 DEF Counted
  <2> QED
    BY <2>6 DEF call

\* poll() begins with its references counted, or leaves none.
<1>PollCounted.
     ASSUME NEW c \in Coroutine, NEW fds \in SUBSET Fd, NEW one \in BOOLEAN, cat_poll(c, fds, one)
     PROVE  \E k \in PollCtx : \E call : Counted(call) /\ poll' = [poll EXCEPT ![k] = call]
  <2> USE <1>PollCounted
  <2>1. PICK k \in PollCtx, bad \in SUBSET fds, odd \in SUBSET fds, garbage \in AnyStatus :
          /\ ~ poll[k].mem
          /\ LET call == NewCall(c, fds, bad, odd, one, garbage) IN
             IF bad \cup odd = {}
             THEN /\ poll' = [poll EXCEPT ![k] = call]
                  /\ pollof' = [pollof EXCEPT ![c] = k]
                  /\ cat_time_wait(c, "poll", TRUE)
             ELSE /\ poll' = [poll EXCEPT ![k] = IF call.ref = 0 THEN NoCall ELSE CloseAll(call)]
                  /\ UNCHANGED << pollof, chain, pc, timer >>
    BY ZenonT(30) DEF cat_poll
  <2>2. bad \in SUBSET fds /\ odd \in SUBSET fds /\ garbage \in AnyStatus
    BY <2>1
  <2> DEFINE call == NewCall(c, fds, bad, odd, one, garbage)
  <2>3. Begun(call, c)
    BY <2>2, CountingHolds, NewCallType
  <2>4. call.ref # 0 => Counted(call)
    BY <2>2, <1>NewCallCounted
  <2>5. bad \cup odd = {} => call.ref # 0
    <3>1. SUFFICES ASSUME bad = {}, odd = {} PROVE call.ref # 0
      OBVIOUS
    <3> DEFINE hs == Handles(fds, bad, odd, garbage)
               opened == { f \in Fd : hs[f].st # "none" }
    <3>2. call.ref = Cardinality(opened) + (IF one THEN 0 ELSE 1)
      BY Zenon DEF NewCall
    <3>3. opened = fds
      BY <3>1 DEF Handles, NoHandle
    <3>4. one => Cardinality(fds) = 1
      BY DEF cat_poll
    <3>5. Cardinality(fds) \in Nat
      BY FdAssumption, FS_Subset, FS_CardinalityType
    <3> HIDE DEF call, opened
    <3> QED
      BY <3>2, <3>3, <3>4, <3>5
  <2> HIDE DEF call
  <2>6. CASE bad \cup odd = {}
    BY <2>1, <2>4, <2>5, <2>6, Zenon DEF call
  <2>7. CASE bad \cup odd # {}
    <3>1. Counted(IF call.ref = 0 THEN NoCall ELSE CloseAll(call))
      BY <2>3, <2>4, <1>NoCallCounted, <1>CloseAllCounted, Zenon DEF Begun
    <3> QED
      BY <2>1, <2>7, <3>1, Zenon DEF call
  <2> QED
    BY <2>6, <2>7

\* Each step of the polls keeps the references counted.
<1>RefKept.
     ASSUME PollInv, RefInv, PollStep
     PROVE  RefInv'
  <2> USE <1>RefKept
  <2>1. poll \in [PollCtx -> Call] /\ WaiterNamed /\ OwnedInUse /\ ClosingFree
    BY DEF PollInv, PollTypes
  <2>2. ASSUME NEW k \in PollCtx, NEW call, Counted(call), poll' = [poll EXCEPT ![k] = call]
        PROVE  RefInv'
    <3>1. \A j \in PollCtx : poll'[j] = IF j = k THEN call ELSE poll[j]
      BY <2>1, <2>2
    <3> QED
      BY <2>2, <3>1 DEF RefInv
  <2>3. ASSUME NEW c \in Coroutine, NEW fds \in SUBSET Fd, NEW one \in BOOLEAN, cat_poll(c, fds, one)
        PROVE  RefInv'
    BY <2>2, <2>3, <1>PollCounted
  <2>4. ASSUME NEW c \in Coroutine, PollWaited(c)
        PROVE  RefInv'
    <3>1. PICK k \in PollCtx : pc[c] = "poll" /\ pollof[c] = k /\ poll[k].coroutine = c
      BY <2>1, <2>4, Zenon DEF PollWaited, At, WaiterNamed
    <3>2. poll' = [poll EXCEPT ![k] = CloseAll(poll[k])]
      BY <2>4, <3>1, Zenon DEF PollWaited
    <3>3. poll[k] \in Call /\ poll[k].mem /\ Counted(poll[k])
      BY <2>1, <3>1, Zenon DEF OwnedInUse, Owned, RefInv
    <3>4. Counted(CloseAll(poll[k]))
      BY <3>1, <3>3, <1>CloseAllCounted
    <3> QED
      BY <2>2, <3>2, <3>4, Zenon
  <2>5. ASSUME NEW k \in PollCtx, NEW f \in Fd, NEW status \in {"ok", "error"},
               cat_poll_callback(k, f, status)
        PROVE  RefInv'
    <3> DEFINE h == Reported(poll[k].fd[f], status)
               hs == [poll[k].fd EXCEPT ![f] = h]
               call == [poll[k] EXCEPT !.task = "created", !.fd = hs]
    <3>1. poll' = [poll EXCEPT ![k] = call] /\ poll[k].fd[f].st = "watched"
      BY <2>5 DEF cat_poll_callback, Report
    <3>2. poll[k] \in Call /\ Counted(poll[k]) /\ poll[k].fd \in [Fd -> FdHandle]
      BY <2>1 DEF RefInv, Call
    <3>3. h.st = poll[k].fd[f].st
      BY <3>2 DEF Reported, FdHandle
    <3>4. \A g \in Fd : hs[g].st = poll[k].fd[g].st
      BY <3>2, <3>3, Zenon
    <3>5. poll[k].mem
      BY <3>1, <3>2 DEF Counted, NoCall, NoHandle
    <3> HIDE DEF h, hs
    <3>6. /\ call.mem /\ call.ref = poll[k].ref /\ call.fd = hs
          /\ call.coroutine = poll[k].coroutine /\ call.one = poll[k].one
      BY <3>2, <3>5 DEF Call
    <3> HIDE DEF call
    <3>7. Open(call) = Open(poll[k]) /\ Held(call) = Held(poll[k])
      BY <3>4, <3>6 DEF Open, Held
    <3>8. Counted(call)
      BY <3>2, <3>5, <3>6, <3>7, ZenonT(30) DEF Counted
    <3> QED
      BY <2>2, <3>1, <3>8, Zenon
  <2>6. ASSUME NEW k \in PollCtx, NEW f \in Fd, cat_poll_close_callback(k, f)
        PROVE  RefInv'
    <3> DEFINE call == [poll[k] EXCEPT !.fd[f] = NoHandle]
    <3>1. poll' = [poll EXCEPT ![k] = Deref(call)] /\ poll[k].fd[f].st = "closing"
      BY <2>1, <2>6 DEF cat_poll_close_callback
    <3>2. poll[k] \in Call /\ Counted(poll[k]) /\ poll[k].fd \in [Fd -> FdHandle]
      BY <2>1 DEF RefInv, Call
    <3>3. poll[k].mem /\ poll[k].coroutine = NULL
      BY <2>1, <3>1, <3>2 DEF Counted, NoCall, NoHandle, ClosingFree
    <3>4. NoHandle \in FdHandle /\ NoHandle.st = "none"
      BY DEF NoHandle, FdHandle, AnyStatus
    <3>5. /\ call \in Call /\ call.mem /\ call.ref = poll[k].ref /\ call.coroutine = NULL
          /\ call.fd = [poll[k].fd EXCEPT ![f] = NoHandle]
      BY <3>2, <3>3, <3>4 DEF Call
    <3> HIDE DEF call
    <3>6. Open(call) = Open(poll[k]) \ {f} /\ f \in Open(poll[k])
      BY <3>1, <3>2, <3>4, <3>5, ZenonT(30) DEF Open
    <3>7. Held(call) = 0 /\ Held(poll[k]) = 0
      BY <3>3, <3>5 DEF Held
    <3>8. Cardinality(Open(call)) = Cardinality(Open(poll[k])) - 1
      BY <3>6, <1>OpenFinite, FS_RemoveElement, Zenon
    <3>9. Cardinality(Open(poll[k])) \in Nat
      BY <1>OpenFinite
    <3>10. call.ref > 0 /\ call.ref = Cardinality(Open(call)) + Held(call) + 1
      BY <3>2, <3>3, <3>5, <3>7, <3>8, <3>9 DEF Counted
    <3>11. Counted(Deref(call))
      BY <3>5, <3>10, <1>DerefCounted
    <3> QED
      BY <2>2, <3>1, <3>11, Zenon
  <2>7. poll' = poll => RefInv'
    BY DEF RefInv
  <2>8. ASSUME NEW c \in Coroutine, IoWakeup(c)
        PROVE  poll' = poll
    BY <2>8 DEF IoWakeup, polling
  <2>9. cat_event_do_io_defer_tasks => poll' = poll
    BY DEF cat_event_do_io_defer_tasks
  <2> QED
    BY <2>3, <2>4, <2>5, <2>6, <2>7, <2>8, <2>9, Zenon DEF PollStep, PollNext, PollLoopNext

<1>1. Init => RefInv
  BY <1>NoCallCounted DEF Init, PollInit, RefInv
<1>2. PollInv /\ RefInv /\ [Next]_vars => RefInv'
  <2> SUFFICES ASSUME PollInv, RefInv, [Next]_vars PROVE RefInv'
    OBVIOUS
  <2>1. PollStep \/ poll' = poll
    BY StepKeeps DEF PollInv
  <2>2. poll' = poll => RefInv'
    BY DEF RefInv
  <2> QED
    BY <2>1, <2>2, <1>RefKept
<1>3. PollInv /\ RefInv => PollRefExact
  <2> SUFFICES ASSUME PollInv, RefInv, NEW k \in PollCtx
               PROVE  /\ poll[k].mem <=> poll[k].ref > 0
                      /\ poll[k].mem => poll[k].ref = Cardinality(Open(poll[k])) + Held(poll[k])
                      /\ \A c \in Coroutine : pc[c] = "poll" /\ pollof[c] = k =>
                           poll[k].mem /\ poll[k].coroutine = c
    BY DEF PollRefExact, Held
  <2>1. Counted(poll[k]) /\ poll[k] \in Call /\ WaiterNamed /\ OwnedInUse
    BY DEF RefInv, PollInv, PollTypes
  <2>2. poll[k].mem <=> poll[k].ref > 0
    <3>1. CASE poll[k].mem
      BY <2>1, <3>1 DEF Counted
    <3>2. CASE ~ poll[k].mem
      <4>1. poll[k] = NoCall
        BY <2>1, <3>2, Zenon DEF Counted
      <4>2. poll[k].ref = 0
        BY <4>1 DEF NoCall
      <4> QED
        BY <3>2, <4>2
    <3> QED
      BY <3>1, <3>2, Zenon
  <2>3. \A c \in Coroutine : pc[c] = "poll" /\ pollof[c] = k => poll[k].mem /\ poll[k].coroutine = c
    BY <2>1 DEF WaiterNamed, OwnedInUse, Owned
  <2> QED
    BY <2>1, <2>2, <2>3, Zenon DEF Counted
<1> QED
  BY <1>1, <1>2, <1>3, CountingHolds, PollInvariant, PTL DEF Spec

-----------------------------------------------------------------------------
\* Waiting for children.

InWait == { c \in Coroutine : pc[c] \in OsWaitPlaces }

WatchInv == IsFiniteSet(InWait) /\ watchers = Cardinality(InWait)

\* As long as somebody waits, running or not, a child that has changed will be seen.
SigchldInv ==
  (\E c \in Coroutine : pc[c] = "os_wait") /\ (\E p \in Pid : Ready(p)) =>
    \/ sigchld /\ watchers > 0
    \/ loop = InSigchld
    \/ \E c \in Coroutine : pc[c] = "os_dispatch"

\* How many are in wait() changes with the watchers.
Counts ==
  \/ InWait' = InWait /\ watchers' = watchers
  \/ \E c \in Coroutine : c \notin InWait /\ InWait' = InWait \cup {c} /\ watchers' = watchers + 1
  \/ \E c \in InWait : InWait' = InWait \ {c} /\ watchers' = watchers - 1

\* The watchers are counted right.
LEMMA WatchKept ==
  ASSUME Base, WatchInv, [Next]_vars
  PROVE  WatchInv'
\* Each step of wait() counts.
<1>OsCounts.
     ASSUME Base, Base', OsWaitStep
     PROVE  Counts
  <2> USE <1>OsCounts
  <2>0. pc \in [Coroutine -> Places] /\ pc' \in [Coroutine -> Places]
    BY DEF Base
  <2>1. ASSUME NEW c \in Coroutine, pc[c] \notin OsWaitPlaces, pc' = [pc EXCEPT ![c] = "os_check"],
               watchers' = watchers + 1
        PROVE  Counts
    <3>1. c \notin InWait /\ InWait' = InWait \cup {c}
      BY <2>0, <2>1 DEF InWait, OsWaitPlaces
    <3> QED
      BY <2>1, <3>1 DEF Counts
  <2>2. ASSUME NEW c \in Coroutine, pc[c] \in OsWaitPlaces, WaitReturns(c)
        PROVE  Counts
    <3>1. pc' = [pc EXCEPT ![c] = "user"] /\ watchers' = watchers - 1
      BY <2>2 DEF WaitReturns, Return
    <3>2. c \in InWait /\ InWait' = InWait \ {c}
      BY <2>0, <2>2, <3>1 DEF InWait, OsWaitPlaces
    <3> QED
      BY <3>1, <3>2 DEF Counts
  <2>3. ASSUME NEW c \in Coroutine, pc[c] \in OsWaitPlaces, NEW to \in OsWaitPlaces,
               pc' = [pc EXCEPT ![c] = to], watchers' = watchers
        PROVE  Counts
    BY <2>0, <2>3 DEF Counts, InWait
  <2>4. ASSUME pc' = pc, watchers' = watchers
        PROVE  Counts
    BY <2>4 DEF Counts, InWait
  <2>5. ASSUME NEW c \in Coroutine, NEW want \in Pid \cup {NULL}, cat_os__wait_wrapper(c, want)
        PROVE  Counts
    BY <2>1, <2>5, Zenon DEF cat_os__wait_wrapper, At, OsWaitPlaces
  <2>6. ASSUME NEW c \in Coroutine, cat_os__wait(c)
        PROVE  Counts
    BY <2>2, <2>3, <2>6, Zenon DEF cat_os__wait, At, OsWaitPlaces
  <2>7. ASSUME NEW c \in Coroutine, OsWaited(c)
        PROVE  Counts
    BY <2>2, <2>7 DEF OsWaited, At, OsWaitPlaces
  <2>8. ASSUME NEW x \in Routine, cat_os_wait_dispatch(x) \/ DispatchGoesOn(x)
        PROVE  Counts
    BY <2>4, <2>8, Zenon DEF cat_os_wait_dispatch, DispatchGoesOn, NotifyOne, Schedule
  <2>9. ASSUME NEW x \in Routine, DispatchDone(x)
        PROVE  Counts
    <3>1. CASE x = Scheduler
      BY <2>4, <2>9, <3>1, SchedulerAssumption, Zenon DEF DispatchDone
    <3>2. CASE x \in Coroutine
      <4>1. /\ pc[x] = "os_dispatch" /\ watchers' = watchers
            /\ pc' = [pc EXCEPT ![x] = "os_check"] \/ pc' = [pc EXCEPT ![x] = "os_wait"]
        BY <2>9, <3>2, SchedulerAssumption,
          Zenon DEF DispatchDone, Dispatching, At, JoinWaiters, cat_time_wait, oswait
      <4> QED
        BY <2>3, <3>2, <4>1, Zenon DEF OsWaitPlaces
    <3> QED
      BY <3>1, <3>2, Zenon DEF Routine
  <2>10. cat_os_wait_sigchld_handler => Counts
    BY <2>4 DEF cat_os_wait_sigchld_handler
  <2>11. ASSUME NEW p \in Pid, KidExits(p) \/ KidStops(p)
         PROVE  Counts
    BY <2>4, <2>11 DEF KidExits, KidStops, KidChanges, waiting
  <2> QED
    BY <2>5, <2>6, <2>7, <2>8, <2>9, <2>10, <2>11, Zenon DEF OsWaitStep, OsWaitNext, DispatchNext

<1>1. Counts
  <2>1. CASE OsWaitStep
    BY <2>1, OsStepKeeps, <1>OsCounts
  <2>2. CASE ~ OsWaitStep
    <3>1. /\ Keeps("os_check") /\ Keeps("os_dispatch") /\ Keeps("os_wait") /\ watchers' = watchers
      BY <2>2, OsStepKeeps DEF oswait
    <3>2. InWait' = InWait
      BY <3>1 DEF InWait, OsWaitPlaces, Keeps
    <3> QED
      BY <3>1, <3>2 DEF Counts
  <2> QED
    BY <2>1, <2>2
<1>2. CASE InWait' = InWait /\ watchers' = watchers
  BY <1>2 DEF WatchInv
<1>3. ASSUME NEW c \in Coroutine, c \notin InWait, InWait' = InWait \cup {c}, watchers' = watchers + 1
      PROVE  WatchInv'
  <2>1. IsFiniteSet(InWait \cup {c}) /\ Cardinality(InWait \cup {c}) = Cardinality(InWait) + 1
    BY <1>3, FS_AddElement DEF WatchInv
  <2> QED
    BY <1>3, <2>1 DEF WatchInv
<1>4. ASSUME NEW c \in InWait, InWait' = InWait \ {c}, watchers' = watchers - 1
      PROVE  WatchInv'
  <2>1. IsFiniteSet(InWait \ {c}) /\ Cardinality(InWait \ {c}) = Cardinality(InWait) - 1
    BY <1>4, FS_RemoveElement DEF WatchInv
  <2> QED
    BY <1>4, <2>1 DEF WatchInv
<1> QED
  BY <1>1, <1>2, <1>3, <1>4, Zenon DEF Counts

\* As long as somebody is in wait() there is a watcher.
LEMMA WaiterWatched ==
  ASSUME WatchInv
  PROVE  watchers \in Nat /\ (watchers > 0 <=> \E c \in Coroutine : pc[c] \in OsWaitPlaces)
<1>1. watchers \in Nat /\ (watchers = 0 <=> InWait = {})
  BY FS_CardinalityType, FS_EmptySet DEF WatchInv
<1> QED
  BY <1>1 DEF InWait

\* What is not wait() leaves the SIGCHLD handler alone.
LEMMA OthersKeepSigchld ==
  ASSUME Next, ~ OsWaitStep
  PROVE  loop = InSigchld => loop' = loop
<1>1. InIo = -1 /\ InCheck = -2 /\ InSigchld = -10
  BY DEF InIo, InCheck, InSigchld
<1>2. \A p \in Process : InExit(p) < -20
  BY ProcessAssumption DEF InExit
<1>3. ASSUME NEW c \in Coroutine, Elsewhere(c)
      PROVE  loop' = loop
  BY <1>3, ElsewhereMoves
<1>4. PollStep => loop' = loop \/ loop \in {0, InIo, InCheck}
  BY Zenon
     DEF PollStep, PollNext, PollLoopNext, cat_poll, PollWaited, IoWakeup, cat_poll_callback,
         cat_poll_close_callback, cat_event_do_io_defer_tasks, LoopIdle, LoopAt, waiting
<1>5. ProcessStep => loop' = loop \/ loop = 0 \/ \E p \in Process : loop = InExit(p)
  BY Zenon
     DEF ProcessStep, ProcessNext, ExitNext, cat_process_run, cat_process_wait, ProcessWaited,
         cat_process_close, cat_process_exit_callback, ExitGoesOn, cat_process_close_callback,
         LoopIdle, LoopAt, waiting
<1>6. SignalStep => loop' = loop
  BY SignalLocal
<1>7. WaitGroupStep => loop' = loop
  BY WaitGroupLocal
<1> QED
  BY <1>1, <1>2, <1>3, <1>4, <1>5, <1>6, <1>7 DEF Next

\* No step misses a SIGCHLD.
LEMMA SigchldKept ==
  ASSUME Base, WatchInv, WatchInv', SigchldInv, [Next]_vars
  PROVE  SigchldInv'
<1> DEFINE Somebody == \E c \in Coroutine : pc[c] = "os_wait"
           Dispatcher == loop = InSigchld \/ \E c \in Coroutine : pc[c] = "os_dispatch"
           Change == \E p \in Pid : Ready(p)
<1>0. Base' /\ watchers \in Nat /\ watchers' \in Nat /\ (Somebody' => watchers' > 0)
  <2>1. watchers' \in Nat /\ (watchers' = 0 <=> InWait' = {})
    BY FS_CardinalityType, FS_EmptySet DEF WatchInv
  <2>2. Somebody' => InWait' # {}
    BY DEF InWait, OsWaitPlaces
  <2> QED
    BY <2>1, <2>2, OsStepKeeps, WaiterWatched
<1>1. ASSUME Somebody' /\ Change' => Somebody /\ Change, sigchld' = sigchld, Dispatcher => Dispatcher'
      PROVE  SigchldInv'
  BY <1>0, <1>1, Zenon DEF SigchldInv
<1>2. CASE UNCHANGED vars
  BY <1>1, <1>2, Zenon DEF vars, waiting, oswait, Ready
<1>3. CASE Next /\ ~ OsWaitStep
  <2>1. /\ Keeps("os_dispatch") /\ Keeps("os_wait") /\ UNCHANGED oswait
        /\ loop = InSigchld => loop' = loop
    BY <1>3, OsStepKeeps, OthersKeepSigchld, Zenon
  <2> QED
    BY <1>1, <2>1 DEF Keeps, oswait, Ready
<1>4. CASE OsWaitStep
  <2>1. ASSUME NEW c \in Coroutine, NEW want \in Pid \cup {NULL}, cat_os__wait_wrapper(c, want)
        PROVE  SigchldInv'
    <3>1. /\ pc[c] = "user" /\ pc' = [pc EXCEPT ![c] = "os_check"] /\ kid' = kid
          /\ sigchld' = sigchld /\ loop' = loop
      BY <2>1 DEF cat_os__wait_wrapper, At
    <3> QED
      BY <1>1, <3>1 DEF Base, Ready
  <2>2. ASSUME NEW c \in Coroutine, cat_os__wait(c) \/ OsWaited(c)
        PROVE  SigchldInv'
    <3>1. /\ pc[c] \in {"os_check", "os_wait"} /\ kid' = kid /\ sigchld' = sigchld /\ loop' = loop
          /\ pc' = [pc EXCEPT ![c] = "user"] \/ pc' = [pc EXCEPT ![c] = "os_dispatch"]
      BY <2>2 DEF cat_os__wait, OsWaited, At, WaitReturns, Return
    <3> QED
      BY <1>1, <3>1, Zenon DEF Base, Ready
  <2>3. ASSUME NEW x \in Routine, cat_os_wait_dispatch(x) \/ DispatchGoesOn(x)
        PROVE  SigchldInv'
    <3>1. Dispatching(x) /\ pc' = pc /\ loop' = loop
      BY <2>3, Zenon DEF cat_os_wait_dispatch, DispatchGoesOn, NotifyOne, Schedule
    <3>2. Dispatcher
      BY <3>1 DEF Dispatching, At, LoopAt
    <3>3. Dispatcher'
      BY <3>1, <3>2
    <3> QED
      BY <3>3 DEF SigchldInv
  <2>4. ASSUME NEW x \in Routine, DispatchDone(x)
        PROVE  SigchldInv'
    <3>1. kid' = kid /\ \A p \in Pid : ~ Ready(p)
      BY <2>4, Zenon DEF DispatchDone, JoinWaiters, oswait
    <3> QED
      BY <3>1 DEF SigchldInv, Ready
  <2>5. ASSUME cat_os_wait_sigchld_handler
        PROVE  SigchldInv'
    <3>1. watchers' = watchers /\ (watchers > 0 => loop' = InSigchld)
      BY <2>5 DEF cat_os_wait_sigchld_handler
    <3> QED
      BY <1>0, <3>1 DEF SigchldInv
  <2>6. ASSUME NEW p \in Pid, KidExits(p) \/ KidStops(p)
        PROVE  SigchldInv'
    <3>1. watchers' = watchers /\ sigchld' = (sigchld \/ watchers > 0)
      BY <2>6 DEF KidExits, KidStops, KidChanges
    <3> QED
      BY <1>0, <3>1, Zenon DEF SigchldInv
  <2> QED
    BY <1>4, <2>1, <2>2, <2>3, <2>4, <2>5, <2>6, Zenon DEF OsWaitStep, OsWaitNext, DispatchNext
<1> QED
  BY <1>2, <1>3, <1>4, Zenon

\* A dispatcher that has waiters to tell is the only one for a child that is gone;
\* as many are left in the queue as it has still to tell, and the one that it has
\* told and that has not returned yet.
TellsRight(x) ==
  LET p == osw[x].pid IN
  /\ p \in Pid /\ kid[p] = "gone"
  /\ IF x = Scheduler THEN loop = InSigchld ELSE pc[x] = "os_dispatch"
  /\ task[p].count + 1 >= osw[x].left
  /\ \A c \in Coroutine : At(c, "os_wait") /\ osw[c].want = p => task[p].count >= osw[x].left
  /\ \A y \in Routine \ {x} : osw[y].left > 0 => osw[y].pid # p

DispatchInv ==
  use \cap {"cancel", "stop"} = {} =>
    \A x \in Routine : ~ osw[x].stale /\ (osw[x].left > 0 => TellsRight(x))

\* Steps of others, when no wait is cancelled: nobody who is in wait() begins to run
\* but by a callback of the loop, when there is no dispatcher.
OtherSwitches ==
  \/ chain' = chain
  \/ Running(chain) = Scheduler /\ loop # InSigchld
  \/ Running(chain) \in Coroutine /\ chain' = YieldOn(chain)
  \/ \E t \in Coroutine : chain' = ResumeOn(chain, t) /\ pc[t] = "wait_group"

\* The loop is not in the callback of SIGCHLD when it is idle.
LEMMA IdleNotInSigchld == 0 # InSigchld
  BY DEF InSigchld

\* A dispatcher with no waiter left has none to notify.
LEMMA NoneLeft == ~ (0 > 0)
  OBVIOUS

\* A count that grows stays within one of what it covered.
LEMMA SlackGrows == \A a, b, n \in Nat : b >= a /\ a + 1 >= n => b + 1 >= n
  OBVIOUS

\* Nobody frees a task that a dispatcher will look at again, unless a wait is cancelled
\* or a child stops.
LEMMA DispatchInvKept ==
  ASSUME WaitsInv, WaitsInv', RunInv, ExitInv, DispatchInv, [Next]_vars
  PROVE  DispatchInv'
\* Every step of others is one of these.
<1>OthersSwitch.
     ASSUME WaitsInv, Next, ~ OsWaitStep, "cancel" \notin use
     PROVE  OtherSwitches
  <2> USE <1>OthersSwitch
  <2>0. InSigchld = -10 /\ InIo = -1 /\ InCheck = -2 /\ \A p \in Process : InExit(p) # -10
    BY ProcessAssumption DEF InSigchld, InIo, InCheck, InExit
  <2>1. ASSUME NEW c \in Coroutine, Elsewhere(c)
        PROVE  OtherSwitches
    BY <2>0, <2>1 DEF Elsewhere, Sleep, Wakeup, cat_timer_callback, LoopIdle, At, OtherSwitches
  <2>2. CASE PollStep
    <3>1. ASSUME NEW c \in Coroutine, PollNext(c)
          PROVE  OtherSwitches
      BY <2>0, <3>1
         DEF PollNext, cat_poll, PollWaited, IoWakeup, cat_time_wait, Return, LoopAt, At,
                        OtherSwitches
    <3>2. ASSUME NEW k \in PollCtx, NEW f \in Fd, NEW status \in {"ok", "error"},
                 cat_poll_callback(k, f, status) \/ cat_poll_close_callback(k, f)
          PROVE  OtherSwitches
      BY <3>2 DEF cat_poll_callback, cat_poll_close_callback, waiting, OtherSwitches
    <3>3. cat_event_do_io_defer_tasks => OtherSwitches
      BY <2>0 DEF cat_event_do_io_defer_tasks, LoopAt, OtherSwitches
    <3> QED
      BY <2>2, <3>1, <3>2, <3>3, Zenon DEF PollStep, PollLoopNext
  <2>3. CASE ProcessStep
    <3>1. ASSUME NEW c \in Coroutine, ProcessNext(c)
          PROVE  OtherSwitches
      BY <3>1
         DEF ProcessNext, cat_process_run, cat_process_wait, ProcessWaited, cat_process_close,
                  cat_time_wait, Return, At, waiting, OtherSwitches
    <3>2. ASSUME NEW p \in Process,
                 cat_process_exit_callback(p) \/ ExitGoesOn(p) \/ cat_process_close_callback(p)
          PROVE  OtherSwitches
      <4>1. Running(chain) = Scheduler /\ (loop = 0 \/ loop = InExit(p))
        BY <3>2
           DEF cat_process_exit_callback, ExitGoesOn, cat_process_close_callback, LoopIdle, LoopAt
      <4> QED
        BY <2>0, <4>1 DEF OtherSwitches
    <3> QED
      BY <2>3, <3>1, <3>2, Zenon DEF ProcessStep, ExitNext
  <2>4. CASE SignalStep
    <3>1. ASSUME NEW c \in Coroutine, SignalNext(c)
          PROVE  OtherSwitches
      BY <3>1
         DEF SignalNext, cat_signal_wait, SignalWaited, cat_time_wait, Return, At, OtherSwitches
    <3>2. ASSUME NEW h \in SignalHandle, cat_signal_callback(h) \/ cat_signal_close_callback(h)
          PROVE  OtherSwitches
      BY <2>0, <3>2 DEF cat_signal_callback, cat_signal_close_callback, LoopIdle, OtherSwitches
    <3> QED
      BY <2>4, <3>1, <3>2, Zenon DEF SignalStep, HandleNext
  <2>5. CASE WaitGroupStep
    <3>1. wg.coroutine # NULL => wg.coroutine \in Coroutine /\ pc[wg.coroutine] = "wait_group"
      BY Zenon DEF WaitsInv, WaitGroupInv, WaitGroupServed
    <3> QED
      BY <2>5, <3>1,
           Zenon DEF WaitGroupStep, WaitGroupNext, cat_sync_wait_group_add, cat_sync_wait_group_wait,
           WaitGroupWaited, cat_sync_wait_group_done, cat_time_wait, Return, Schedule, At, waiting,
           OtherSwitches
  <2> QED
    BY <2>1, <2>2, <2>3, <2>4, <2>5, Zenon DEF Next

\* A coroutine that yields does not hand over to one that waits.
<1>YieldWakesNone.
     ASSUME RunInv, Running(chain) \in Coroutine, chain' = YieldOn(chain)
     PROVE  \A c \in Coroutine : Running(chain') = c =>
              pc[c] \notin Waits /\ c # Running(chain)
  <2> USE <1>YieldWakesNone
  <2>1. RunChain(chain') /\ OnChain(chain') = OnChain(chain) \ {Running(chain)}
    BY YieldChain DEF RunInv
  <2>2. Running(chain') \in OnChain(chain')
    BY <2>1, RunningOnChain
  <2> QED
    BY <2>1, <2>2, Zenon DEF RunInv

\* A dispatcher that has still to tell is under way.
<1>TellerRuns.
     ASSUME RunInv, DispatchInv, use \cap {"cancel", "stop"} = {}, NEW x \in Routine, osw[x].left > 0,
            Running(chain) = Scheduler
     PROVE  loop = InSigchld
  <2> USE <1>TellerRuns
  <2>1. TellsRight(x)
    BY DEF DispatchInv
  <2>2. OnChain(chain) = {Scheduler}
    BY LoopAlone DEF RunInv
  <2>3. x = Scheduler
    BY <2>1, <2>2, SchedulerAssumption, Zenon DEF TellsRight, RunInv, Routine
  <2> QED
    BY <2>1, <2>3, ZenonT(30) DEF TellsRight

\* Steps of others.
<1>OthersKeepDispatch.
     ASSUME WaitsInv, RunInv, DispatchInv, Next, ~ OsWaitStep
     PROVE  DispatchInv'
  <2> USE <1>OthersKeepDispatch
  <2>0. use' = use /\ Base
    BY DEF Next, WaitsInv, OsInv
  <2>1. /\ Keeps("os_dispatch") /\ Keeps("os_wait") /\ UNCHANGED oswait
        /\ loop = InSigchld => loop' = loop
    BY <2>0, OsStepKeeps, OthersKeepSigchld, Zenon
  <2>2. osw' = osw /\ task' = task /\ kid' = kid
    BY <2>1, Zenon DEF oswait
  <2>3. CASE use \cap {"cancel", "stop"} # {}
    BY <2>0, <2>3, Zenon DEF DispatchInv
  <2>4. CASE use \cap {"cancel", "stop"} = {}
    <3>1. ASSUME NEW x \in Routine, osw[x].left > 0
          PROVE  TellsRight(x)'
      <4>1. TellsRight(x)
        BY <2>4, <3>1, Zenon DEF DispatchInv
      <4>2. ASSUME NEW c \in Coroutine, At(c, "os_wait")'
            PROVE  At(c, "os_wait")
        <5>1. pc[c] = "os_wait" /\ Running(chain') = c
          BY <2>1, <4>2 DEF At, Keeps
        <5>2. OtherSwitches
          BY <2>4, <1>OthersSwitch, Zenon
        <5>3. CASE chain' = chain
          BY <5>1, <5>3, Zenon DEF At
        <5>4. CASE Running(chain) = Scheduler /\ loop # InSigchld
          BY <2>4, <3>1, <5>4, <1>TellerRuns, Zenon
        <5>5. CASE Running(chain) \in Coroutine /\ chain' = YieldOn(chain)
          BY <5>1, <5>5, <1>YieldWakesNone, Zenon DEF Waits
        <5>6. CASE \E t \in Coroutine : chain' = ResumeOn(chain, t) /\ pc[t] = "wait_group"
          BY <5>1, <5>6, ResumeChain DEF RunInv
        <5> QED
          BY <5>2, <5>3, <5>4, <5>5, <5>6, Zenon DEF OtherSwitches
      <4> QED
        BY <2>1, <2>2, <4>1, <4>2, SchedulerAssumption, ZenonT(30) DEF TellsRight, Keeps, Routine
    <3> QED
      BY <2>0, <2>2, <2>4, <3>1, Zenon DEF DispatchInv
  <2> QED
    BY <2>3, <2>4, Zenon

\* What a step has to keep of a dispatcher.
<1>TellsKept.
     ASSUME NEW x \in Routine, TellsRight(x), osw'[x].left = osw[x].left, osw'[x].pid = osw[x].pid,
            NEW p, p = osw[x].pid, kid'[p] = kid[p],
            IF x = Scheduler THEN loop' = loop ELSE pc'[x] = pc[x],
            task'[p].count + 1 >= osw[x].left,
            \A c \in Coroutine : At(c, "os_wait")' /\ osw'[c].want = p => task'[p].count >= osw[x].left,
            \A y \in Routine \ {x} : osw'[y].left > 0 => osw'[y].pid # p
     PROVE  TellsRight(x)'
  BY <1>TellsKept, Zenon DEF TellsRight

\* A caller of wait(), which runs and does not dispatch, gets another frame.
<1>CallerTells.
     ASSUME OsInv, OsInv', DispatchInv, use \cap {"cancel", "stop"} = {},
            NEW c \in Coroutine, Running(chain) = c, pc[c] # "os_dispatch",
            chain' = chain, NEW to, to # "os_wait", pc' = [pc EXCEPT ![c] = to], loop' = loop, kid' = kid,
            ~ osw'[c].stale, osw'[c].left = 0,
            \A x \in Routine \ {c} : osw'[x].left = osw[x].left /\ osw'[x].pid = osw[x].pid,
            \A x \in Routine \ {c} : ~ osw'[x].stale,
            \A x \in Routine \ {c} : osw[x].left > 0 =>
              task'[osw[x].pid].count + 1 >= osw[x].left
     PROVE  \A x \in Routine : ~ osw'[x].stale /\ (osw'[x].left > 0 => TellsRight(x)')
  <2> USE <1>CallerTells
  <2> SUFFICES ASSUME NEW x \in Routine \ {c}, osw[x].left > 0 PROVE TellsRight(x)'
    OBVIOUS
  <2>1. TellsRight(x)
    BY DEF DispatchInv
  <2>2. \A d \in Coroutine : ~ At(d, "os_wait")'
    BY ZenonT(30) DEF At, OsInv, Base
  <2>3. \A y \in Routine \ {x} : osw'[y].left > 0 => osw'[y].pid # osw[x].pid
    BY <2>1 DEF TellsRight
  <2>4. IF x = Scheduler THEN loop' = loop ELSE pc'[x] = pc[x]
    BY Zenon DEF OsInv, Base, Routine
  <2> QED
    BY <2>1, <2>2, <2>3, <2>4, <1>TellsKept, ZenonT(30)

\* wait() begins, finds something, or goes on to dispatch.
<1>CheckTells.
     ASSUME OsInv, OsInv', DispatchInv, use \cap {"cancel", "stop"} = {}, NEW c \in Coroutine,
            (\E want \in Pid \cup {NULL} : cat_os__wait_wrapper(c, want)) \/ cat_os__wait(c)
     PROVE  \A x \in Routine : ~ osw'[x].stale /\ (osw'[x].left > 0 => TellsRight(x)')
  <2> USE <1>CheckTells
  <2>0. Coroutine \subseteq Routine /\ osw[c] \in Frame /\ osw \in [Routine -> Frame]
    BY DEF Routine, OsInv
  <2>1. /\ Running(chain) = c /\ pc[c] \in {"user", "os_check"}
        /\ chain' = chain /\ loop' = loop /\ kid' = kid /\ task' = task
        /\ \E to \in {"user", "os_check", "os_dispatch"} : pc' = [pc EXCEPT ![c] = to]
        /\ \/ \E want \in Pid \cup {NULL} : osw' = [osw EXCEPT ![c] = [NoFrame EXCEPT !.want = want]]
           \/ osw' = [osw EXCEPT ![c] = NoFrame]
           \/ osw' = [osw EXCEPT ![c] = [osw[c] EXCEPT !.new = 0]]
    BY DEF cat_os__wait_wrapper, cat_os__wait, At, WaitReturns, Return
  <2>2. ~ osw[c].stale /\ osw[c].left = 0 /\ \A x \in Routine : ~ osw[x].stale
    <3>1. ~ (osw[c].left > 0) /\ osw[c].left \in Nat
      BY <2>0, <2>1, SchedulerAssumption, Zenon DEF DispatchInv, TellsRight, Frame
    <3> QED
      BY <2>0, <3>1 DEF DispatchInv
  <2>3. ~ osw'[c].stale /\ osw'[c].left = 0
    BY <2>0, <2>1, <2>2 DEF NoFrame, Frame
  <2>4. \A x \in Routine \ {c} : osw'[x] = osw[x]
    BY <2>0, <2>1, Zenon
  <2>5. \A x \in Routine \ {c} : osw[x].left > 0 => task'[osw[x].pid].count + 1 >= osw[x].left
    BY <2>1 DEF DispatchInv, TellsRight
  <2>6. PICK to \in {"user", "os_check", "os_dispatch"} : pc' = [pc EXCEPT ![c] = to]
    BY <2>1, Zenon
  <2>7. \A x \in Routine \ {c} : /\ osw'[x].left = osw[x].left /\ osw'[x].pid = osw[x].pid
                                 /\ ~ osw'[x].stale
    BY <2>2, <2>4, Zenon
  <2> QED
    BY <2>1, <2>3, <2>5, <2>6, <2>7, <1>CallerTells, ZenonT(30)

\* A waiter returns; there are still as many as the dispatcher counts on.
<1>OsWaitedTells.
     ASSUME OsInv, OsInv', DispatchInv, use \cap {"cancel", "stop"} = {},
            NEW c \in Coroutine, OsWaited(c)
     PROVE  \A x \in Routine : ~ osw'[x].stale /\ (osw'[x].left > 0 => TellsRight(x)')
  <2> USE <1>OsWaitedTells
  <2>0. PICK want \in Pid \cup {NULL} : want = osw[c].want
    BY DEF OsInv, Frame, Routine
  <2>1. /\ At(c, "os_wait") /\ chain' = chain /\ loop' = loop /\ kid' = kid
        /\ pc' = [pc EXCEPT ![c] = "user"]
    BY DEF OsWaited, WaitReturns, Return
  <2>2. NULL \notin Pid /\ c \in Routine /\ \A x \in Routine : osw[x] \in Frame /\ ~ osw[x].stale
    BY PidAssumption DEF OsInv, Routine, DispatchInv
  <2>3. \A x \in Routine : osw[x].left > 0 => /\ TellsRight(x) /\ osw[x].pid \in Pid
                                              /\ osw[x].pid = want => task[want].count >= osw[x].left
    BY <2>0, <2>1, ZenonT(30) DEF DispatchInv, TellsRight
  <2>4. \A p \in Pid : task[p].count \in Nat
    BY DEF OsInv, Task
  <2>5. CASE want = NULL
    <3>1. task' = task /\ osw' = [osw EXCEPT ![c] = NoFrame]
      BY <2>0, <2>5 DEF OsWaited
    <3>2. ~ osw'[c].stale /\ osw'[c].left = 0 /\ \A x \in Routine \ {c} : osw'[x] = osw[x]
      BY <2>2, <3>1, ZenonT(30) DEF OsInv, NoFrame
    <3>3. \A x \in Routine \ {c} : osw[x].left > 0 => task'[osw[x].pid].count + 1 >= osw[x].left
      BY <2>3, <3>1, Zenon DEF TellsRight
    <3>4. \A x \in Routine \ {c} : /\ osw'[x].left = osw[x].left /\ osw'[x].pid = osw[x].pid
                                   /\ ~ osw'[x].stale
      BY <2>2, <3>2, Zenon
    <3> QED
      BY <2>1, <3>2, <3>3, <3>4, <1>CallerTells, ZenonT(30) DEF At
  <2>6. CASE want # NULL
    <3>1. PICK t : t = [task[want] EXCEPT !.count = task[want].count - 1,
                                          !.waiters = Without(task[want].waiters, c)]
      BY Zenon
    <3>2. /\ want \in Pid
          /\ task' = [task EXCEPT ![want] = IF t.count = 0 THEN NoTask ELSE t]
          /\ osw' = [x \in Routine |->
                       IF x = c THEN NoFrame
                       ELSE [osw[x] EXCEPT !.stale = osw[x].stale \/ (t.count = 0 /\ osw[x].pid = want
                                                                      /\ osw[x].left > 1)]]
      BY <2>0, <2>6, <3>1, Zenon DEF OsWaited
    <3>3. t.count = task[want].count - 1
      BY <3>1, <3>2 DEF OsInv, Task
    <3>4. task'[want].count = task[want].count - 1 /\ \A p \in Pid : p # want => task'[p] = task[p]
      BY <3>2, <3>3, Zenon DEF OsInv, NoTask
    <3>5. ASSUME NEW x \in Routine \ {c}
          PROVE  osw'[x].left = osw[x].left /\ osw'[x].pid = osw[x].pid /\ ~ osw'[x].stale
      <4>1. ~ (t.count = 0 /\ osw[x].pid = want /\ osw[x].left > 1)
        BY <2>2, <2>3, <2>4, <3>2, <3>3 DEF Frame
      <4>2. osw'[x] = [osw[x] EXCEPT !.stale = FALSE]
        BY <2>2, <3>2, <4>1, ZenonT(30)
      <4> QED
        BY <2>2, <4>2, Zenon DEF Frame
    <3>6. ~ osw'[c].stale /\ osw'[c].left = 0
      BY <2>2, <3>2, Zenon DEF NoFrame
    <3>7. ASSUME NEW x \in Routine \ {c}, osw[x].left > 0
          PROVE  task'[osw[x].pid].count + 1 >= osw[x].left
      <4>1. CASE osw[x].pid = want
        BY <2>2, <2>3, <2>4, <3>2, <3>4, <3>7, <4>1 DEF Frame
      <4>2. CASE osw[x].pid # want
        BY <2>3, <3>4, <3>7, <4>2, ZenonT(30) DEF TellsRight
      <4> QED
        BY <4>1, <4>2, ZenonT(30)
    <3> QED
      BY <2>1, <3>5, <3>6, <3>7, <1>CallerTells, ZenonT(30) DEF At
  <2> QED
    BY <2>5, <2>6, ZenonT(30)

\* The dispatcher x, which runs, wakes one that waits for p, or nobody; of the other
\* dispatchers none is about p.
<1>OthersTold.
     ASSUME OsInv, RunInv, DispatchInv, use \cap {"cancel", "stop"} = {},
            NEW x \in Routine, Dispatching(x), NEW p \in Pid \cup {NULL},
            pc' = pc, loop' = loop,
            \/ chain' = chain
            \/ \E h \in Coroutine : chain' = ResumeOn(chain, h) /\ osw[h].want = p,
            \A q \in Pid : task'[q].count = task[q].count,
            \A q \in Pid : kid[q] = "gone" => kid'[q] = "gone",
            \A c \in Coroutine : osw'[c].want = osw[c].want,
            \A y \in Routine \ {x} : /\ osw'[y].left = osw[y].left /\ osw'[y].pid = osw[y].pid
                                     /\ ~ osw'[y].stale,
            \A y \in Routine \ {x} : osw[y].left > 0 => osw[y].pid # p,
            osw'[x].left > 0 => \A y \in Routine \ {x} : osw[y].left > 0 => osw[y].pid # osw'[x].pid
     PROVE  \A y \in Routine \ {x} : ~ osw'[y].stale /\ (osw'[y].left > 0 => TellsRight(y)')
  <2> USE <1>OthersTold
  <2> SUFFICES ASSUME NEW y \in Routine \ {x}, osw[y].left > 0 PROVE TellsRight(y)'
    BY Zenon DEF DispatchInv
  <2>1. TellsRight(y) /\ osw[y].pid \in Pid
    BY Zenon DEF DispatchInv, TellsRight
  <2>2. \A c \in Coroutine : ~ (At(c, "os_wait")' /\ osw'[c].want = osw[y].pid)
    <3> SUFFICES ASSUME NEW c \in Coroutine, At(c, "os_wait")', osw[c].want = osw[y].pid PROVE FALSE
      OBVIOUS
    <3>1. Running(chain') = c /\ pc[c] = "os_wait"
      BY Zenon DEF At
    <3>2. CASE chain' = chain
      BY <3>1, <3>2, SchedulerAssumption, ZenonT(30) DEF Dispatching, At, LoopAt
    <3>3. ASSUME NEW h \in Coroutine, chain' = ResumeOn(chain, h), osw[h].want = p
          PROVE  FALSE
      <4>1. RunChain(chain)
        BY Zenon DEF RunInv
      <4>2. Running(chain') = h
        BY <3>3, <4>1, ResumeChain, Zenon
      <4> QED
        BY <3>1, <3>3, <4>2, Zenon
    <3> QED
      BY <3>2, <3>3, ZenonT(30)
  <2>3. \A z \in Routine \ {y} : osw'[z].left > 0 => osw'[z].pid # osw[y].pid
    BY <2>1, Zenon DEF TellsRight
  <2>4. kid'[osw[y].pid] = kid[osw[y].pid] /\ task'[osw[y].pid].count + 1 >= osw[y].left
    BY <2>1, Zenon DEF TellsRight
  <2> QED
    BY <2>1, <2>2, <2>3, <2>4, <1>TellsKept, ZenonT(30)

\* A round of a dispatcher: the child that has exited is nobody else's.
<1>DispatchTells.
     ASSUME OsInv, OsInv', RunInv, ExitInv, DispatchInv, use \cap {"cancel", "stop"} = {},
            NEW x \in Routine, cat_os_wait_dispatch(x)
     PROVE  \A y \in Routine : ~ osw'[y].stale /\ (osw'[y].left > 0 => TellsRight(y)')
  <2> USE <1>DispatchTells
  <2>1. PICK p \in Pid :
          /\ Ready(p) /\ wait4(p)
          /\ \/ /\ task[p].mem /\ task' = [task EXCEPT ![p].status = Status(p)]
                /\ osw' = [osw EXCEPT ![x].pid = p, ![x].status = Status(p), ![x].left = task[p].count]
                /\ chain' = ResumeOn(chain, Head(task[p].waiters)) /\ pc' = pc
             \/ /\ list # << >> /\ chain' = ResumeOn(chain, Head(list)) /\ task' = task /\ pc' = pc
                /\ osw' = [osw EXCEPT ![Head(list)].told = p, ![Head(list)].status = Status(p)]
             \/ osw' = [osw EXCEPT ![x].new = osw[x].new + 1] /\ chain' = chain /\ task' = task /\ pc' = pc
    BY Zenon DEF cat_os_wait_dispatch, NotifyOne, Save, Schedule
  <2>2. Dispatching(x) /\ osw[x].left = 0 /\ loop' = loop /\ ~ osw[x].stale
    BY DEF cat_os_wait_dispatch, Dispatching
  <2>3. /\ kid[p] = "zombie" /\ kid' = [kid EXCEPT ![p] = "gone"]
        /\ kid \in [Pid -> {"running", "zombie", "gone"}]
    BY <2>1, Zenon DEF ExitInv, Ready, wait4
  <2>4. /\ kid'[p] = "gone" /\ \A q \in Pid : kid[q] = "gone" => kid'[q] = "gone"
        /\ \A y \in Routine : osw[y].left > 0 => osw[y].pid \in Pid \ {p}
    BY <2>3, ZenonT(30) DEF DispatchInv, TellsRight
  <2>5. /\ Coroutine \subseteq Routine /\ osw[x] \in Frame /\ osw \in [Routine -> Frame]
        /\ NULL \notin Pid /\ \A q \in Pid : task[q] \in Task
    BY PidAssumption, Zenon DEF OsInv, Routine
  <2>6. CASE /\ task[p].mem /\ task' = [task EXCEPT ![p].status = Status(p)]
             /\ osw' = [osw EXCEPT ![x].pid = p, ![x].status = Status(p), ![x].left = task[p].count]
             /\ chain' = ResumeOn(chain, Head(task[p].waiters)) /\ pc' = pc
    <3>1. PICK h \in Coroutine : h = Head(task[p].waiters) /\ osw[h].want = p /\ pc[h] = "os_wait"
      <4>1. task[p].waiters # << >> /\ task[p].waiters \in Seq(Coroutine)
        BY <2>6 DEF OsInv, TaskExact, Task
      <4>2. Head(task[p].waiters) \in OnChain(task[p].waiters)
        BY <4>1 DEF OnChain
      <4>3. OnChain(task[p].waiters) = WaitingFor(p)
        BY Zenon DEF OsInv, TaskExact
      <4> QED
        BY <4>2, <4>3, ZenonT(30) DEF WaitingFor
    <3>2. \A q \in Pid : task'[q].count = task[q].count
      BY <2>5, <2>6, Zenon DEF OsInv, Task
    <3>3. osw'[x] = [osw[x] EXCEPT !.pid = p, !.status = Status(p), !.left = task[p].count]
      BY <2>5, <2>6, Zenon
    <3>4. /\ osw'[x].pid = p /\ osw'[x].left = task[p].count /\ ~ osw'[x].stale
          /\ osw'[x].want = osw[x].want
      BY <2>2, <2>5, <3>3, Zenon DEF Frame
    <3>5. \A y \in Routine \ {x} : osw'[y] = osw[y]
      BY <2>5, <2>6, Zenon
    <3>6. \A y \in Routine \ {x} : ~ osw'[y].stale /\ (osw'[y].left > 0 => TellsRight(y)')
      <4>1. \A c \in Coroutine : osw'[c].want = osw[c].want
        BY <2>5, <3>4, <3>5, ZenonT(30)
      <4>2. chain' = ResumeOn(chain, h)
        BY <2>6, <3>1, Zenon
      <4>3. \A y \in Routine \ {x} : /\ osw'[y].left = osw[y].left /\ osw'[y].pid = osw[y].pid
                                     /\ ~ osw'[y].stale
        BY <3>5, Zenon DEF DispatchInv
      <4>4. \A y \in Routine \ {x} : osw[y].left > 0 => osw[y].pid # p
        BY <2>4, Zenon
      <4>5. \A y \in Routine \ {x} : osw[y].left > 0 => osw[y].pid # osw'[x].pid
        BY <3>4, <4>4, Zenon
      <4>6. \/ chain' = chain
            \/ \E c \in Coroutine : chain' = ResumeOn(chain, c) /\ osw[c].want = p
        BY <3>1, <4>2, Zenon
      <4>7. pc' = pc /\ loop' = loop /\ Dispatching(x) /\ p \in Pid \cup {NULL}
        BY <2>2, <2>6, Zenon
      <4>8. \A q \in Pid : kid[q] = "gone" => kid'[q] = "gone"
        BY <2>4
      <4> QED
        BY <3>2, <4>1, <4>3, <4>4, <4>5, <4>6, <4>7, <4>8, <1>OthersTold, Zenon
    <3>7. TellsRight(x)'
      <4>1. /\ task'[p].count \in Nat /\ osw'[x].left \in Nat
            /\ task'[p].count >= osw'[x].left /\ task'[p].count + 1 >= osw'[x].left
        BY <2>5, <3>2, <3>4 DEF Task
      <4>2. IF x = Scheduler THEN loop' = InSigchld ELSE pc'[x] = "os_dispatch"
        BY <2>2, <2>6, SchedulerAssumption, Zenon DEF Dispatching, At, LoopAt, Routine
      <4>3. \A y \in Routine \ {x} : osw'[y].left > 0 => osw'[y].pid # p
        BY <2>4, <3>5, Zenon
      <4> QED
        BY <2>4, <3>4, <4>1, <4>2, <4>3, ZenonT(30) DEF TellsRight
    <3> QED
      BY <3>4, <3>6, <3>7, ZenonT(30)
  <2>7. CASE /\ list # << >> /\ chain' = ResumeOn(chain, Head(list)) /\ task' = task /\ pc' = pc
             /\ osw' = [osw EXCEPT ![Head(list)].told = p, ![Head(list)].status = Status(p)]
    <3>1. PICK h \in Coroutine : h = Head(list) /\ osw[h].want = NULL /\ pc[h] = "os_wait"
      <4>1. Head(list) \in OnChain(list)
        BY <2>7 DEF OsInv, ListExact, OnChain
      <4> QED
        BY <4>1, Zenon DEF OsInv, ListExact, WaitingFor
    <3>2. osw' = [osw EXCEPT ![h].told = p, ![h].status = Status(p)] /\ osw[h] \in Frame
      BY <2>5, <2>7, <3>1, Zenon
    <3>3. osw'[h] = [osw[h] EXCEPT !.told = p, !.status = Status(p)]
      BY <2>5, <3>2, Zenon
    <3>a. osw'[h].left = osw[h].left /\ osw'[h].pid = osw[h].pid
      BY <3>2, <3>3, ZenonT(30) DEF Frame
    <3>b. \A y \in Routine : ~ osw[y].stale
      BY DEF DispatchInv
    <3>4. ~ osw'[h].stale /\ osw'[h].want = osw[h].want
      BY <2>5, <3>2, <3>3, <3>b DEF Frame
    <3>5. \A y \in Routine : /\ osw'[y].left = osw[y].left /\ osw'[y].pid = osw[y].pid
                             /\ ~ osw'[y].stale /\ osw'[y].want = osw[y].want
      BY <2>5, <3>2, <3>a, <3>b, <3>4, Zenon
    <3>6. \A c \in Coroutine : osw'[c].want = osw[c].want
      BY <2>5, <3>5, Zenon
    <3>7. \A y \in Routine \ {x} : osw[y].left > 0 => osw[y].pid # NULL
      BY <2>4, <2>5, Zenon
    <3>8. ~ (osw'[x].left > 0) /\ ~ osw'[x].stale
      BY <2>2, <3>5, NoneLeft, Zenon
    <3>9. \A y \in Routine \ {x} : ~ osw'[y].stale /\ (osw'[y].left > 0 => TellsRight(y)')
      <4>1. \/ chain' = chain
            \/ \E c \in Coroutine : chain' = ResumeOn(chain, c) /\ osw[c].want = NULL
        BY <2>7, <3>1, Zenon
      <4>2. /\ pc' = pc /\ loop' = loop /\ Dispatching(x) /\ NULL \in Pid \cup {NULL}
            /\ \A q \in Pid : task'[q].count = task[q].count
        BY <2>2, <2>7, Zenon
      <4>3. \A q \in Pid : kid[q] = "gone" => kid'[q] = "gone"
        BY <2>4
      <4>4. \A y \in Routine \ {x} : /\ osw'[y].left = osw[y].left /\ osw'[y].pid = osw[y].pid
                                     /\ ~ osw'[y].stale
        BY <3>5, Zenon
      <4> QED
        BY <3>6, <3>7, <3>8, <4>1, <4>2, <4>3, <4>4, <1>OthersTold, ZenonT(30)
    <3> QED
      BY <3>8, <3>9, Zenon
  <2>8. CASE /\ osw' = [osw EXCEPT ![x].new = osw[x].new + 1]
             /\ chain' = chain /\ task' = task /\ pc' = pc
    <3>1. osw'[x] = [osw[x] EXCEPT !.new = osw[x].new + 1]
      BY <2>5, <2>8, Zenon
    <3>2. osw'[x].left = 0 /\ ~ osw'[x].stale /\ osw'[x].want = osw[x].want
      BY <2>2, <2>5, <3>1, Zenon DEF Frame
    <3>3. \A y \in Routine \ {x} : osw'[y] = osw[y]
      BY <2>5, <2>8, Zenon
    <3>4. \A c \in Coroutine : osw'[c].want = osw[c].want
      BY <2>5, <3>2, <3>3, Zenon
    <3>5. \A y \in Routine \ {x} : osw[y].left > 0 => osw[y].pid # p
      BY <2>4, Zenon
    <3>6. \A y \in Routine \ {x} : ~ osw'[y].stale /\ (osw'[y].left > 0 => TellsRight(y)')
      <4>1. \A y \in Routine \ {x} : /\ osw'[y].left = osw[y].left /\ osw'[y].pid = osw[y].pid
                                     /\ ~ osw'[y].stale
        BY <3>3, Zenon DEF DispatchInv
      <4> QED
        BY <2>2, <2>4, <2>8, <3>2, <3>4, <3>5, <4>1, <1>OthersTold
    <3> QED
      BY <3>2, <3>6
  <2> QED
    BY <2>1, <2>6, <2>7, <2>8, Zenon

\* The dispatcher goes on to the next of its waiters.
<1>GoesOnTells.
     ASSUME OsInv, OsInv', RunInv, DispatchInv, use \cap {"cancel", "stop"} = {},
            NEW x \in Routine, DispatchGoesOn(x)
     PROVE  \A y \in Routine : ~ osw'[y].stale /\ (osw'[y].left > 0 => TellsRight(y)')
  <2> USE <1>GoesOnTells
  <2>1. /\ Coroutine \subseteq Routine /\ osw[x] \in Frame /\ osw \in [Routine -> Frame]
        /\ \A q \in Pid : task[q] \in Task
    BY DEF OsInv, Routine
  <2>2. /\ Dispatching(x) /\ osw[x].left > 0 /\ ~ osw[x].stale /\ TellsRight(x)
        /\ loop' = loop /\ kid' = kid
    BY DEF DispatchGoesOn, Dispatching, DispatchInv
  <2>3. PICK p \in Pid : p = osw[x].pid /\ kid[p] = "gone"
    BY <2>2, Zenon DEF TellsRight
  <2>4. /\ task[p].count + 1 >= osw[x].left /\ task[p].count \in Nat /\ osw[x].left \in Nat
        /\ IF x = Scheduler THEN loop = InSigchld ELSE pc[x] = "os_dispatch"
        /\ \A y \in Routine \ {x} : osw[y].left > 0 => osw[y].pid # p
    BY <2>1, <2>2, <2>3, ZenonT(30) DEF TellsRight, Task, Frame
  <2>5. CASE osw' = [osw EXCEPT ![x].left = 0] /\ chain' = chain /\ pc' = pc /\ task' = task
    <3>1. osw'[x] = [osw[x] EXCEPT !.left = 0]
      BY <2>1, <2>5, Zenon
    <3>2. osw'[x].left = 0 /\ ~ osw'[x].stale /\ osw'[x].want = osw[x].want
      BY <2>1, <2>2, <3>1, Zenon DEF Frame
    <3>3. \A y \in Routine \ {x} : osw'[y] = osw[y]
      BY <2>1, <2>5, Zenon
    <3>4. \A c \in Coroutine : osw'[c].want = osw[c].want
      BY <2>1, <3>2, <3>3, ZenonT(30)
    <3>5. \A y \in Routine \ {x} : /\ osw'[y].left = osw[y].left /\ osw'[y].pid = osw[y].pid
                                   /\ ~ osw'[y].stale
      BY <3>3, ZenonT(30) DEF DispatchInv
    <3>6. \A y \in Routine \ {x} : ~ osw'[y].stale /\ (osw'[y].left > 0 => TellsRight(y)')
      BY <2>2, <2>4, <2>5, <3>2, <3>4, <3>5, <1>OthersTold
    <3> QED
      BY <3>2, <3>6
  <2>6. CASE /\ task[p].waiters # << >> /\ osw[x].left # 1
             /\ task' = [task EXCEPT ![p].status = osw[x].status]
             /\ osw' = [osw EXCEPT ![x].pid = p, ![x].status = osw[x].status,
                                   ![x].left = osw[x].left - 1]
             /\ chain' = ResumeOn(chain, Head(task[p].waiters)) /\ pc' = pc
    <3>1. PICK h \in Coroutine : h = Head(task[p].waiters) /\ osw[h].want = p /\ pc[h] = "os_wait"
      <4>1. task[p].waiters # << >> /\ task[p].waiters \in Seq(Coroutine)
        BY <2>6, Zenon DEF OsInv, TaskExact, Task
      <4>2. Head(task[p].waiters) \in OnChain(task[p].waiters)
        BY <4>1 DEF OnChain
      <4>3. OnChain(task[p].waiters) = WaitingFor(p)
        BY Zenon DEF OsInv, TaskExact
      <4> QED
        BY <4>2, <4>3, ZenonT(30) DEF WaitingFor
    <3>2. \A q \in Pid : task'[q].count = task[q].count
      BY <2>1, <2>6 DEF OsInv, Task
    <3>3. osw'[x] = [osw[x] EXCEPT !.pid = p, !.status = osw[x].status, !.left = osw[x].left - 1]
      BY <2>1, <2>6, Zenon
    <3>4. osw'[x].pid = p /\ osw'[x].left = osw[x].left - 1
      BY <2>1, <3>3, Zenon DEF Frame
    <3>5. ~ osw'[x].stale /\ osw'[x].want = osw[x].want
      BY <2>1, <2>2, <3>3, Zenon DEF Frame
    <3>6. \A y \in Routine \ {x} : osw'[y] = osw[y]
      BY <2>1, <2>6
    <3>7. \A y \in Routine \ {x} : ~ osw'[y].stale /\ (osw'[y].left > 0 => TellsRight(y)')
      <4>1. \A c \in Coroutine : osw'[c].want = osw[c].want
        BY <2>1, <3>5, <3>6, Zenon
      <4>2. \A y \in Routine \ {x} : /\ osw'[y].left = osw[y].left /\ osw'[y].pid = osw[y].pid
                                     /\ ~ osw'[y].stale
        BY <3>6, ZenonT(30) DEF DispatchInv
      <4>3. \A y \in Routine \ {x} : osw[y].left > 0 => osw[y].pid # osw'[x].pid
        BY <2>4, <3>4, Zenon
      <4>4. \/ chain' = chain
            \/ \E c \in Coroutine : chain' = ResumeOn(chain, c) /\ osw[c].want = p
        BY <2>6, <3>1
      <4>5. pc' = pc /\ loop' = loop /\ Dispatching(x) /\ p \in Pid \cup {NULL}
        BY <2>2, <2>6
      <4> QED
        BY <2>2, <2>4, <3>2, <4>1, <4>2, <4>3, <4>4, <4>5, <1>OthersTold, ZenonT(30)
    <3>8. TellsRight(x)'
      <4>1. /\ task'[p].count >= osw'[x].left /\ task'[p].count + 1 >= osw'[x].left
        BY <2>4, <3>2, <3>4
      <4>2. \A y \in Routine \ {x} : osw'[y].left > 0 => osw'[y].pid # p
        BY <2>4, <3>6, Zenon
      <4> QED
        BY <2>2, <2>3, <2>4, <2>6, <3>4, <4>1, <4>2, ZenonT(30) DEF TellsRight
    <3> QED
      BY <3>5, <3>7, <3>8, Zenon
  <2> QED
    BY <2>3, <2>5, <2>6, Zenon DEF DispatchGoesOn, NotifyOne, Schedule

\* A dispatcher that has nothing more to do has nobody to tell.
<1>DoneTells.
     ASSUME OsInv, OsInv', RunInv, DispatchInv, use \cap {"cancel", "stop"} = {},
            NEW x \in Routine, DispatchDone(x)
     PROVE  \A y \in Routine : ~ osw'[y].stale /\ (osw'[y].left > 0 => TellsRight(y)')
  <2> USE <1>DoneTells
  <2>1. /\ Coroutine \subseteq Routine /\ osw[x] \in Frame /\ osw \in [Routine -> Frame]
        /\ \A q \in Pid : task[q] \in Task
    BY DEF OsInv, Routine
  <2>2. Dispatching(x) /\ osw[x].left = 0 /\ ~ osw[x].stale
    BY Zenon DEF DispatchDone, Dispatching
  <2>3. \A y \in Routine : ~ osw[y].stale /\ (osw[y].left > 0 => y # x /\ TellsRight(y))
    BY <2>2, NoneLeft, Zenon DEF DispatchInv
  <2>4. CASE /\ x = Scheduler /\ loop' = 0 /\ osw' = [osw EXCEPT ![x] = NoFrame]
             /\ chain' = chain /\ pc' = pc /\ kid' = kid /\ task' = task
    <3>1. osw'[x].left = 0 /\ ~ osw'[x].stale /\ \A y \in Routine \ {x} : osw'[y] = osw[y]
      BY <2>1, <2>4, ZenonT(30) DEF NoFrame
    <3>2. \A c \in Coroutine : osw'[c] = osw[c]
      BY <2>4, <3>1, SchedulerAssumption, Zenon DEF Routine
    <3>3. \A c \in Coroutine : At(c, "os_wait")' => At(c, "os_wait")
      BY <2>4 DEF At
    <3>4. ASSUME NEW y \in Routine \ {x}, osw[y].left > 0 PROVE TellsRight(y)'
      <4>1. TellsRight(y) /\ y # Scheduler /\ osw'[y] = osw[y]
        BY <2>3, <2>4, <3>1, <3>4, Zenon
      <4>2. PICK p \in Pid : p = osw[y].pid
        BY <4>1 DEF TellsRight
      <4>3. \A z \in Routine \ {y} : osw'[z].left > 0 => osw'[z].pid # p
        <5>1. \A z \in Routine \ {y} : osw[z].left > 0 => osw[z].pid # p
          BY <4>1, <4>2, ZenonT(30) DEF TellsRight
        <5>2. ~ (osw'[x].left > 0)
          BY <3>1
        <5> QED
          BY <3>1, <5>1, <5>2, Zenon
      <4>4. \A c \in Coroutine : At(c, "os_wait")' /\ osw'[c].want = p => task[p].count >= osw[y].left
        BY <3>2, <3>3, <4>1, <4>2, ZenonT(30) DEF TellsRight
      <4>5. kid[p] = "gone" /\ pc[y] = "os_dispatch" /\ task[p].count + 1 >= osw[y].left
        BY <4>1, <4>2, Zenon DEF TellsRight
      <4> QED
        BY <2>4, <4>1, <4>2, <4>3, <4>4, <4>5, ZenonT(30) DEF TellsRight
    <3> QED
      BY <2>3, <3>1, <3>4
  <2>5. CASE /\ x \in Coroutine /\ pc' = [pc EXCEPT ![x] = "os_check"]
             /\ chain' = chain /\ loop' = loop /\ oswait' = oswait
    <3>1. osw' = osw /\ kid' = kid /\ task' = task
      BY <2>5, Zenon DEF oswait
    <3>2. \A c \in Coroutine : At(c, "os_wait")' => At(c, "os_wait")
      BY <2>5, Zenon DEF At, RunInv
    <3>3. \A y \in Coroutine \ {x} : pc'[y] = pc[y]
      BY <2>5 DEF RunInv
    <3>4. ASSUME NEW y \in Routine \ {x}, osw[y].left > 0 PROVE TellsRight(y)'
      BY <2>1, <2>3, <2>5, <3>1, <3>2, <3>3, <3>4, SchedulerAssumption, ZenonT(30)
         DEF TellsRight, Routine
    <3> QED
      BY <2>2, <2>3, <3>1, <3>4, ZenonT(30)
  <2>6. CASE x \in Coroutine /\ JoinWaiters(x)
    <3>1. /\ osw' = osw /\ kid' = kid /\ loop' = loop /\ cat_time_wait(x, "os_wait", TRUE)
      BY <2>6, Zenon DEF JoinWaiters
    <3>2. chain' = YieldOn(chain) /\ pc' = [pc EXCEPT ![x] = "os_wait"]
      BY <3>1, Zenon DEF cat_time_wait
    <3>3. \A c \in Coroutine : ~ At(c, "os_wait")'
      <4>1. Running(chain) = x
        BY <2>2, <2>6, SchedulerAssumption, ZenonT(30) DEF Dispatching, At
      <4>2. \A c \in Coroutine : Running(chain') = c => pc[c] \notin Waits /\ c # x
        BY <2>6, <3>2, <4>1, <1>YieldWakesNone, Zenon
      <4> QED
        BY <3>2, <4>2, Zenon DEF At, RunInv, Waits
    <3>4. \A y \in Coroutine \ {x} : pc'[y] = pc[y]
      BY <3>2, Zenon DEF RunInv
    <3>5. \A q \in Pid : task'[q].count \in Nat /\ task'[q].count >= task[q].count
      <4>1. \A q \in Pid : task[q].count \in Nat
        BY <2>1, Zenon DEF Task
      <4>2. CASE osw[x].want = NULL
        <5>1. task' = task
          BY <2>6, <4>2, Zenon DEF JoinWaiters
        <5> QED
          BY <4>1, <5>1
      <4>3. CASE osw[x].want # NULL
        <5>1. PICK want \in Pid : want = osw[x].want
          BY <2>1, <4>3 DEF Frame
        <5>2. task' = [task EXCEPT ![want] = [task[want] EXCEPT
                         !.mem = TRUE, !.count = task[want].count + 1,
                         !.waiters = Append(task[want].waiters, x)]]
          BY <2>6, <4>3, <5>1, Zenon DEF JoinWaiters
        <5>3. \A q \in Pid \ {want} : task'[q] = task[q]
          BY <5>2 DEF OsInv
        <5>4. task'[want].count = task[want].count + 1
          BY <2>1, <5>2 DEF OsInv, Task
        <5> QED
          BY <4>1, <5>3, <5>4
      <4> QED
        BY <4>2, <4>3, Zenon
    <3>6. ASSUME NEW y \in Routine \ {x}, osw[y].left > 0 PROVE TellsRight(y)'
      <4>1. TellsRight(y) /\ osw[y].left \in Nat /\ y # x
        BY <2>1, <2>3, <3>6, Zenon DEF Frame
      <4>2. PICK p \in Pid : p = osw[y].pid
        BY <4>1 DEF TellsRight
      <4>3. /\ kid[p] = "gone" /\ task[p].count + 1 >= osw[y].left
            /\ IF y = Scheduler THEN loop = InSigchld ELSE pc[y] = "os_dispatch"
            /\ \A z \in Routine \ {y} : osw[z].left > 0 => osw[z].pid # p
        BY <4>1, <4>2, ZenonT(30) DEF TellsRight
      <4>4. task'[p].count + 1 >= osw[y].left
        <5>1. task[p].count \in Nat /\ task'[p].count \in Nat /\ task'[p].count >= task[p].count
          BY <2>1, <3>5, Zenon DEF Task
        <5> QED
          BY <4>1, <4>3, <5>1, SlackGrows, Zenon
      <4>5. y # Scheduler => pc'[y] = pc[y]
        BY <3>4, <4>1, Zenon DEF Routine
      <4> QED
        BY <3>1, <3>3, <4>2, <4>3, <4>4, <4>5, ZenonT(30) DEF TellsRight
    <3> QED
      BY <2>3, <2>2, <3>1, <3>6, ZenonT(30)
  <2> QED
    BY <2>4, <2>5, <2>6, ZenonT(30) DEF DispatchDone

<1>0. OsInv /\ OsInv'
  BY DEF WaitsInv
<1>1. CASE UNCHANGED vars
  <2>1. /\ osw' = osw /\ kid' = kid /\ task' = task /\ chain' = chain /\ pc' = pc
        /\ loop' = loop /\ use' = use
    BY <1>1 DEF vars, waiting, oswait
  <2> QED
    BY <2>1, ZenonT(30) DEF DispatchInv, TellsRight, At
<1>2. CASE Next /\ ~ OsWaitStep
  BY <1>2, <1>OthersKeepDispatch, Zenon
<1>3. CASE Next /\ OsWaitStep
  <2>0. use' = use
    BY <1>3 DEF Next
  <2> SUFFICES ASSUME use \cap {"cancel", "stop"} = {}
               PROVE  \A y \in Routine : ~ osw'[y].stale /\ (osw'[y].left > 0 => TellsRight(y)')
    BY <2>0, Zenon DEF DispatchInv
  <2>1. ASSUME NEW x \in Routine, cat_os_wait_dispatch(x) \/ DispatchGoesOn(x) \/ DispatchDone(x)
        PROVE  \A y \in Routine : ~ osw'[y].stale /\ (osw'[y].left > 0 => TellsRight(y)')
    BY <1>0, <2>1, <1>DispatchTells, <1>GoesOnTells, <1>DoneTells, ZenonT(30)
  <2>2. CASE cat_os_wait_sigchld_handler
    <3>1. /\ Running(chain) = Scheduler /\ loop = 0 /\ chain' = chain /\ pc' = pc /\ kid' = kid
          /\ task' = task /\ osw' = osw
      BY <2>2 DEF cat_os_wait_sigchld_handler, LoopIdle
    <3>2. loop # InSigchld
      BY <3>1, IdleNotInSigchld, Zenon
    <3>3. \A y \in Routine : ~ (osw[y].left > 0)
      BY <3>1, <3>2, <1>TellerRuns, Zenon
    <3>4. \A y \in Routine : ~ osw[y].stale
      BY DEF DispatchInv
    <3> QED
      BY <3>1, <3>3, <3>4, ZenonT(30)
  <2>3. ASSUME NEW c \in Coroutine, OsWaitNext(c)
        PROVE  \A y \in Routine : ~ osw'[y].stale /\ (osw'[y].left > 0 => TellsRight(y)')
    <3>1. CASE OsWaited(c)
      BY <1>0, <3>1, <1>OsWaitedTells, Zenon
    <3>2. CASE (\E want \in Pid \cup {NULL} : cat_os__wait_wrapper(c, want)) \/ cat_os__wait(c)
      BY <1>0, <3>2, <1>CheckTells
    <3> QED
      BY <2>3, <3>1, <3>2, ZenonT(30) DEF OsWaitNext
  <2>4. ASSUME NEW p \in Pid, KidExits(p)
        PROVE  \A y \in Routine : ~ osw'[y].stale /\ (osw'[y].left > 0 => TellsRight(y)')
    <3>1. /\ kid[p] # "gone" /\ kid' = [kid EXCEPT ![p] = "zombie"]
          /\ chain' = chain /\ pc' = pc /\ loop' = loop /\ task' = task /\ osw' = osw
      BY <2>4 DEF KidExits, KidChanges, waiting
    <3>2. \A q \in Pid : kid[q] = "gone" => kid'[q] = "gone"
      BY <3>1 DEF ExitInv
    <3> QED
      BY <3>1, <3>2, ZenonT(30) DEF DispatchInv, TellsRight, At
  <2> QED
    BY <1>3, <2>1, <2>2, <2>3, <2>4, Zenon DEF OsWaitStep, DispatchNext
<1> QED
  BY <1>1, <1>2, <1>3, Zenon

\* The invariant of the exits.
WaitInv == WatchInv /\ SigchldInv /\ ExitInv /\ DispatchInv

\* It holds always.
LEMMA WaitInvariant == Spec => [](WaitsInv /\ RunInv /\ WaitInv)
<1>1. Init => WaitInv
  <2> SUFFICES ASSUME Init PROVE WaitInv
    OBVIOUS
  <2>1. PICK kids \in SUBSET Pid : OsWaitInit(kids)
    BY DEF Init
  <2>2. \A c \in Coroutine : pc[c] = "user"
    BY Zenon DEF Init, TimeInit
  <2>3. InWait = {}
    BY <2>2 DEF InWait, OsWaitPlaces
  <2>4. WatchInv
    BY <2>1, <2>3, FS_EmptySet, Zenon DEF WatchInv, OsWaitInit
  <2>5. SigchldInv
    BY <2>2 DEF SigchldInv
  <2>6. ExitInv
    BY <2>1, Zenon DEF ExitInv, OsWaitInit
  <2>7. DispatchInv
    BY <2>1 DEF DispatchInv, OsWaitInit, NoFrame
  <2> QED
    BY <2>4, <2>5, <2>6, <2>7, Zenon DEF WaitInv
<1>2. /\ WaitsInv /\ RunInv /\ (WaitsInv /\ RunInv)' /\ WaitInv /\ [Next]_vars
      => WaitInv'
  <2> SUFFICES ASSUME WaitsInv, RunInv, WaitsInv', WaitInv, [Next]_vars PROVE WaitInv'
    OBVIOUS
  <2>1. Base /\ WatchInv /\ SigchldInv /\ ExitInv /\ DispatchInv
    BY DEF WaitInv, WaitsInv, OsInv
  <2>2. WatchInv'
    BY <2>1, WatchKept
  <2> QED
    BY <2>1, <2>2, SigchldKept, ExitInvKept, DispatchInvKept, Zenon DEF WaitInv
<1> QED
  BY <1>1, <1>2, CountingHolds, RunInvariant, PTL DEF Spec

\* No exit of a child is lost: a SIGCHLD that somebody waits for will be looked at, an
\* exit that wait4() has returned is saved, in the hands of the coroutine that is being
\* woken for it, or reported, as long as no child stops; and then a dispatcher never
\* looks at a freed task, as long as no wait is cancelled (src/cat_os_wait.c).
THEOREM ExitsCorrect == Spec => []ExitsReported
<1>1. WaitsInv /\ RunInv /\ WaitInv => ExitsReported
  <2> SUFFICES ASSUME WaitsInv, RunInv, WaitInv PROVE ExitsReported
    OBVIOUS
  <2>1. TypeOK
    <3>1. watchers = Cardinality({ c \in Coroutine : pc[c] \in OsWaitPlaces })
      BY Zenon DEF WaitInv, WatchInv, InWait
    <3>2. TimeTypeOK({"user", "poll", "process", "signal", "wait_group"} \cup OsWaitPlaces,
                     {0, InIo, InCheck, InSigchld} \cup { InExit(p) : p \in Process })
      <4>1. chain[1] = Scheduler /\ OnChain(chain) \subseteq Routine
        BY RunningOnChain DEF RunInv, RunChain
      <4>2. /\ {"user", "poll", "process", "signal", "wait_group"} \cup OsWaitPlaces = Places
            /\ "user" \notin Waits
        BY DEF Places, Waits, OsWaitPlaces
      <4> QED
        BY <4>1, <4>2, Zenon DEF RunInv, TimeTypeOK, Callbacks
    <3> QED
      BY <3>1, <3>2, Zenon DEF TypeOK
  <2>2. SigchldNotMissed
    BY ZenonT(30) DEF WaitInv, SigchldInv, SigchldNotMissed, Parked
  <2>3. "stop" \notin use => ExitKept
    BY DEF WaitInv, ExitInv, ExitKept, InHand
  <2>4. use \cap {"cancel", "stop"} = {} => DispatchSafe
    BY Zenon DEF WaitInv, DispatchInv, DispatchSafe
  <2> QED
    BY <2>1, <2>2, <2>3, <2>4, Zenon DEF ExitsReported
<1> QED
  BY <1>1, WaitInvariant, PTL

=============================================================================
