------------------------ MODULE CatCoroutine_proofs ------------------------
(***************************************************************************)
(* The invariants of CatCoroutine hold for any finite set of coroutines.   *)
(*                                                                         *)
(* The links are not inductive as LinksSound states them: that a yield     *)
(* with no previous coroutine may go to the scheduler needs that the       *)
(* scheduler is not linked, a fact about the whole list.  Positions says   *)
(* it: every coroutine has a place in the list, zero off it, and the       *)
(* current coroutine has the last one.                                     *)
(*                                                                         *)
(* Closing is proved from the same invariant, for programs where only the  *)
(* main coroutine calls wait_all() and freed memory reads as zero.         *)
(***************************************************************************)
EXTENDS FiniteSetTheorems, CatCoroutine, CoroutineChain_proofs

\* pos[c] is the place of c in the run chain, zero when c is not on it.
Positions(pos) ==
  /\ pos \in [Routine -> Nat]
  /\ pos[current] > 0 /\ next[current] = NULL
  /\ \A c \in Routine : pos[c] =< pos[current]
  /\ \A c, d \in Routine : pos[c] = pos[d] /\ pos[c] > 0 => c = d
  /\ \A c \in Routine :
       /\ pos[c] = 0 => previous[c] = NULL /\ next[c] = NULL
       /\ pos[c] = 1 => previous[c] = NULL
       /\ pos[c] > 1 => previous[c] \in Routine /\ pos[previous[c]] = pos[c] - 1
       /\ pos[c] > 0 /\ c # current =>
            next[c] \in Routine /\ pos[next[c]] = pos[c] + 1

Linked == \E pos \in [Routine -> Nat] : Positions(pos)

\* Where each kind of coroutine can stand.
LegalCont(c) ==
  IF c = Scheduler THEN {"none", "init", "top", "loop", "callback", "notify",
                         "deadlock", "fault"}
  ELSE IF c = Main THEN {"user", "schedule", "wait_all", "close_wait",
                         "close_sched", "shutdown", "down", "fault"}
  ELSE {"none", "new", "user", "schedule", "wait_all", "fault"}

\* Where a coroutine cannot stand while it runs.
NotRunning == {"none", "new", "schedule", "callback", "init"}

\* The places inside schedule(), where the SCHEDULING bit is set.
InSchedule == {"schedule", "callback", "close_sched", "notify", "shutdown"}

\* How state, links and place of a coroutine go together.
Control ==
  /\ \A c \in Routine : cont[c] \in LegalCont(c)
  /\ cont[current] \notin NotRunning
  /\ \A c \in Routine : cont[c] = "none" <=> state[c] = "NONE"
  /\ \A c \in Routine : cont[c] = "new" => state[c] = "WAITING"
  /\ \A c \in Routine : state[c] = "DEAD" => c = current /\ cont[c] = "fault"
  /\ \A c \in Routine : cont[c] \in {"none", "new"} \/ state[c] = "DEAD" =>
                          previous[c] = NULL /\ next[c] = NULL
  /\ scheduler = IF state[Scheduler] \in {"WAITING", "RUNNING"}
                 THEN Scheduler ELSE NULL

CoreType ==
  /\ current \in Routine
  /\ scheduler \in {NULL, Scheduler}
  /\ state \in [Routine -> {"NONE", "WAITING", "RUNNING", "DEAD"}]
  /\ previous \in [Routine -> Routine \cup {NULL}]
  /\ next \in [Routine -> Routine \cup {NULL}]
  /\ from \in [Routine -> Routine \cup {NULL}]
  /\ scheduling \in [Routine -> BOOLEAN]
  /\ cont \in [Routine -> Conts]
  /\ armed \subseteq Coroutine

\* The part of the inductive invariant that is about switching.
Core ==
  /\ CoreType
  /\ Control
  /\ OneRunning
  /\ SchedulingExact
  /\ ArmedParked
  /\ Linked

\* The part that is about counting and waiting.
Counting ==
  /\ count \in Nat /\ waiter_count \in Nat /\ notify_left \in Nat
  /\ last_chance \in BOOLEAN
  /\ waiters \in Seq(Coroutine)
  /\ CountExact
  /\ WaitersExact

IInv == Core /\ Counting
-----------------------------------------------------------------------------
(* Lemmas *)

\* A coroutine the control comes back to stands at a legal place of its own.
LEMMA LandingLegal ==
  ASSUME NEW c \in Routine, NEW k \in LegalCont(c) \ {"none"}
  PROVE  Landing(k) \in LegalCont(c) \ NotRunning
  BY DEF Landing, LegalCont, NotRunning

\* Every place a coroutine may stand at is one of cont's values.
LEMMA LegalConts == \A c \in Routine : LegalCont(c) \subseteq Conts
  BY DEF LegalCont, Conts

\* LinksSound follows from the places.
LEMMA LinkedSound == Core => LinksSound
<1> SUFFICES ASSUME Core PROVE LinksSound
  OBVIOUS
<1> USE NullAssumption
<1>1. PICK pos \in [Routine -> Nat] : Positions(pos)
  BY DEF Core, Linked
<1>2. ASSUME NEW c \in Routine, previous[c] # NULL
      PROVE  next[previous[c]] = c
  <2>1. pos[c] > 1 /\ previous[c] \in Routine /\ pos[previous[c]] = pos[c] - 1
    BY <1>1, <1>2 DEF Positions
  <2>2. previous[c] # current
    BY <1>1, <2>1 DEF Positions, Core, CoreType
  <2>3. next[previous[c]] \in Routine /\ pos[next[previous[c]]] = pos[c]
    BY <1>1, <2>1, <2>2 DEF Positions
  <2> QED
    BY <1>1, <2>1, <2>3 DEF Positions
<1>3. ASSUME NEW c \in Routine, next[c] # NULL
      PROVE  previous[next[c]] = c
  <2>1. pos[c] > 0 /\ c # current
    BY <1>1, <1>3 DEF Positions
  <2>2. next[c] \in Routine /\ pos[next[c]] = pos[c] + 1
    BY <1>1, <2>1 DEF Positions
  <2>3. previous[next[c]] \in Routine /\ pos[previous[next[c]]] = pos[c]
    BY <1>1, <2>1, <2>2 DEF Positions
  <2> QED
    BY <1>1, <2>1, <2>3 DEF Positions
<1>4. ASSUME NEW c \in Routine, previous[c] # NULL \/ next[c] # NULL
      PROVE  state[c] \in {"RUNNING", "WAITING"} /\ cont[c] # "new"
  BY <1>4 DEF Core, Control, CoreType
<1> QED
  BY <1>1, <1>2, <1>3, <1>4 DEF LinksSound, Positions

\* Yielding keeps the chain: the current coroutine leaves the last place.
LEMMA UnlinkKeepsLinked ==
  ASSUME Core, CanYield, Unlink(YieldTarget), current' = YieldTarget
  PROVE  /\ Linked'
         /\ YieldTarget \in Routine \ {current}
         /\ cont[YieldTarget] \notin {"none", "new"}
         /\ state[YieldTarget] # "DEAD"
<1> USE NullAssumption
<1> DEFINE t == YieldTarget
<1>1. PICK pos \in [Routine -> Nat] : Positions(pos)
  BY DEF Core, Linked
<1>2. t \in Routine \ {current}
  BY DEF Core, CoreType, CanYield, YieldTarget, Routine
<1>3. current \in Routine /\ pos[current] \in Nat /\ pos[t] \in Nat
  BY <1>1, <1>2 DEF Core, CoreType
<1>4. CASE previous[current] # NULL
  <2>1. pos[current] > 1 /\ t = previous[current] /\ pos[t] = pos[current] - 1
    BY <1>1, <1>3, <1>4 DEF Positions, YieldTarget
  <2>2. next[t] # NULL
    BY <1>1, <1>2, <1>3, <2>1 DEF Positions
  <2>3. PICK q \in [Routine -> Nat] : q = [pos EXCEPT ![current] = 0]
    BY <1>1, Zenon
  <2>4. Positions(q)'
    <3>1. q[t] > 0 /\ next'[t] = NULL
      BY <1>2, <1>3, <2>1, <2>3 DEF Unlink, Core, CoreType
    <3>2. \A c \in Routine : q[c] =< q[t]
      BY <1>1, <1>2, <1>3, <2>1, <2>3 DEF Positions
    <3>3. \A c, d \in Routine : q[c] = q[d] /\ q[c] > 0 => c = d
      BY <1>1, <1>2, <1>3, <2>3 DEF Positions
    <3>4. ASSUME NEW c \in Routine, q[c] = 0
          PROVE  previous'[c] = NULL /\ next'[c] = NULL
      BY <1>1, <1>2, <1>3, <2>1, <2>3, <3>4 DEF Positions, Unlink, Core, CoreType
    <3>5. ASSUME NEW c \in Routine, q[c] = 1
          PROVE  previous'[c] = NULL
      BY <1>1, <1>2, <1>3, <2>3, <3>5 DEF Positions, Unlink, Core, CoreType
    <3>6. ASSUME NEW c \in Routine, q[c] > 1
          PROVE  previous'[c] \in Routine /\ q[previous'[c]] = q[c] - 1
      BY <1>1, <1>2, <1>3, <2>3, <3>6 DEF Positions, Unlink, Core, CoreType
    <3>7. ASSUME NEW c \in Routine, q[c] > 0, c # t
          PROVE  next'[c] \in Routine /\ q[next'[c]] = q[c] + 1
      BY <1>1, <1>2, <1>3, <2>1, <2>3, <3>7 DEF Positions, Unlink, Core, CoreType
    <3> QED
      BY <3>1, <3>2, <3>3, <3>4, <3>5, <3>6, <3>7 DEF Positions
  <2> QED
    BY <1>2, <2>2, <2>4 DEF Linked, Core, CoreType, Control
<1>5. CASE previous[current] = NULL
  <2>1. pos[current] = 1 /\ t = Scheduler /\ scheduler = Scheduler
    BY <1>1, <1>3, <1>5 DEF Positions, YieldTarget, CanYield, Core, CoreType
  <2>2. \A c \in Routine \ {current} : pos[c] = 0
    BY <1>1, <1>3, <2>1 DEF Positions
  <2>3. PICK q \in [Routine -> Nat] : q = [c \in Routine |-> IF c = t THEN 1 ELSE 0]
    BY Zenon
  <2>4. \A c \in Routine : previous'[c] = NULL /\ next'[c] = NULL
    BY <1>1, <1>2, <1>3, <1>5, <2>2 DEF Positions, Unlink, Core, CoreType
  <2>5. Positions(q)'
    BY <1>2, <2>3, <2>4 DEF Positions
  <2>6. state[Scheduler] \in {"WAITING", "RUNNING"}
    BY <2>1, NullAssumption, <1>2 DEF Core, Control
  <2>7. cont[Scheduler] \notin {"none", "new"}
    BY <1>2, <2>1, <2>6 DEF Core, Control, LegalCont
  <2> QED
    BY <1>2, <2>1, <2>5, <2>6, <2>7 DEF Linked
<1> QED
  BY <1>4, <1>5

\* runtime_init() establishes the core: main alone on the list.
LEMMA InitCore == Init => Core
<1> SUFFICES ASSUME Init PROVE Core
  OBVIOUS
<1> USE MainAssumption, SchedulerAssumption, NullAssumption DEF Init, Routine
<1>1. CoreType
  BY DEF CoreType, Conts
<1>2. Control
  BY DEF Control, LegalCont, NotRunning
<1>3. OneRunning /\ SchedulingExact /\ ArmedParked
  BY DEF OneRunning, SchedulingExact, ArmedParked
<1>4. Linked
  <2>1. PICK q \in [Routine -> Nat] : q = [c \in Routine |-> IF c = Main THEN 1 ELSE 0]
    BY Zenon
  <2>2. \A c \in Routine : q[c] = 1 <=> c = current
    BY <2>1
  <2>3. \A c \in Routine : q[c] \in {0, 1} /\ previous[c] = NULL /\ next[c] = NULL
    BY <2>1
  <2>4. current \in Routine
    OBVIOUS
  <2>5. Positions(q)
    BY ONLY <2>2, <2>3, <2>4, q \in [Routine -> Nat] DEF Positions
  <2> QED
    BY <2>5 DEF Linked
<1> QED
  BY <1>1, <1>2, <1>3, <1>4 DEF Core

-----------------------------------------------------------------------------
(* Every step keeps the switching part of the invariant *)

\* Every step keeps the core.
LEMMA NextCore == Core /\ Counting /\ [Next]_vars => Core'
\* Resuming keeps the chain: the target leaves its place, those behind it move
\* up, and it gets the last place.
<1>LinkKeepsLinked.
     ASSUME Core, NEW t \in Routine, t # current, Link(t), current' = t
     PROVE  Linked'
  <2> USE <1>LinkKeepsLinked
  <2> USE NullAssumption
  <2>1. PICK pos \in [Routine -> Nat] : Positions(pos)
    BY DEF Core, Linked
  <2> DEFINE last == IF pos[t] = 0 THEN pos[current] + 1 ELSE pos[current]
             new == [c \in Routine |->
                       IF c = t THEN last
                       ELSE IF pos[t] > 0 /\ pos[c] > pos[t] THEN pos[c] - 1
                       ELSE pos[c]]
  <2>2. current \in Routine /\ pos[current] \in Nat /\ pos[t] \in Nat
    BY <2>1 DEF Core, CoreType
  <2>3. new \in [Routine -> Nat]
    BY <2>1, <2>2
  <2>4. PICK q \in [Routine -> Nat] : q = new
    BY <2>3, Zenon
  <2>5. Positions(q)'
    <3>1. q[t] > 0 /\ next'[t] = NULL
      BY <2>1, <2>2, <2>4 DEF Positions, Link
    <3>2. \A c \in Routine : q[c] =< q[t]
      BY <2>1, <2>2, <2>4 DEF Positions
    <3>3. \A c, d \in Routine : q[c] = q[d] /\ q[c] > 0 => c = d
      BY <2>1, <2>2, <2>4 DEF Positions
    <3>4. ASSUME NEW c \in Routine, q[c] = 0
          PROVE  previous'[c] = NULL /\ next'[c] = NULL
      BY <2>1, <2>2, <2>4, <3>4 DEF Positions, Link
    <3>5. ASSUME NEW c \in Routine, q[c] = 1
          PROVE  previous'[c] = NULL
      <4>1. c # t
        BY <2>1, <2>2, <2>4, <3>5 DEF Positions
      <4>2. CASE c = next[t]
        <5>1. pos[t] > 0 /\ pos[c] = pos[t] + 1
          BY <2>1, <2>2, <4>2 DEF Positions
        <5>2. pos[t] = 1
          BY <2>2, <2>4, <3>5, <4>1, <5>1
        <5> QED
          BY <2>1, <4>1, <4>2, <5>2 DEF Positions, Link
      <4>3. CASE c # next[t]
        <5>1. CASE pos[t] > 0 /\ pos[c] > pos[t]
          <6>1. pos[c] = 2 /\ pos[t] = 1
            BY <2>2, <2>4, <3>5, <4>1, <5>1
          <6>2. next[t] \in Routine /\ pos[next[t]] = 2
            BY <2>1, <2>2, <6>1 DEF Positions
          <6> QED
            BY <2>1, <4>3, <6>1, <6>2 DEF Positions
        <5>2. CASE ~(pos[t] > 0 /\ pos[c] > pos[t])
          <6>1. pos[c] = 1
            BY <2>4, <3>5, <4>1, <5>2
          <6> QED
            BY <2>1, <4>1, <4>3, <6>1 DEF Positions, Link
        <5> QED
          BY <5>1, <5>2
      <4> QED
        BY <4>2, <4>3
    <3>6. ASSUME NEW c \in Routine, q[c] > 1
          PROVE  previous'[c] \in Routine /\ q[previous'[c]] = q[c] - 1
      <4>1. CASE c = t
        BY <2>1, <2>2, <2>4, <3>6, <4>1 DEF Positions, Link
      <4>2. CASE c # t /\ c = next[t]
        BY <2>1, <2>2, <2>4, <3>6, <4>2 DEF Positions, Link
      <4>3. CASE c # t /\ c # next[t]
        BY <2>1, <2>2, <2>4, <3>6, <4>3 DEF Positions, Link
      <4> QED
        BY <4>1, <4>2, <4>3, Zenon
    <3>7. ASSUME NEW c \in Routine, q[c] > 0, c # t
          PROVE  next'[c] \in Routine /\ q[next'[c]] = q[c] + 1
      <4>1. CASE c = current
        BY <2>1, <2>2, <2>4, <3>7, <4>1 DEF Positions, Link
      <4>2. CASE c # current /\ c = previous[t]
        BY <2>1, <2>2, <2>4, <3>7, <4>2 DEF Positions, Link
      <4>3. CASE c # current /\ c # previous[t]
        BY <2>1, <2>2, <2>4, <3>7, <4>3 DEF Positions, Link
      <4> QED
        BY <4>1, <4>2, <4>3, Zenon
    <3> QED
      BY <3>1, <3>2, <3>3, <3>4, <3>5, <3>6, <3>7, Zenon DEF Positions
  <2> QED
    BY <2>5 DEF Linked

\* A switch from the current coroutine, which stops at k, to t, whatever it does
\* to the links, keeps what does not concern them.
<1>JumpKeepsRest.
     ASSUME Core,
            NEW t \in Routine \ {current}, NEW k \in LegalCont(current) \ {"none", "new"},
            NEW flag \in BOOLEAN, NEW arm \in SUBSET {current},
            flag <=> k \in InSchedule,
            arm # {} => k \in {"user", "wait_all"} /\ current \in Coroutine,
            state[current] # "DEAD",
            cont[t] # "none", state[t] # "DEAD",
            Jump(t, k, flag, arm),
            previous' \in [Routine -> Routine \cup {NULL}],
            next' \in [Routine -> Routine \cup {NULL}],
            \A c \in armed \cup arm : c # t => previous'[c] = NULL /\ next'[c] = NULL,
            \A c \in Routine \ {t} : cont[c] \in {"none", "new"} =>
                                       previous'[c] = NULL /\ next'[c] = NULL,
            Linked', scheduler' = scheduler
     PROVE  Core'
  <2> USE <1>JumpKeepsRest
  <2> USE DEF Core, CoreType
  <2>1. Landing(cont[t]) \in LegalCont(t) \ NotRunning
    BY LandingLegal DEF Control
  <2>2. k \in Conts /\ Landing(cont[t]) \in Conts
    BY <2>1, LegalConts
  <2>3. CoreType'
    BY <2>2, Zenon DEF Jump
  <2>4. OneRunning'
    BY DEF Jump, OneRunning
  <2>5. SchedulingExact'
    BY DEF Jump, SchedulingExact, InSchedule
  <2>6. ArmedParked'
    <3> SUFFICES ASSUME NEW c \in armed'
                 PROVE  /\ state'[c] = "WAITING"
                        /\ previous'[c] = NULL /\ next'[c] = NULL
                        /\ cont'[c] \in {"user", "wait_all"}
      BY DEF ArmedParked
    <3>1. c # t /\ c \in armed \cup arm /\ c \in Routine
      BY <2>3 DEF Jump, Routine
    <3>2. CASE c = current
      <4>1. c \in arm
        BY <3>1, <3>2 DEF ArmedParked, OneRunning
      <4> QED
        BY <3>1, <3>2, <4>1 DEF Jump
    <3>3. CASE c # current
      BY <3>1, <3>3, Zenon DEF Jump, ArmedParked
    <3> QED
      BY <3>2, <3>3
  <2>7. Control'
    <3>1. \A c \in Routine : cont'[c] \in LegalCont(c)
      BY <2>1 DEF Jump, Control
    <3>2. cont'[current'] \notin NotRunning
      BY <2>1 DEF Jump
    <3>3. \A c \in Routine : cont'[c] = "none" <=> state'[c] = "NONE"
      BY <2>1 DEF Jump, Control, NotRunning
    <3>4. \A c \in Routine : cont'[c] = "new" => state'[c] = "WAITING"
      BY <2>1 DEF Jump, Control, NotRunning
    <3>5. \A c \in Routine : state'[c] # "DEAD"
      BY DEF Jump, Control
    <3>6. \A c \in Routine : cont'[c] \in {"none", "new"} =>
                                previous'[c] = NULL /\ next'[c] = NULL
      BY <2>1 DEF Jump, NotRunning
    <3>7. scheduler' = IF state'[Scheduler] \in {"WAITING", "RUNNING"}
                       THEN Scheduler ELSE NULL
      <4>1. state[t] \in {"WAITING", "RUNNING"}
        BY DEF Control
      <4>2. state[current] \in {"WAITING", "RUNNING"}
        BY DEF Control, NotRunning
      <4>3. state'[Scheduler] \in {"WAITING", "RUNNING"} <=>
              state[Scheduler] \in {"WAITING", "RUNNING"}
        BY <4>1, <4>2, Zenon DEF Jump, Routine
      <4> QED
        BY <4>3 DEF Control
    <3> QED
      BY <3>1, <3>2, <3>3, <3>4, <3>5, <3>6, <3>7, Zenon DEF Control
  <2> QED
    BY <2>3, <2>4, <2>5, <2>6, <2>7, Zenon

\* A resume, by cat_coroutine_resume() or schedule(), keeps the core.
<1>ResumeKeepsCore.
     ASSUME Core, NEW t \in Routine,
            NEW k \in LegalCont(current) \ {"none", "new"}, NEW flag \in BOOLEAN,
            flag <=> k \in InSchedule, cont[current] # "fault",
            ResumeTo(t, k, flag), scheduler' = scheduler
     PROVE  Core'
  <2> USE <1>ResumeKeepsCore
  <2> USE DEF Core, CoreType
  <2>1. t # current /\ cont[t] # "none" /\ state[t] # "DEAD" /\ state[current] # "DEAD"
    BY DEF ResumeTo, OneRunning, Control, NotRunning
  <2>2. Linked'
    BY <2>1, <1>LinkKeepsLinked DEF ResumeTo, Jump
  <2>3. PICK pos \in [Routine -> Nat] : Positions(pos)
    BY DEF Linked
  <2>4. /\ previous' \in [Routine -> Routine \cup {NULL}]
        /\ next' \in [Routine -> Routine \cup {NULL}]
    BY DEF ResumeTo, Link
  <2>5. ASSUME NEW c \in Routine \ {t, current}, previous[c] = NULL, next[c] = NULL
        PROVE  previous'[c] = NULL /\ next'[c] = NULL
    <3>1. c # previous[t] /\ c # next[t]
      BY <2>5, NullAssumption, LinkedSound DEF LinksSound
    <3> QED
      BY <2>5, <3>1, Zenon DEF ResumeTo, Link
  <2>6. \A c \in armed : c \in Routine \ {current} /\ previous[c] = NULL /\ next[c] = NULL
    BY <2>1, Zenon DEF ArmedParked, OneRunning, Routine
  <2>7. \A c \in Routine \ {t} : cont[c] \in {"none", "new"} =>
          c # current /\ previous'[c] = NULL /\ next'[c] = NULL
    BY <2>5 DEF Control, NotRunning
  <2>8. Jump(t, k, flag, {})
    BY DEF ResumeTo
  <2>9. \A c \in armed \cup {} : c # t => previous'[c] = NULL /\ next'[c] = NULL
    BY <2>5, <2>6
  <2> QED
    BY <2>1, <2>2, <2>4, <2>7, <2>8, <2>9, <1>JumpKeepsRest

\* A yield, with or without an event that ends it, keeps the core.
<1>YieldKeepsCore.
     ASSUME Core, NEW k \in LegalCont(current) \ {"none", "new"},
            k \notin InSchedule, NEW arm \in SUBSET {current},
            arm # {} => k \in {"user", "wait_all"} /\ current \in Coroutine,
            cont[current] # "fault",
            YieldWith(k, arm), scheduler' = scheduler
     PROVE  Core'
  <2> USE <1>YieldKeepsCore
  <2> USE DEF Core, CoreType
  <2> DEFINE t == YieldTarget
  <2>1. /\ Linked'
        /\ t \in Routine \ {current}
        /\ cont[t] \notin {"none", "new"}
        /\ state[t] # "DEAD"
    BY UnlinkKeepsLinked DEF YieldWith, Jump
  <2>2. state[current] # "DEAD"
    BY DEF Control
  <2>3. /\ previous' \in [Routine -> Routine \cup {NULL}]
        /\ next' \in [Routine -> Routine \cup {NULL}]
    BY Zenon DEF YieldWith, Unlink
  <2>4. /\ previous'[current] = NULL
        /\ \A c \in Routine \ {t} : next'[c] = next[c]
        /\ \A c \in Routine \ {current} : previous'[c] = previous[c]
    BY <2>1 DEF YieldWith, Unlink
  <2>5. next[current] = NULL
    BY LinkedSound, Zenon DEF LinksSound
  <2>6. \A c \in armed \cup arm : c # t => previous'[c] = NULL /\ next'[c] = NULL
    BY <2>4, <2>5, Zenon DEF ArmedParked, Routine
  <2>7. \A c \in Routine \ {t} : cont[c] \in {"none", "new"} =>
          previous'[c] = NULL /\ next'[c] = NULL
    BY <2>4 DEF Control, NotRunning
  <2>8. Jump(t, k, FALSE, arm)
    BY Zenon DEF YieldWith
  <2> QED
    BY <2>1, <2>2, <2>3, <2>6, <2>7, <2>8, <1>JumpKeepsRest, Zenon

\* A coroutine that ends and is freed leaves nothing behind; the scheduler has
\* unregistered itself before.
<1>DieKeepsCore.
     ASSUME Core, Die, current # Main, cont[current] # "fault",
            scheduler' = IF current = Scheduler THEN NULL ELSE scheduler
     PROVE  Core'
  <2> USE <1>DieKeepsCore
  <2> USE DEF Core, CoreType
  <2> DEFINE t == YieldTarget
  <2>1. /\ Linked'
        /\ t \in Routine \ {current}
        /\ cont[t] \notin {"none", "new"}
        /\ state[t] # "DEAD"
    BY UnlinkKeepsLinked DEF Die
  <2>2. Landing(cont[t]) \in LegalCont(t) \ NotRunning
    BY <2>1, LandingLegal, Zenon DEF Control
  <2>3. /\ previous'[current] = NULL /\ next'[current] = NULL
        /\ \A c \in Routine \ {t} : next'[c] = next[c]
        /\ \A c \in Routine \ {current} : previous'[c] = previous[c]
    BY <2>1, LinkedSound, Zenon DEF Die, Unlink, LinksSound
  <2>4. CoreType'
    BY <2>1, <2>2, LegalConts, Zenon DEF Die, Unlink, Conts
  <2>5. OneRunning'
    BY <2>1 DEF Die, OneRunning
  <2>6. SchedulingExact'
    BY <2>1, Zenon DEF Die, SchedulingExact
  <2>7. ArmedParked'
    <3>1. t \notin armed
      <4>1. SUFFICES ASSUME t \in armed PROVE FALSE
        OBVIOUS
      <4>2. previous[t] = NULL /\ next[t] = NULL /\ t # Scheduler
        BY <4>1, SchedulerAssumption, Zenon DEF ArmedParked
      <4>3. t = previous[current]
        BY <4>2, <2>1, NullAssumption, Zenon DEF YieldTarget, CanYield, Die
      <4> QED
        BY <2>1, <4>2, <4>3, NullAssumption, LinkedSound DEF LinksSound, Routine
    <3>2. current \notin armed
      BY Zenon DEF ArmedParked, OneRunning, Control
    <3> QED
      BY <2>3, <3>1, <3>2, ZenonT(30) DEF Die, ArmedParked, Routine
  <2>8. Control'
    <3>1. "none" \in LegalCont(current)
      BY Zenon DEF LegalCont
    <3>2. \A c \in Routine : cont'[c] \in LegalCont(c)
      BY <2>1, <2>2, <3>1, Zenon DEF Die, Control
    <3>3. cont'[current'] \notin NotRunning
      BY <2>1, <2>2, Zenon DEF Die
    <3>4. \A c \in Routine : cont'[c] = "none" <=> state'[c] = "NONE"
      BY <2>1, <2>2, Zenon DEF Die, Control, NotRunning
    <3>5. \A c \in Routine : cont'[c] = "new" => state'[c] = "WAITING"
      BY <2>1, <2>2, Zenon DEF Die, Control, NotRunning
    <3>6. \A c \in Routine : state'[c] # "DEAD"
      BY <2>1, Zenon DEF Die, Control
    <3>7. \A c \in Routine : cont'[c] \in {"none", "new"} =>
                                previous'[c] = NULL /\ next'[c] = NULL
      BY <2>1, <2>2, <2>3, ZenonT(30) DEF Die, Control, NotRunning
    <3>8. scheduler' = IF state'[Scheduler] \in {"WAITING", "RUNNING"}
                       THEN Scheduler ELSE NULL
      <4>1. CASE current = Scheduler
        BY <2>1, <4>1, Zenon DEF Die
      <4>2. CASE current # Scheduler
        <5>1. state[t] \in {"WAITING", "RUNNING"}
          BY <2>1 DEF Control
        <5>2. state'[Scheduler] \in {"WAITING", "RUNNING"} <=>
                state[Scheduler] \in {"WAITING", "RUNNING"}
          BY <2>1, <4>2, <5>1, Zenon DEF Die, Routine
        <5> QED
          BY <4>2, <5>2 DEF Control
      <4> QED
        BY <4>1, <4>2
    <3> QED
      BY <3>2, <3>3, <3>4, <3>5, <3>6, <3>7, <3>8, Zenon DEF Control
  <2> QED
    BY <2>1, <2>4, <2>5, <2>6, <2>7, <2>8, Zenon

\* The current coroutine goes on at k without a switch.
<1>StayKeepsCore.
     ASSUME Core, NEW k \in LegalCont(current) \ NotRunning,
            state[current] # "DEAD",
            cont' = [cont EXCEPT ![current] = k],
            UNCHANGED << current, scheduler, state, links, from, scheduling, armed >>
     PROVE  Core'
  <2> USE <1>StayKeepsCore
  <2> USE DEF Core, CoreType
  <2>1. k \in Conts
    BY LegalConts
  <2>2. CoreType'
    BY <2>1 DEF links
  <2>3. OneRunning' /\ SchedulingExact'
    BY DEF OneRunning, SchedulingExact
  <2>4. ArmedParked'
    <3>1. current \notin armed
      BY DEF ArmedParked, OneRunning
    <3> QED
      BY <3>1 DEF ArmedParked, links
  <2>5. Linked'
    BY Zenon DEF Linked, Positions, links
  <2>6. Control'
    BY Zenon DEF Control, links, NotRunning
  <2> QED
    BY <2>2, <2>3, <2>4, <2>5, <2>6, Zenon

\* Creating or freeing a coroutine t that is neither running nor linked.
<1>CreateKeepsCore.
     ASSUME Core, NEW t \in Routine \ {Main, current},
            cont[t] \in {"none", "new"},
            NEW k \in LegalCont(t), k \notin InSchedule, NEW st \in {"NONE", "WAITING"},
            k = "none" <=> st = "NONE", k \notin {"user", "wait_all"},
            t \in Coroutine \/ k = "init",
            cont' = [cont EXCEPT ![t] = k],
            state' = [state EXCEPT ![t] = st],
            previous' \in {previous, [previous EXCEPT ![t] = NULL]},
            next' \in {next, [next EXCEPT ![t] = NULL]},
            scheduling' \in {scheduling, [scheduling EXCEPT ![t] = FALSE]},
            from' \in [Routine -> Routine \cup {NULL}],
            scheduler' = IF t = Scheduler THEN Scheduler ELSE scheduler,
            UNCHANGED << current, armed >>
     PROVE  Core'
  <2> USE <1>CreateKeepsCore
  <2> USE DEF Core, CoreType
  <2>1. k \in Conts
    BY LegalConts, Zenon
  <2>2. previous[t] = NULL /\ next[t] = NULL
    BY DEF Control
  <2>3. previous' = previous /\ next' = next
    BY <2>2
  <2>4. /\ scheduling' \in [Routine -> BOOLEAN]
        /\ \A c \in Routine : scheduling'[c] <=> scheduling[c]
    <3>1. ~scheduling[t]
      BY DEF SchedulingExact
    <3> QED
      BY <3>1, Zenon
  <2>5. CoreType'
    BY <2>1, <2>3, <2>4, Zenon
  <2>6. OneRunning' /\ SchedulingExact'
    BY <2>4 DEF OneRunning, SchedulingExact, InSchedule
  <2>7. ArmedParked'
    BY <2>3 DEF ArmedParked
  <2>8. Linked'
    BY <2>3, Zenon DEF Linked, Positions
  <2>9. Control'
    <3>1. state'[Scheduler] \in {"WAITING", "RUNNING"} <=>
            state[Scheduler] \in {"WAITING", "RUNNING"} \/ t = Scheduler
      <4>1. CASE t = Scheduler
        BY <4>1, SchedulerAssumption, Zenon
      <4>2. CASE t # Scheduler
        BY <4>2, Zenon DEF Routine
      <4> QED
        BY <4>1, <4>2, Zenon
    <3>2. scheduler' = IF state'[Scheduler] \in {"WAITING", "RUNNING"}
                       THEN Scheduler ELSE NULL
      BY <3>1, Zenon DEF Control
    <3> QED
      BY <2>2, <2>3, <3>2 DEF Control
  <2> QED
    BY <2>5, <2>6, <2>7, <2>8, <2>9, Zenon

\* The current coroutine ends and has nowhere to go.
<1>StrandedKeepsCore.
     ASSUME Core, ~CanYield, current # Main, state[current] # "DEAD",
            state' = [state EXCEPT ![current] = "DEAD"],
            cont' = [cont EXCEPT ![current] = "fault"],
            scheduler' = IF current = Scheduler THEN NULL ELSE scheduler,
            UNCHANGED << current, links, from, scheduling, armed >>
     PROVE  Core'
  <2> USE <1>StrandedKeepsCore
  <2> USE DEF Core, CoreType
  <2>1. CoreType'
    BY DEF links, Conts
  <2>2. previous[current] = NULL /\ next[current] = NULL
    <3>1. PICK pos \in [Routine -> Nat] : Positions(pos)
      BY DEF Linked
    <3>2. previous[current] # current
      <4>1. pos[current] \in Nat /\ pos[current] > 0
        BY <3>1, Zenon DEF Positions
      <4>2. pos[current] = 1 => previous[current] = NULL
        BY <3>1, Zenon DEF Positions
      <4>3. pos[current] > 1 => pos[previous[current]] = pos[current] - 1
        BY <3>1 DEF Positions
      <4> QED
        BY <4>1, <4>2, <4>3, NullAssumption
    <3> QED
      BY <3>1, <3>2, NullAssumption, Zenon DEF CanYield, YieldTarget, Positions
  <2>3. OneRunning'
    BY DEF OneRunning
  <2>4. SchedulingExact'
    BY DEF SchedulingExact
  <2>5. ArmedParked'
    <3>1. current \notin armed
      BY Zenon DEF ArmedParked, OneRunning
    <3> QED
      BY <3>1 DEF ArmedParked, links
  <2>6. Linked'
    BY Zenon DEF Linked, Positions, links
  <2>7. Control'
    <3>1. "fault" \in LegalCont(current)
      BY Zenon DEF LegalCont
    <3>2. scheduler' = IF state'[Scheduler] \in {"WAITING", "RUNNING"}
                       THEN Scheduler ELSE NULL
      BY DEF Control, Routine
    <3> QED
      BY <2>2, <3>1, <3>2, Zenon DEF Control, links, NotRunning
  <2> QED
    BY <2>1, <2>3, <2>4, <2>5, <2>6, <2>7, Zenon

\* What a coroutine may call from its own code keeps the core.
<1>UserStepCore.
     ASSUME Core, NEW c \in Coroutine, UserStep(c)
     PROVE  Core'
  <2> USE <1>UserStepCore
  <2> USE SchedulerAssumption, MainAssumption
  <2>1. c \in Routine /\ c # Scheduler
    BY DEF Routine
  <2>2. {"user", "schedule", "wait_all"} \subseteq LegalCont(c) \ {"none", "new"}
    BY <2>1 DEF LegalCont
  <2>3. current = c => state[current] # "DEAD" \/ cont[c] = "fault"
    BY DEF Core, Control, CoreType
  <2>4. ASSUME NEW t \in Coroutine, cat_coroutine_create(c, t)
        PROVE  Core'
    <3>1. t \in Routine \ {Main, current} /\ cont[t] = "none"
      BY <2>4, <2>1 DEF cat_coroutine_create, InUser, Core, Control, Routine
    <3>2. "new" \in LegalCont(t) /\ "new" \notin InSchedule /\ t # Scheduler
      BY <3>1 DEF LegalCont, InSchedule
    <3>3. from' \in [Routine -> Routine \cup {NULL}]
      BY <2>4, Zenon DEF cat_coroutine_create, Core, CoreType
    <3> QED
      BY <2>4, <3>1, <3>2, <3>3, <1>CreateKeepsCore, ZenonT(30) DEF cat_coroutine_create
  <2>5. ASSUME NEW t \in Coroutine, cat_coroutine_close(c, t)
        PROVE  Core'
    <3>1. t \in Routine \ {Main, current} /\ cont[t] = "new"
      BY <2>5, <2>1 DEF cat_coroutine_close, InUser, Core, Control, Routine, LegalCont
    <3>2. "none" \in LegalCont(t) /\ "none" \notin InSchedule /\ t # Scheduler
      BY <3>1 DEF LegalCont, InSchedule
    <3>3. from' \in [Routine -> Routine \cup {NULL}]
      BY <2>5 DEF cat_coroutine_close, Core, CoreType
    <3> QED
      BY <2>5, <3>1, <3>2, <3>3, <1>CreateKeepsCore, ZenonT(30) DEF cat_coroutine_close, links
  <2>6. ASSUME NEW t \in Coroutine, cat_coroutine_resume(c, t)
        PROVE  Core'
    <3>1. t \in Routine /\ "user" \notin InSchedule
      BY DEF Routine, InSchedule
    <3> QED
      BY <2>2, <2>6, <3>1, <1>ResumeKeepsCore, Zenon DEF cat_coroutine_resume, InUser
  <2>7. ASSUME NEW t \in Coroutine, cat_coroutine_schedule(c, t)
        PROVE  Core'
    <3>1. t \in Routine /\ "schedule" \in InSchedule
      BY DEF Routine, InSchedule
    <3> QED
      BY <2>2, <2>7, <3>1, <1>ResumeKeepsCore, Zenon DEF cat_coroutine_schedule, InUser
  <2>8. ASSUME NEW b \in BOOLEAN, cat_coroutine_yield(c, b)
        PROVE  Core'
    <3> DEFINE arm == IF b THEN {c} ELSE {}
    <3>1. "user" \notin InSchedule /\ arm \in SUBSET {c}
      BY DEF InSchedule
    <3>2. current = c /\ cont[c] = "user" /\ YieldWith("user", arm) /\ scheduler' = scheduler
      BY <2>8 DEF cat_coroutine_yield, InUser
    <3> HIDE DEF arm
    <3> QED
      BY <2>2, <3>1, <3>2, <1>YieldKeepsCore
  <2>9. ASSUME NEW b \in BOOLEAN, cat_coroutine_wait_all_ex(c, b)
        PROVE  Core'
    <3> DEFINE arm == IF b THEN {c} ELSE {}
    <3>1. "wait_all" \notin InSchedule /\ arm \in SUBSET {c}
      BY DEF InSchedule
    <3>2. /\ current = c /\ cont[c] = "user"
          /\ YieldWith("wait_all", arm) /\ scheduler' = scheduler
      BY <2>9 DEF cat_coroutine_wait_all_ex, WaitAll, InUser
    <3> HIDE DEF arm
    <3> QED
      BY <2>2, <3>1, <3>2, <1>YieldKeepsCore
  <2>10. CASE Finish(c)
    BY <2>1, <2>10, <1>DieKeepsCore, Zenon DEF Finish, InUser
  <2>11. CASE FinishNowhere(c)
    BY <2>1, <2>3, <2>11, <1>StrandedKeepsCore DEF FinishNowhere, InUser
  <2>12. CASE WaitAllReturn(c)
    <3>1. "user" \in LegalCont(c) \ NotRunning
      BY <2>2 DEF NotRunning
    <3> QED
      BY <2>3, <2>12, <3>1, <1>StayKeepsCore, Zenon DEF WaitAllReturn
  <2> QED
    BY <2>4, <2>5, <2>6, <2>7, <2>8, <2>9, <2>10, <2>11, <2>12, Zenon DEF UserStep

\* notify_all(), by the scheduler or by the main coroutine.
<1>NotifyCore.
     ASSUME Core, Counting, NEW n \in {Main, Scheduler}, NEW k,
            \/ n = Main /\ k = "shutdown"
            \/ n = Scheduler /\ k = "notify",
            NotifyNext(n, k) \/ NotifyNull(n, k)
     PROVE  Core'
  <2> USE <1>NotifyCore
  <2> USE SchedulerAssumption, MainAssumption
  <2>1. {k, "fault"} \subseteq LegalCont(n) \ {"none", "new"} /\ k \in InSchedule
    BY DEF LegalCont, InSchedule
  <2>2. CASE NotifyNext(n, k)
    <3>1. Head(waiters) \in Routine
      BY <2>2 DEF NotifyNext, Counting, Routine
    <3> QED
      BY <2>1, <2>2, <3>1, <1>ResumeKeepsCore, Zenon DEF NotifyNext, InSchedule
  <2>3. CASE NotifyNull(n, k)
    <3>1. state[current] # "DEAD"
      BY <2>1, <2>3 DEF NotifyNull, Core, Control, CoreType, InSchedule
    <3>2. "fault" \in LegalCont(n) \ NotRunning
      BY <2>1 DEF NotRunning
    <3> QED
      BY <2>3, <3>1, <3>2, <1>StayKeepsCore, ZenonT(30) DEF NotifyNull
  <2> QED
    BY <2>2, <2>3, Zenon

\* Running and closing the scheduler and the shutdown keep the core.
<1>MainStepCore.
     ASSUME Core, Counting, MainStep
     PROVE  Core'
  <2> USE <1>MainStepCore
  <2> USE SchedulerAssumption, MainAssumption
  <2>1. Main \in Routine /\ Main # Scheduler /\ Scheduler \in Routine
    BY DEF Routine
  <2>2. {"user", "close_wait", "close_sched", "shutdown", "down"}
          \subseteq LegalCont(Main) \ NotRunning
    BY <2>1 DEF LegalCont, NotRunning
  <2>3. cont[current] # "fault" => state[current] # "DEAD"
    BY DEF Core, Control, CoreType
  <2>4. CASE cat_coroutine_scheduler_run
    <3>1. Scheduler \in Routine \ {Main, current} /\ cont[Scheduler] = "none"
      BY <2>1, <2>4 DEF cat_coroutine_scheduler_run, InUser, Core, Control
    <3>2. "init" \in LegalCont(Scheduler) /\ "init" \notin InSchedule
      BY DEF LegalCont, InSchedule
    <3>3. from' \in [Routine -> Routine \cup {NULL}]
      BY <2>1, <2>4 DEF cat_coroutine_scheduler_run, Core, CoreType
    <3> QED
      BY <2>4, <3>1, <3>2, <3>3, <1>CreateKeepsCore, ZenonT(30) DEF cat_coroutine_scheduler_run
  <2>5. CASE cat_coroutine_scheduler_close
    <3>1. "close_wait" \in LegalCont(Main) \ {"none", "new"} /\ "close_wait" \notin InSchedule
      BY <2>2 DEF InSchedule
    <3>2. current = Main /\ cont[Main] = "user" /\ YieldWith("close_wait", {}) /\ scheduler' = scheduler
      BY <2>5 DEF cat_coroutine_scheduler_close, WaitAll, InUser
    <3> QED
      BY <3>1, <3>2, <1>YieldKeepsCore
  <2>6. CASE CloseScheduler
    <3>1. "close_sched" \in LegalCont(Main) \ {"none", "new"} /\ "close_sched" \in InSchedule
      BY <2>2 DEF InSchedule
    <3> QED
      BY <2>1, <2>6, <3>1, <1>ResumeKeepsCore, Zenon DEF CloseScheduler
  <2>7. CASE CloseWaitAgain
    <3>1. "close_wait" \in LegalCont(Main) \ {"none", "new"} /\ "close_wait" \notin InSchedule
      BY <2>2 DEF InSchedule
    <3>2. current = Main /\ cont[Main] = "close_wait" /\ YieldWith("close_wait", {}) /\ scheduler' = scheduler
      BY <2>7 DEF CloseWaitAgain
    <3> QED
      BY <3>1, <3>2, <1>YieldKeepsCore, Zenon
  <2>8. CASE CloseReturn
    BY <2>2, <2>3, <2>8, <1>StayKeepsCore, Zenon DEF CloseReturn
  <2>9. CASE cat_coroutine_runtime_shutdown
    BY <2>2, <2>3, <2>9, <1>StayKeepsCore, Zenon DEF cat_coroutine_runtime_shutdown, InUser
  <2>10. CASE NotifyNext(Main, "shutdown") \/ NotifyNull(Main, "shutdown")
    BY <2>10, <1>NotifyCore
  <2>11. CASE ShutdownReturn
    BY <2>2, <2>3, <2>11, <1>StayKeepsCore, Zenon DEF ShutdownReturn
  <2> QED
    BY <2>4, <2>5, <2>6, <2>7, <2>8, <2>9, <2>10, <2>11, Zenon DEF MainStep

\* The steps of scheduler_function() keep the core.
<1>SchedulerStepCore.
     ASSUME Core, Counting, SchedulerStep \/ cat_coroutine_unlock_deadlock
     PROVE  Core'
  <2> USE <1>SchedulerStepCore
  <2> USE SchedulerAssumption, MainAssumption
  <2>1. Main # Scheduler /\ Scheduler \in Routine
    BY DEF Routine
  <2>2. {"top", "loop", "notify", "deadlock"} \subseteq LegalCont(Scheduler) \ NotRunning
    BY Zenon DEF LegalCont, NotRunning
  <2>3. cont[current] # "fault" => state[current] # "DEAD"
    BY DEF Core, Control, CoreType
  <2>4. ASSUME NEW k \in {"top", "loop", "notify", "deadlock"}, SchedulerAt(k),
               current = Scheduler, cont[Scheduler] # "fault"
        PROVE  Core'
    BY <2>2, <2>3, <2>4, <1>StayKeepsCore, Zenon DEF SchedulerAt
  <2>5. ASSUME NEW t \in Coroutine, ResumeTo(t, "callback", TRUE),
               current = Scheduler, cont[Scheduler] = "loop", scheduler' = scheduler
        PROVE  Core'
    <3>1. "callback" \in LegalCont(Scheduler) \ {"none", "new"} /\ "callback" \in InSchedule
      BY DEF LegalCont, InSchedule
    <3>2. t \in Routine
      BY DEF Routine
    <3> QED
      BY <2>5, <3>1, <3>2, <1>ResumeKeepsCore, Zenon
  <2>6. CASE SchedulerExit
    BY <2>1, <2>6, <1>DieKeepsCore, Zenon DEF SchedulerExit, AtScheduler
  <2>7. CASE SchedulerStranded
    BY <2>1, <2>3, <2>7, <1>StrandedKeepsCore DEF SchedulerStranded, AtScheduler
  <2>8. CASE \E t \in Coroutine : EventCallback(t) \/ CallDeadlockCallback(t)
    BY <2>5, <2>8, Zenon DEF EventCallback, CallDeadlockCallback, LoopDrained, AtScheduler
  <2>9. CASE NotifyNext(Scheduler, "notify") \/ NotifyNull(Scheduler, "notify")
    BY <2>9, <1>NotifyCore
  <2>10. CASE \/ SchedulerLoop \/ CallDeadlockCallbackInVain \/ cat_coroutine_deadlock
              \/ SkipNotify \/ StartNotify \/ EndNotify \/ cat_coroutine_unlock_deadlock
    BY <2>4, <2>10, Zenon DEF SchedulerLoop, CallDeadlockCallbackInVain, cat_coroutine_deadlock,
         SkipNotify, StartNotify, EndNotify, cat_coroutine_unlock_deadlock, LoopDrained,
         AtScheduler
  <2> QED
    BY <2>6, <2>7, <2>8, <2>9, <2>10, Zenon DEF SchedulerStep

<1> SUFFICES ASSUME Core, Counting, [Next]_vars PROVE Core'
  OBVIOUS
<1>1. CASE UNCHANGED vars
  <2>1. UNCHANGED << current, scheduler, state, previous, next, from, scheduling, cont, armed >>
    BY <1>1 DEF vars, links
  <2>2. CoreType' /\ OneRunning'
    BY <2>1, Zenon DEF Core, CoreType, OneRunning
  <2>3. Control'
    BY <2>1 DEF Core, Control
  <2>4. SchedulingExact' /\ ArmedParked'
    BY <2>1 DEF Core, SchedulingExact, ArmedParked
  <2>5. PICK pos \in [Routine -> Nat] : Positions(pos)
    BY Zenon DEF Core, Linked
  <2>6. Positions(pos)'
    BY <2>1, <2>5 DEF Positions
  <2> QED
    BY <2>2, <2>3, <2>4, <2>6, Zenon DEF Core, Linked
<1>2. CASE \E c \in Coroutine : UserStep(c)
  BY <1>2, <1>UserStepCore
<1>3. CASE MainStep
  BY <1>3, <1>MainStepCore
<1>4. CASE SchedulerStep \/ cat_coroutine_unlock_deadlock
  BY <1>4, <1>SchedulerStepCore
<1> QED
  BY <1>1, <1>2, <1>3, <1>4 DEF Next, Halted

-----------------------------------------------------------------------------
(* Counting: every step keeps the counters exact *)

AliveSet == {c \in Coroutine : Alive(c)}

WaitSet == {c \in Routine : InWaitAll(c)}

CountOK == count \in Nat /\ CountExact

WaitOK == /\ waiter_count \in Nat /\ waiters \in Seq(Coroutine)
          /\ WaitersExact

RestOK == notify_left \in Nat /\ last_chance \in BOOLEAN

\* The live coroutines can be counted.
LEMMA AliveFinite == IsFiniteSet(AliveSet) /\ Cardinality(AliveSet) \in Nat
  BY FiniteAssumption, FS_Subset, FS_CardinalityType DEF AliveSet

\* The same coroutines are alive after the step: the count stays.
LEMMA SameAlive ==
  ASSUME CountOK, AliveSet' = AliveSet, count' = count
  PROVE  CountOK'
  BY DEF CountOK, CountExact, AliveSet

\* Every step keeps the count exact.
LEMMA NextCount == Core /\ Counting /\ Next => CountOK'
\* Starting a coroutine adds one to the live ones.
<1>OneMoreAlive.
     ASSUME CountOK, NEW t, t \notin AliveSet, AliveSet' = AliveSet \cup {t},
            count' = count + 1
     PROVE  CountOK'
  <2> USE <1>OneMoreAlive
  <2>1. Cardinality(AliveSet \cup {t}) = Cardinality(AliveSet) + 1
    BY AliveFinite, FS_AddElement
  <2>2. count \in Nat /\ count = Cardinality(AliveSet)
    BY Zenon DEF CountOK, CountExact, AliveSet
  <2>3. count' \in Nat /\ count' = Cardinality(AliveSet)'
    BY <2>1, <2>2
  <2> QED
    BY <2>3, Zenon DEF CountOK, CountExact, AliveSet

\* The end of a coroutine takes one from the live ones.
<1>OneLessAlive.
     ASSUME CountOK, NEW t \in AliveSet, AliveSet' = AliveSet \ {t},
            count' = count - 1
     PROVE  CountOK'
  <2> USE <1>OneLessAlive
  <2>1. Cardinality(AliveSet \ {t}) = Cardinality(AliveSet) - 1
    BY AliveFinite, FS_RemoveElement
  <2>2. IsFiniteSet(AliveSet \ {t}) /\ Cardinality(AliveSet \ {t}) \in Nat
    BY AliveFinite, FS_Subset, FS_CardinalityType
  <2>3. count \in Nat /\ count = Cardinality(AliveSet)
    BY Zenon DEF CountOK, CountExact, AliveSet
  <2>4. count' \in Nat /\ count' = Cardinality(AliveSet)'
    BY <2>1, <2>2, <2>3, Zenon
  <2> QED
    BY <2>4, Zenon DEF CountOK, CountExact, AliveSet

\* A switch counts the coroutine it starts.
<1>JumpCounts.
     ASSUME Core, CountOK, NEW t \in Routine \ {current}, NEW k \in Conts \ {"none", "new"},
            NEW flag, NEW arm, cont[t] # "none", state[t] # "DEAD",
            state[current] # "DEAD", Jump(t, k, flag, arm)
     PROVE  CountOK'
  <2> USE <1>JumpCounts
  <2> USE DEF Core, CoreType
  <2>1. Landing(cont[t]) \in LegalCont(t) \ NotRunning
    BY LandingLegal, Zenon DEF Control
  <2>2. \A c \in Coroutine \ {t} : Alive(c)' <=> Alive(c)
    BY DEF Jump, Alive, Control, NotRunning, Routine
  <2>3. t \in Coroutine => Alive(t)'
    BY <2>1 DEF Jump, Alive, NotRunning
  <2>4. CASE cont[t] = "new"
    <3>1. t \in Coroutine /\ ~Alive(t)
      BY <2>4 DEF Control, LegalCont, Routine, Alive
    <3>2. AliveSet' = AliveSet \cup {t} /\ t \notin AliveSet
      BY <2>2, <2>3, <3>1 DEF AliveSet
    <3>3. count' = count + 1
      BY <2>4 DEF Jump
    <3> QED
      BY <3>2, <3>3, <1>OneMoreAlive, Zenon
  <2>5. CASE cont[t] # "new"
    <3>1. t \in Coroutine => Alive(t)
      BY <2>5 DEF Alive
    <3>2. AliveSet' = AliveSet
      BY <2>2, <2>3, <3>1, Zenon DEF AliveSet
    <3>3. count' = count
      BY <2>5 DEF Jump
    <3> QED
      BY <3>2, <3>3, SameAlive
  <2> QED
    BY <2>4, <2>5, Zenon

\* A resume keeps the count exact, also when it starts the target.
<1>ResumeCounts.
     ASSUME Core, CountOK, NEW t \in Routine, NEW k \in Conts \ {"none", "new"}, NEW flag,
            cont[current] # "fault", ResumeTo(t, k, flag)
     PROVE  CountOK'
  <2> USE <1>ResumeCounts
  <2>1. t # current /\ cont[t] # "none" /\ state[t] # "DEAD" /\ state[current] # "DEAD"
    BY DEF ResumeTo, Core, CoreType, OneRunning, Control, NotRunning
  <2> QED
    BY <2>1, <1>JumpCounts, Zenon DEF ResumeTo

\* A yield keeps the count exact.
<1>YieldCounts.
     ASSUME Core, CountOK, NEW k \in Conts \ {"none", "new"}, NEW arm,
            cont[current] # "fault", YieldWith(k, arm)
     PROVE  CountOK'
  <2> USE <1>YieldCounts
  <2>1. /\ YieldTarget \in Routine \ {current}
        /\ cont[YieldTarget] \notin {"none", "new"}
        /\ state[YieldTarget] # "DEAD"
    BY UnlinkKeepsLinked DEF YieldWith, Jump
  <2>2. state[current] # "DEAD"
    BY DEF Core, CoreType, Control
  <2> QED
    BY <2>1, <2>2, <1>JumpCounts, Zenon DEF YieldWith

\* No coroutine but the current one moves, and it is alive before and after.
<1>StayCounts.
     ASSUME Core, CountOK, NEW k \in Conts \ {"none", "new"},
            cont' = [cont EXCEPT ![current] = k], state' = state, count' = count
     PROVE  CountOK'
  <2> USE <1>StayCounts
  <2>1. \A c \in Coroutine : Alive(c)' <=> Alive(c)
    BY DEF Alive, Core, CoreType, Control, NotRunning, Routine
  <2>2. AliveSet' = AliveSet
    BY <2>1 DEF AliveSet
  <2> QED
    BY <2>2, SameAlive, Zenon

\* Die counts nothing itself: the current coroutine is gone, the others stay.
<1>DieAlive.
     ASSUME Core, Die, current # Main, cont[current] # "fault"
     PROVE  AliveSet' = AliveSet \ {current}
  <2> USE <1>DieAlive
  <2> USE DEF Core, CoreType
  <2> DEFINE t == YieldTarget
  <2>1. /\ t \in Routine \ {current}
        /\ cont[t] \notin {"none", "new"}
        /\ state[t] # "DEAD"
    BY UnlinkKeepsLinked, Zenon DEF Die
  <2>2. Landing(cont[t]) \in LegalCont(t) \ NotRunning
    BY <2>1, LandingLegal, Zenon DEF Control
  <2>3. \A c \in Coroutine \ {current} : Alive(c)' <=> Alive(c)
    BY <2>1, <2>2, Zenon DEF Die, Alive, Control, NotRunning, Routine
  <2>4. \A c \in Coroutine : c = current => ~Alive(c)'
    BY <2>1 DEF Die, Alive
  <2> QED
    BY <2>3, <2>4, Zenon DEF AliveSet

<1> SUFFICES ASSUME Core, Counting, Next PROVE CountOK'
  OBVIOUS
<1> USE SchedulerAssumption, MainAssumption
<1>1. CountOK
  BY DEF Counting, CountOK
<1>2. {"user", "schedule", "wait_all", "close_wait", "close_sched", "shutdown", "down",
       "top", "loop", "callback", "notify", "deadlock", "fault"} \subseteq Conts \ {"none", "new"}
  BY DEF Conts
<1>3. Main \in Routine /\ Scheduler \in Routine /\ Coroutine \subseteq Routine
  BY DEF Routine
<1>4. ASSUME NEW c \in Coroutine, UserStep(c)
      PROVE  CountOK'
  <2>1. CASE \E t \in Coroutine : cat_coroutine_create(c, t) \/ cat_coroutine_close(c, t)
    <3>1. PICK t \in Coroutine : cat_coroutine_create(c, t) \/ cat_coroutine_close(c, t)
      BY <2>1, Zenon
    <3>2. \A d \in Coroutine : Alive(d)' <=> Alive(d)
      BY <3>1 DEF cat_coroutine_create, cat_coroutine_close, Alive, Core, CoreType,
                  Control, Routine
    <3>3. AliveSet' = AliveSet /\ count' = count
      BY <3>1, <3>2 DEF AliveSet, cat_coroutine_create, cat_coroutine_close
    <3> QED
      BY <1>1, <3>3, SameAlive
  <2>2. CASE \E t \in Coroutine : cat_coroutine_resume(c, t) \/ cat_coroutine_schedule(c, t)
    BY <1>1, <1>2, <1>3, <2>2, <1>ResumeCounts,
         Zenon DEF cat_coroutine_resume, cat_coroutine_schedule, InUser
  <2>3. CASE \E b \in BOOLEAN : cat_coroutine_yield(c, b) \/ cat_coroutine_wait_all_ex(c, b)
    BY <1>1, <1>2, <2>3, <1>YieldCounts,
         Zenon DEF cat_coroutine_yield, cat_coroutine_wait_all_ex, WaitAll, InUser
  <2>4. CASE Finish(c)
    <3>1. current = c /\ cont[c] = "user" /\ c # Main /\ Die /\ count' = count - 1
      BY <2>4, Zenon DEF Finish, InUser
    <3>2. c \in AliveSet
      BY <1>3, <3>1 DEF AliveSet, Alive, Core, CoreType, Control
    <3>3. AliveSet' = AliveSet \ {c}
      BY <3>1, <1>DieAlive
    <3> QED
      BY <1>1, <3>1, <3>2, <3>3, <1>OneLessAlive, Zenon
  <2>5. CASE FinishNowhere(c)
    <3>1. c \in AliveSet
      BY <1>3, <2>5 DEF FinishNowhere, InUser, AliveSet, Alive, Core, CoreType, Control
    <3>2. \A d \in Coroutine : Alive(d)' <=> Alive(d) /\ d # c
      BY <1>3, <2>5 DEF FinishNowhere, InUser, Alive, Core, CoreType
    <3>3. AliveSet' = AliveSet \ {c} /\ count' = count - 1
      BY <2>5, <3>2 DEF AliveSet, FinishNowhere
    <3> QED
      BY <1>1, <3>1, <3>3, <1>OneLessAlive, Zenon
  <2>6. CASE WaitAllReturn(c)
    BY <1>1, <1>2, <2>6, <1>StayCounts, Zenon DEF WaitAllReturn
  <2> QED
    BY <1>4, <2>1, <2>2, <2>3, <2>4, <2>5, <2>6, Zenon DEF UserStep
<1>5. ASSUME NEW n, NEW k \in Conts \ {"none", "new", "fault"}, NotifyNext(n, k) \/ NotifyNull(n, k)
      PROVE  CountOK'
  <2>1. CASE NotifyNext(n, k)
    <3>1. Head(waiters) \in Routine
      BY <1>3, <2>1 DEF NotifyNext, Counting
    <3> QED
      BY <1>1, <2>1, <3>1, <1>ResumeCounts, Zenon DEF NotifyNext
  <2>2. CASE NotifyNull(n, k)
    BY <1>1, <1>2, <2>2, <1>StayCounts, ZenonT(30) DEF NotifyNull
  <2> QED
    BY <1>5, <2>1, <2>2
<1>6. CASE MainStep
  <2>1. CASE cat_coroutine_scheduler_run
    <3>1. \A d \in Coroutine : Alive(d)' <=> Alive(d)
      BY <2>1 DEF cat_coroutine_scheduler_run, Alive, Core, CoreType, Routine
    <3>2. AliveSet' = AliveSet /\ count' = count
      BY <2>1, <3>1 DEF AliveSet, cat_coroutine_scheduler_run
    <3> QED
      BY <1>1, <3>2, SameAlive, Zenon
  <2>2. CASE cat_coroutine_scheduler_close \/ CloseWaitAgain
    BY <1>1, <1>2, <2>2, <1>YieldCounts,
         Zenon DEF cat_coroutine_scheduler_close, CloseWaitAgain, WaitAll, InUser
  <2>3. CASE CloseScheduler
    BY <1>1, <1>2, <1>3, <2>3, <1>ResumeCounts, ZenonT(30) DEF CloseScheduler
  <2>4. CASE CloseReturn \/ cat_coroutine_runtime_shutdown \/ ShutdownReturn
    BY <1>1, <1>2, <2>4, <1>StayCounts
       DEF CloseReturn, cat_coroutine_runtime_shutdown, ShutdownReturn, InUser
  <2>5. CASE NotifyNext(Main, "shutdown") \/ NotifyNull(Main, "shutdown")
    BY <1>2, <1>5, <2>5
  <2> QED
    BY <1>6, <2>1, <2>2, <2>3, <2>4, <2>5, Zenon DEF MainStep
<1>7. CASE SchedulerStep \/ cat_coroutine_unlock_deadlock
  <2>1. CASE SchedulerExit
    <3>1. current = Scheduler /\ cont[Scheduler] = "top" /\ Die /\ count' = count
      BY <2>1 DEF SchedulerExit, AtScheduler
    <3>2. AliveSet' = AliveSet \ {Scheduler}
      BY <3>1, <1>DieAlive
    <3>3. AliveSet' = AliveSet
      BY <3>2, Zenon DEF AliveSet
    <3> QED
      BY <1>1, <3>1, <3>3, SameAlive
  <2>2. CASE SchedulerStranded
    <3>1. \A d \in Coroutine : Alive(d)' <=> Alive(d)
      BY <2>2 DEF SchedulerStranded, Alive, Core, CoreType, Routine
    <3>2. AliveSet' = AliveSet /\ count' = count
      BY <2>2, <3>1 DEF AliveSet, SchedulerStranded
    <3> QED
      BY <1>1, <3>2, SameAlive
  <2>3. CASE \E t \in Coroutine : EventCallback(t) \/ CallDeadlockCallback(t)
    BY <1>1, <1>2, <1>3, <2>3, <1>ResumeCounts,
         Zenon DEF EventCallback, CallDeadlockCallback, LoopDrained, AtScheduler
  <2>4. CASE NotifyNext(Scheduler, "notify") \/ NotifyNull(Scheduler, "notify")
    BY <1>2, <1>5, <2>4
  <2>5. CASE \/ SchedulerLoop \/ CallDeadlockCallbackInVain \/ cat_coroutine_deadlock
             \/ SkipNotify \/ StartNotify \/ EndNotify \/ cat_coroutine_unlock_deadlock
    BY <1>1, <1>2, <2>5, <1>StayCounts, ZenonT(30) DEF SchedulerLoop, CallDeadlockCallbackInVain,
         cat_coroutine_deadlock, SkipNotify, StartNotify, EndNotify,
         cat_coroutine_unlock_deadlock, LoopDrained, AtScheduler, SchedulerAt
  <2> QED
    BY <1>7, <2>1, <2>2, <2>3, <2>4, <2>5, Zenon DEF SchedulerStep
<1>8. CASE Halted
  <2>1. AliveSet' = AliveSet /\ count' = count
    BY <1>8 DEF Halted, vars, AliveSet, Alive
  <2> QED
    BY <1>1, <2>1, SameAlive
<1> QED
  BY <1>4, <1>6, <1>7, <1>8 DEF Next

-----------------------------------------------------------------------------
(* Waiting: the queue of waiters holds those inside wait_all() *)

\* The queue stays exact when neither it nor the coroutines in wait_all() change.
LEMMA SameWaiters ==
  ASSUME WaitOK, WaitSet' = WaitSet, UNCHANGED << waiters, waiter_count >>
  PROVE  WaitOK'
  BY Zenon DEF WaitOK, WaitersExact, WaitSet

\* Every step keeps the queue of wait_all() exact.
LEMMA NextWait == Core /\ Counting /\ Next => WaitOK'
\* cat_queue_push_back() of a coroutine that enters wait_all().
<1>OneMoreWaiter.
     ASSUME WaitOK, NEW c \in Coroutine, c \notin WaitSet, WaitSet' = WaitSet \cup {c},
            waiters' = Append(waiters, c), waiter_count' = waiter_count + 1
     PROVE  WaitOK'
  <2> USE <1>OneMoreWaiter
  <2>1. Injective(waiters) /\ OnChain(waiters) = WaitSet
    BY DEF WaitOK, WaitersExact, WaitSet, Injective
  <2>2. /\ waiters' \in Seq(Coroutine) /\ Len(waiters') = Len(waiters) + 1
        /\ Injective(waiters') /\ OnChain(waiters') = WaitSet'
    BY <2>1, AppendProperties DEF WaitOK
  <2> QED
    BY <2>2 DEF WaitOK, WaitersExact, WaitSet, Injective

\* cat_queue_remove() of a coroutine that leaves wait_all().
<1>OneLessWaiter.
     ASSUME WaitOK, NEW c \in WaitSet, WaitSet' = WaitSet \ {c}, LeaveWaiters(c)
     PROVE  WaitOK'
  <2> USE <1>OneLessWaiter
  <2>1. Injective(waiters) /\ OnChain(waiters) = WaitSet
    BY DEF WaitOK, WaitersExact, WaitSet, Injective
  <2>2. /\ waiters' \in Seq(Coroutine) /\ Len(waiters') = Len(waiters) - 1
        /\ Len(waiters) > 0
        /\ Injective(waiters') /\ OnChain(waiters') = WaitSet'
    BY <2>1, WithoutProperties, Zenon DEF WaitOK, LeaveWaiters
  <2> QED
    BY <2>2 DEF WaitOK, WaitersExact, WaitSet, Injective, LeaveWaiters

\* scheduler_close() waits again: its coroutine goes to the end of the queue.
<1>WaiterMovesBack.
     ASSUME WaitOK, NEW c \in WaitSet, c \in Coroutine, WaitSet' = WaitSet,
            waiters' = Append(Without(waiters, c), c), waiter_count' = waiter_count
     PROVE  WaitOK'
  <2> USE <1>WaiterMovesBack
  <2>1. Injective(waiters) /\ OnChain(waiters) = WaitSet
    BY DEF WaitOK, WaitersExact, WaitSet, Injective
  <2> DEFINE w == Without(waiters, c)
  <2>2. /\ w \in Seq(Coroutine) /\ Len(w) = Len(waiters) - 1 /\ Len(waiters) > 0
        /\ Injective(w) /\ OnChain(w) = WaitSet \ {c}
    BY <2>1, WithoutProperties DEF WaitOK
  <2> HIDE DEF w
  <2>3. /\ Append(w, c) \in Seq(Coroutine) /\ Len(Append(w, c)) = Len(w) + 1
        /\ Injective(Append(w, c)) /\ OnChain(Append(w, c)) = (WaitSet \ {c}) \cup {c}
    BY <2>2, AppendProperties
  <2>4. waiters' = Append(w, c) /\ (WaitSet \ {c}) \cup {c} = WaitSet
    BY DEF w
  <2>5. Len(waiters) \in Nat /\ Len(w) \in Nat
    BY <2>2 DEF WaitOK
  <2> QED
    BY <2>2, <2>3, <2>4, <2>5 DEF WaitOK, WaitersExact, WaitSet, Injective

\* A switch moves only the current coroutine into or out of wait_all().
<1>JumpWaits.
     ASSUME Core, NEW t \in Routine \ {current}, NEW k \in Conts,
            NEW flag, NEW arm, Jump(t, k, flag, arm)
     PROVE  WaitSet' = IF k \in {"wait_all", "close_wait"} THEN WaitSet \cup {current}
                       ELSE WaitSet \ {current}
  <2> USE <1>JumpWaits
  <2>1. \A c \in Routine : InWaitAll(c)' <=>
          IF c = current THEN k \in {"wait_all", "close_wait"} ELSE InWaitAll(c)
    BY DEF Jump, InWaitAll, Landing, Core, CoreType
  <2>2. current \in Routine
    BY DEF Core, CoreType
  <2> QED
    BY <2>1, <2>2, Zenon DEF WaitSet

\* A resume changes nobody's membership in the queue.
<1>ResumeWaits.
     ASSUME Core, NEW t \in Routine, NEW k \in Conts \ {"wait_all", "close_wait"}, NEW flag,
            ResumeTo(t, k, flag)
     PROVE  WaitSet' = WaitSet \ {current}
  <2> USE <1>ResumeWaits
  <2>1. t # current
    BY DEF ResumeTo, Core, CoreType, OneRunning, Control
  <2> QED
    BY <2>1, <1>JumpWaits, Zenon DEF ResumeTo

\* A yield outside wait_all() changes nobody's membership in the queue.
<1>YieldWaits.
     ASSUME Core, NEW k \in Conts, NEW arm, YieldWith(k, arm)
     PROVE  WaitSet' = IF k \in {"wait_all", "close_wait"} THEN WaitSet \cup {current}
                       ELSE WaitSet \ {current}
  <2> USE <1>YieldWaits
  <2>1. YieldTarget \in Routine \ {current}
    BY UnlinkKeepsLinked DEF YieldWith, Jump
  <2> QED
    BY <2>1, <1>JumpWaits, Zenon DEF YieldWith

\* Nobody moves into or out of wait_all().
<1>OutsideWaits.
     ASSUME Core, NEW t \in Routine, NEW k \in Conts \ {"wait_all", "close_wait"},
            cont[t] \notin {"wait_all", "close_wait"}, cont' = [cont EXCEPT ![t] = k]
     PROVE  WaitSet' = WaitSet
  <2> USE <1>OutsideWaits
  <2>1. \A c \in Routine : InWaitAll(c)' <=> InWaitAll(c)
    BY DEF InWaitAll, Core, CoreType
  <2> QED
    BY <2>1 DEF WaitSet

\* A coroutine that ends is not in the queue.
<1>DieWaits.
     ASSUME Core, Die, cont[current] \notin {"wait_all", "close_wait"}
     PROVE  WaitSet' = WaitSet
  <2> USE <1>DieWaits
  <2>1. YieldTarget \in Routine \ {current}
    BY UnlinkKeepsLinked, Zenon DEF Die
  <2>2. \A c \in Routine : InWaitAll(c)' <=> InWaitAll(c)
    BY <2>1 DEF Die, InWaitAll, Landing, Core, CoreType
  <2> QED
    BY <2>2 DEF WaitSet

<1> SUFFICES ASSUME Core, Counting, Next PROVE WaitOK'
  OBVIOUS
<1> USE SchedulerAssumption, MainAssumption
<1> DEFINE Outside == Conts \ {"wait_all", "close_wait"}
<1>1. WaitOK
  BY DEF Counting, WaitOK
<1>2. /\ {"none", "new", "user", "schedule", "close_sched", "shutdown", "down", "init",
          "top", "loop", "callback", "notify", "deadlock", "fault"} \subseteq Outside
      /\ {"wait_all", "close_wait"} \subseteq Conts
  BY DEF Conts
<1> HIDE DEF Outside
<1>3. /\ Main \in Routine /\ Scheduler \in Routine /\ Coroutine \subseteq Routine
      /\ current \in Routine
  BY DEF Routine, Core, CoreType
<1>4. \A c \in Routine : c \in WaitSet <=> cont[c] \in {"wait_all", "close_wait"}
  BY DEF WaitSet, InWaitAll
<1>5. ASSUME NEW t \in Routine, NEW k \in Outside, NEW flag, ResumeTo(t, k, flag),
             current \notin WaitSet, UNCHANGED << waiters, waiter_count >>
      PROVE  WaitOK'
  BY <1>1, <1>5, <1>ResumeWaits, SameWaiters DEF Outside
<1>6. ASSUME NEW t \in Routine, NEW k \in Outside, cont[t] \in Outside,
             cont' = [cont EXCEPT ![t] = k], UNCHANGED << waiters, waiter_count >>
      PROVE  WaitOK'
  BY <1>1, <1>6, <1>OutsideWaits, SameWaiters, Zenon DEF Outside
<1>7. ASSUME NEW c \in Coroutine, UserStep(c)
      PROVE  WaitOK'
  <2>1. CASE \E t \in Coroutine : cat_coroutine_create(c, t) \/ cat_coroutine_close(c, t)
    <3>1. PICK t \in Coroutine : cat_coroutine_create(c, t) \/ cat_coroutine_close(c, t)
      BY <2>1
    <3>2. t \in Routine /\ cont[t] \in {"none", "new"}
      BY <1>3, <3>1, Zenon DEF cat_coroutine_create, cat_coroutine_close, Core, Control
    <3>3. UNCHANGED << waiters, waiter_count >> /\ \E k \in {"none", "new"} : cont' = [cont EXCEPT ![t] = k]
      BY <3>1 DEF cat_coroutine_create, cat_coroutine_close, waitVars
    <3> QED
      BY <1>2, <1>6, <3>2, <3>3, ZenonT(30)
  <2>2. CASE \E t \in Coroutine : cat_coroutine_resume(c, t) \/ cat_coroutine_schedule(c, t)
    <3>1. current \notin WaitSet
      BY <1>3, <1>4, <2>2, Zenon DEF cat_coroutine_resume, cat_coroutine_schedule, InUser
    <3> QED
      BY <1>2, <1>3, <1>5, <2>2, <3>1,
           Zenon DEF cat_coroutine_resume, cat_coroutine_schedule, waitVars
  <2>3. ASSUME NEW b \in BOOLEAN, cat_coroutine_yield(c, b)
        PROVE  WaitOK'
    <3>1. "user" \in Outside /\ current \notin WaitSet /\ UNCHANGED << waiters, waiter_count >>
      BY <1>2, <1>3, <1>4, <2>3 DEF cat_coroutine_yield, InUser, waitVars
    <3>2. WaitSet' = WaitSet
      BY <2>3, <3>1, <1>YieldWaits, Zenon DEF cat_coroutine_yield, Outside
    <3> QED
      BY <1>1, <3>1, <3>2, SameWaiters, Zenon
  <2>4. ASSUME NEW b \in BOOLEAN, cat_coroutine_wait_all_ex(c, b)
        PROVE  WaitOK'
    <3>1. current = c /\ c \notin WaitSet
      BY <1>3, <1>4, <2>4 DEF cat_coroutine_wait_all_ex, InUser
    <3>2. WaitSet' = WaitSet \cup {c}
      BY <1>2, <2>4, <3>1, <1>YieldWaits DEF cat_coroutine_wait_all_ex, WaitAll
    <3> QED
      BY <1>1, <2>4, <3>1, <3>2, <1>OneMoreWaiter, Zenon DEF cat_coroutine_wait_all_ex, WaitAll
  <2>5. CASE Finish(c)
    <3>1. WaitSet' = WaitSet
      BY <2>5, <1>DieWaits DEF Finish, InUser
    <3> QED
      BY <1>1, <2>5, <3>1, SameWaiters DEF Finish, waitVars
  <2>6. CASE FinishNowhere(c)
    BY <1>2, <1>3, <1>6, <2>6, Zenon DEF FinishNowhere, InUser, waitVars
  <2>7. CASE WaitAllReturn(c)
    <3>1. c \in WaitSet /\ current = c
      BY <1>3, <1>4, <2>7, Zenon DEF WaitAllReturn
    <3>2. \A d \in Routine : InWaitAll(d)' <=> InWaitAll(d) /\ d # c
      BY <1>3, <2>7 DEF WaitAllReturn, InWaitAll, Core, CoreType
    <3>3. WaitSet' = WaitSet \ {c}
      BY <3>2 DEF WaitSet
    <3> QED
      BY <1>1, <2>7, <3>1, <3>3, <1>OneLessWaiter, Zenon DEF WaitAllReturn
  <2> QED
    BY <1>7, <2>1, <2>2, <2>3, <2>4, <2>5, <2>6, <2>7, Zenon DEF UserStep
<1>8. ASSUME NEW n \in Routine, NEW k \in Outside, NotifyNext(n, k) \/ NotifyNull(n, k)
      PROVE  WaitOK'
  <2>1. CASE NotifyNext(n, k)
    <3>1. Head(waiters) \in Routine /\ current \notin WaitSet
      BY <1>3, <1>4, <1>8, <2>1 DEF NotifyNext, Counting, Outside
    <3> QED
      BY <1>5, <2>1, <3>1, ZenonT(30) DEF NotifyNext
  <2>2. CASE NotifyNull(n, k)
    BY <1>2, <1>6, <2>2, Zenon DEF NotifyNull, waitVars
  <2> QED
    BY <1>8, <2>1, <2>2
<1>9. CASE MainStep
  <2>1. CASE cat_coroutine_scheduler_run
    <3>1. cont[Scheduler] = "none"
      BY <1>3, <2>1 DEF cat_coroutine_scheduler_run, Core, Control
    <3> QED
      BY <1>2, <1>3, <1>6, <2>1, <3>1, ZenonT(30) DEF cat_coroutine_scheduler_run, waitVars
  <2>2. CASE cat_coroutine_scheduler_close
    <3>1. current = Main /\ Main \notin WaitSet
      BY <1>3, <1>4, <2>2, Zenon DEF cat_coroutine_scheduler_close, InUser
    <3>2. WaitSet' = WaitSet \cup {Main}
      BY <1>2, <2>2, <3>1, <1>YieldWaits, Zenon DEF cat_coroutine_scheduler_close, WaitAll
    <3> QED
      BY <1>1, <2>2, <3>1, <3>2, <1>OneMoreWaiter, Zenon DEF cat_coroutine_scheduler_close, WaitAll
  <2>3. CASE CloseScheduler
    <3>1. current = Main /\ Main \in WaitSet
      BY <1>3, <1>4, <2>3 DEF CloseScheduler
    <3>2. WaitSet' = WaitSet \ {Main}
      BY <1>2, <1>3, <2>3, <3>1, <1>ResumeWaits, Zenon DEF CloseScheduler, Outside
    <3> QED
      BY <1>1, <2>3, <3>1, <3>2, <1>OneLessWaiter, Zenon DEF CloseScheduler
  <2>4. CASE CloseWaitAgain
    <3>1. current = Main /\ Main \in WaitSet
      BY <1>3, <1>4, <2>4 DEF CloseWaitAgain
    <3>2. WaitSet' = WaitSet
      BY <1>2, <2>4, <3>1, <1>YieldWaits, Zenon DEF CloseWaitAgain
    <3> QED
      BY <1>1, <2>4, <3>1, <3>2, <1>WaiterMovesBack, Zenon DEF CloseWaitAgain
  <2>5. CASE CloseReturn \/ cat_coroutine_runtime_shutdown \/ ShutdownReturn
    BY <1>2, <1>3, <1>6, <2>5,
         Zenon DEF CloseReturn, cat_coroutine_runtime_shutdown, ShutdownReturn, InUser, waitVars
  <2>6. CASE NotifyNext(Main, "shutdown") \/ NotifyNull(Main, "shutdown")
    BY <1>2, <1>3, <1>8, <2>6, Zenon
  <2> QED
    BY <1>9, <2>1, <2>2, <2>3, <2>4, <2>5, <2>6, Zenon DEF MainStep
<1>10. CASE SchedulerStep \/ cat_coroutine_unlock_deadlock
  <2>1. CASE SchedulerExit
    <3>1. WaitSet' = WaitSet
      BY <2>1, <1>DieWaits DEF SchedulerExit, AtScheduler
    <3> QED
      BY <1>1, <2>1, <3>1, SameWaiters, Zenon DEF SchedulerExit, waitVars
  <2>2. CASE SchedulerStranded
    BY <1>2, <1>3, <1>6, <2>2, Zenon DEF SchedulerStranded, AtScheduler, waitVars
  <2>3. CASE \E t \in Coroutine : EventCallback(t) \/ CallDeadlockCallback(t)
    <3>1. current \notin WaitSet
      BY <1>3, <1>4, <2>3, Zenon DEF EventCallback, CallDeadlockCallback, LoopDrained, AtScheduler
    <3> QED
      BY <1>2, <1>3, <1>5, <2>3, <3>1, Zenon DEF EventCallback, CallDeadlockCallback, waitVars
  <2>4. CASE NotifyNext(Scheduler, "notify") \/ NotifyNull(Scheduler, "notify")
    BY <1>2, <1>3, <1>8, <2>4
  <2>5. CASE \/ SchedulerLoop \/ CallDeadlockCallbackInVain \/ cat_coroutine_deadlock
             \/ SkipNotify \/ StartNotify \/ EndNotify \/ cat_coroutine_unlock_deadlock
    BY <1>2, <1>3, <1>6, <2>5, Zenon DEF SchedulerLoop, CallDeadlockCallbackInVain,
         cat_coroutine_deadlock, SkipNotify, StartNotify, EndNotify,
         cat_coroutine_unlock_deadlock, LoopDrained, AtScheduler, SchedulerAt, waitVars
  <2> QED
    BY <1>10, <2>1, <2>2, <2>3, <2>4, <2>5 DEF SchedulerStep
<1>11. CASE Halted
  <2>1. WaitSet' = WaitSet /\ UNCHANGED << waiters, waiter_count >>
    BY <1>11 DEF Halted, vars, waitVars, WaitSet, InWaitAll
  <2> QED
    BY <1>1, <2>1, SameWaiters, Zenon
<1> QED
  BY <1>7, <1>9, <1>10, <1>11 DEF Next

\* The counter of notify_all() never goes below zero.
LEMMA NextRest == Core /\ Counting /\ Next => RestOK'
<1> SUFFICES ASSUME Core, Counting, Next PROVE RestOK'
  OBVIOUS
<1>1. RestOK /\ waiter_count \in Nat
  BY DEF Counting, RestOK
<1>2. ASSUME NEW c \in Coroutine, UserStep(c)
      PROVE  UNCHANGED << notify_left, last_chance >>
  BY <1>2, Zenon DEF UserStep, cat_coroutine_create, cat_coroutine_close, cat_coroutine_resume,
       cat_coroutine_schedule, cat_coroutine_yield, cat_coroutine_wait_all_ex, WaitAll,
       Finish, FinishNowhere, WaitAllReturn, waitVars
<1>3. CASE MainStep
  <2>1. last_chance' = last_chance
    BY <1>3, ZenonT(30) DEF MainStep, cat_coroutine_scheduler_run,
         cat_coroutine_scheduler_close, WaitAll, CloseScheduler, CloseWaitAgain, CloseReturn,
         cat_coroutine_runtime_shutdown, NotifyNext, NotifyNull, ShutdownReturn, waitVars
  <2>2. CASE NotifyNext(Main, "shutdown")
    BY <1>1, <2>2 DEF NotifyNext, RestOK
  <2>3. CASE cat_coroutine_runtime_shutdown
    BY <1>1, <2>3 DEF cat_coroutine_runtime_shutdown, RestOK
  <2>4. CASE ~NotifyNext(Main, "shutdown") /\ ~cat_coroutine_runtime_shutdown
    <3>1. notify_left' = notify_left
      BY <1>3, <2>4, Zenon DEF MainStep, cat_coroutine_scheduler_run,
           cat_coroutine_scheduler_close, WaitAll, CloseScheduler, CloseWaitAgain,
           CloseReturn, NotifyNull, ShutdownReturn, waitVars
    <3> QED
      BY <1>1, <2>1, <3>1 DEF RestOK
  <2> QED
    BY <2>2, <2>3, <2>4
<1>4. CASE SchedulerStep \/ cat_coroutine_unlock_deadlock
  <2>1. last_chance' = last_chance \/ last_chance' = TRUE \/ last_chance' = FALSE
    BY <1>4 DEF SchedulerStep, SchedulerLoop, SchedulerExit,
         SchedulerStranded, EventCallback, CallDeadlockCallback, CallDeadlockCallbackInVain,
         cat_coroutine_deadlock, SkipNotify, StartNotify, NotifyNext, NotifyNull, EndNotify,
         cat_coroutine_unlock_deadlock, waitVars
  <2>2. last_chance' \in BOOLEAN
    BY <1>1, <2>1, ZenonT(30) DEF RestOK
  <2>3. CASE NotifyNext(Scheduler, "notify")
    BY <1>1, <2>2, <2>3 DEF NotifyNext, RestOK
  <2>4. CASE StartNotify
    BY <1>1, <2>2, <2>4 DEF StartNotify, RestOK
  <2>5. CASE ~NotifyNext(Scheduler, "notify") /\ ~StartNotify
    <3>1. notify_left' = notify_left
      BY <1>4, <2>5, Zenon DEF SchedulerStep, SchedulerLoop, SchedulerExit,
           SchedulerStranded, EventCallback, CallDeadlockCallback,
           CallDeadlockCallbackInVain, cat_coroutine_deadlock, SkipNotify, NotifyNull,
           EndNotify, cat_coroutine_unlock_deadlock, waitVars
    <3> QED
      BY <1>1, <2>2, <3>1 DEF RestOK
  <2> QED
    BY <2>3, <2>4, <2>5, Zenon
<1>5. CASE Halted
  BY <1>1, <1>5 DEF Halted, vars, waitVars, RestOK
<1> QED
  BY <1>1, <1>2, <1>3, <1>4, <1>5, Zenon DEF Next, RestOK

-----------------------------------------------------------------------------
\* The inductive invariant holds after runtime_init().
LEMMA InitIInv == Init => IInv
<1> SUFFICES ASSUME Init PROVE IInv
  OBVIOUS
<1>1. AliveSet = {Main}
  BY MainAssumption, SchedulerAssumption DEF Init, AliveSet, Alive, Routine
<1>2. CountExact /\ count \in Nat
  <2>1. Cardinality(AliveSet) = 1
    BY <1>1, FS_Singleton
  <2>2. count = Cardinality(AliveSet)
    BY <2>1 DEF Init
  <2> QED
    BY <2>1, <2>2 DEF CountExact, AliveSet
<1>3. WaitSet = {}
  BY DEF Init, WaitSet, InWaitAll
<1>4. WaitersExact /\ waiters \in Seq(Coroutine)
  <2>1. waiters = << >> /\ waiter_count = 0
    BY DEF Init
  <2>2. waiters \in Seq(Coroutine) /\ Len(waiters) = 0 /\ DOMAIN waiters = {}
    BY <2>1
  <2>3. OnChain(waiters) = {}
    BY <2>2 DEF OnChain
  <2> QED
    BY <1>3, <2>1, <2>2, <2>3, Zenon DEF WaitersExact, WaitSet
<1> QED
  BY <1>2, <1>4, InitCore, Zenon DEF Init, IInv, Counting

\* Every step preserves the inductive invariant.
LEMMA NextIInv == IInv /\ [Next]_vars => IInv'
<1> SUFFICES ASSUME IInv, [Next]_vars PROVE IInv'
  OBVIOUS
<1>1. Core'
  BY NextCore DEF IInv
<1>2. CASE Next
  <2>1. CountOK' /\ WaitOK' /\ RestOK'
    BY <1>2, NextCount, NextWait, NextRest DEF IInv
  <2> QED
    BY <1>1, <2>1 DEF IInv, Counting, CountOK, WaitOK, RestOK
<1>3. CASE UNCHANGED vars
  <2>1. AliveSet' = AliveSet /\ WaitSet' = WaitSet /\ UNCHANGED << count, waitVars, last_chance >>
    BY <1>3 DEF vars, AliveSet, Alive, WaitSet, InWaitAll
  <2>2. CountOK' /\ WaitOK'
    BY <2>1, SameAlive, SameWaiters DEF IInv, Counting, CountOK, WaitOK, waitVars
  <2> QED
    BY <1>1, <2>1, <2>2, Zenon DEF IInv, Counting, CountOK, WaitOK, waitVars
<1> QED
  BY <1>2, <1>3

\* The inductive invariant always holds.
LEMMA Invariance == Spec => []IInv
<1>1. Init => IInv
  BY InitIInv
<1>2. IInv /\ [Next]_vars => IInv'
  BY NextIInv
<1> QED
  BY <1>1, <1>2, PTL DEF Spec

\* Every variable keeps its type; in particular count and waiter_count, which
\* are unsigned in the code and decremented without a check, never underflow.
THEOREM TypeCorrect == Spec => []TypeOK
<1>1. IInv => TypeOK
  BY DEF IInv, Core, CoreType, Counting, TypeOK
<1> QED
  BY <1>1, Invariance, PTL

\* The pointers are one doubly linked list that ends in the current coroutine.
THEOREM LinksCorrect == Spec => []LinksSound
<1>1. IInv => LinksSound
  BY LinkedSound DEF IInv
<1> QED
  BY <1>1, Invariance, PTL

\* Exactly the current coroutine is RUNNING.
THEOREM RunningCorrect == Spec => []OneRunning
<1>1. IInv => OneRunning
  BY DEF IInv, Core
<1> QED
  BY <1>1, Invariance, PTL

\* The SCHEDULING bit is set exactly inside schedule(), although it is toggled.
THEOREM SchedulingCorrect == Spec => []SchedulingExact
<1>1. IInv => SchedulingExact
  BY DEF IInv, Core
<1> QED
  BY <1>1, Invariance, PTL

\* The count deadlock detection rests on is the number of live coroutines.
THEOREM CountCorrect == Spec => []CountExact
<1>1. IInv => CountExact
  BY DEF IInv, Counting
<1> QED
  BY <1>1, Invariance, PTL

\* The waiters queue and its counter hold exactly those inside wait_all().
THEOREM WaitersCorrect == Spec => []WaitersExact
<1>1. IInv => WaitersExact
  BY DEF IInv, Counting
<1> QED
  BY <1>1, Invariance, PTL

\* A coroutine with a pending timer or event waits, off the run chain.
THEOREM ArmedCorrect == Spec => []ArmedParked
<1>1. IInv => ArmedParked
  BY DEF IInv, Core
<1> QED
  BY <1>1, Invariance, PTL

\* All that the code keeps in several places agrees, for any set of coroutines.
THEOREM StateCorrect == Spec => []StateExact
<1>1. TypeOK /\ OneRunning /\ CountExact /\ WaitersExact /\ SchedulingExact /\ ArmedParked
        => StateExact
  BY DEF StateExact
<1> QED
  BY <1>1, TypeCorrect, RunningCorrect, CountCorrect, WaitersCorrect, SchedulingCorrect,
     ArmedCorrect, PTL

-----------------------------------------------------------------------------
(* Closing *)

\* Only the main coroutine calls wait_all(), and the flags of a freed coroutine are clear.
OneCaller == WaitAllCallers \subseteq {Main} /\ FreedFlags = {FALSE}

\* No coroutine but the main one lives.
Alone == \A c \in Coroutine \ {Main} : ~ Alive(c)

\* Who gave the control to the current coroutine is in schedule().
Asked == from[current] \in Routine \ {current} /\ cont[from[current]] \in InSchedule

OnlyMainWaits == \A c \in Routine : InWaitAll(c) => c = Main

\* notify_all() has one coroutine to notify, the last one.
NotifyInv ==
  notify_left > 0 =>
    /\ notify_left = 1 /\ current = Scheduler /\ cont[Scheduler] = "notify"
    /\ InWaitAll(Main) /\ Alone

\* The wait of scheduler_close() is done when notify_all() says so.
CloseWaitInv ==
  current = Main /\ cont[Main] = "close_wait" =>
    /\ from[Main] \in Routine \ {Main}
    /\ Asked => cont[Scheduler] = "notify" /\ Alone

\* The scheduler is asked to exit by scheduler_close().
AskedInv ==
  current = Scheduler =>
    /\ from[Scheduler] \in Routine \ {Scheduler}
    /\ Asked => cont[Main] = "close_sched"

\* It exits at once.
ClosingInv ==
  cont[Main] = "close_sched" =>
    \/ current = Main /\ scheduler = NULL
    \/ /\ current = Scheduler /\ cont[Scheduler] \in {"notify", "top"}
       /\ from[Scheduler] = Main /\ previous[Scheduler] = Main /\ Alone

CloseInv ==
  /\ OnlyMainWaits /\ NotifyInv /\ CloseWaitInv /\ AskedInv /\ ClosingInv
  /\ state[Scheduler] # "DEAD"

\* There is nobody left to notify.
LEMMA NothingToNotify == ~ (0 > 0)
  OBVIOUS

\* What the loop of the scheduler and scheduler_close() read is whether they were asked.
LEMMA AskedFlag ==
  ASSUME OneCaller, Core, from[current] \in Routine \ {current}
  PROVE  (TRUE \in FromFlag(current) <=> Asked) /\ (FALSE \in FromFlag(current) <=> ~ Asked)
<1> DEFINE f == from[current]
<1>1. f \in Routine /\ f # current /\ (scheduling[f] <=> cont[f] \in InSchedule)
  BY Zenon DEF Core, SchedulingExact, InSchedule
<1>2. scheduling[f] \in BOOLEAN /\ (cont[f] = "none" <=> state[f] = "NONE")
  BY <1>1 DEF Core, CoreType, Control
<1>3. Asked <=> cont[f] \in InSchedule
  BY <1>1, ZenonT(30) DEF Asked
<1>4. FromFlag(current) = IF state[f] = "NONE" THEN {FALSE} ELSE {scheduling[f]}
  BY Zenon DEF FromFlag, OneCaller
<1> HIDE DEF f
<1>5. CASE state[f] = "NONE"
  <2>1. cont[f] \notin InSchedule
    BY <1>2, <1>5 DEF InSchedule
  <2> QED
    BY <1>3, <1>4, <1>5, <2>1, Zenon
<1>6. CASE state[f] # "NONE"
  BY <1>1, <1>2, <1>3, <1>4, <1>6, ZenonT(30)
<1> QED
  BY <1>5, <1>6, Zenon

\* The control goes from a coroutine to another; the scheduler is not asked to exit.
LEMMA JumpCloses ==
  ASSUME Core, OnlyMainWaits, cont[Main] # "close_sched", state'[Scheduler] # "DEAD",
         notify_left' = 0, NEW t \in Routine \ {current}, NEW k,
         k \in {"wait_all", "close_wait"} => current = Main, k # "close_sched",
         k \in InSchedule => t # Scheduler /\ cont[t] # "close_wait",
         current' = t, from' = [from EXCEPT ![t] = current],
         cont' = [cont EXCEPT ![current] = k, ![t] = Landing(cont[t])]
  PROVE  CloseInv'
<1>1. /\ current \in Routine /\ t \in Routine /\ t # current /\ Main \in Routine
      /\ cont \in [Routine -> Conts] /\ from \in [Routine -> Routine \cup {NULL}]
  BY MainAssumption DEF Core, CoreType, Routine
<1>2. /\ cont'[current] = k /\ cont'[t] = Landing(cont[t]) /\ from'[t] = current
      /\ \A c \in Routine \ {current, t} : cont'[c] = cont[c]
  BY <1>1, Zenon
<1>3. \A p \in {"wait_all", "close_wait", "close_sched"} : Landing(cont[t]) = p <=> cont[t] = p
  BY Zenon DEF Landing
<1>4. OnlyMainWaits'
  BY <1>1, <1>2, <1>3, Zenon DEF OnlyMainWaits, InWaitAll
<1>5. cont'[Main] # "close_sched"
  BY <1>1, <1>2, <1>3, Zenon
<1>6. t = Scheduler \/ cont'[t] = "close_wait" => ~ Asked'
  BY <1>1, <1>2, <1>3, Zenon DEF Asked
<1>7. NotifyInv'
  BY DEF NotifyInv
<1>8. CloseWaitInv'
  BY <1>1, <1>2, <1>6, Zenon DEF CloseWaitInv
<1>9. AskedInv'
  BY <1>1, <1>2, <1>6, Zenon DEF AskedInv
<1>10. ClosingInv'
  BY <1>5, Zenon DEF ClosingInv
<1> QED
  BY <1>4, <1>7, <1>8, <1>9, <1>10, Zenon DEF CloseInv

\* A coroutine that runs its own code goes on, or another one is created or closed.
LEMMA StayCloses ==
  ASSUME CloseInv, Core, current \in Coroutine, current' = current,
         cont[Main] # "close_sched", cont'[Main] \notin {"close_wait", "close_sched"} \/
           (cont'[Main] = cont[Main] /\ current # Main),
         \A c \in Routine : InWaitAll(c)' => InWaitAll(c),
         notify_left' = 0, state'[Scheduler] # "DEAD"
  PROVE  CloseInv'
<1>1. current # Scheduler
  BY SchedulerAssumption, Zenon
<1>2. OnlyMainWaits'
  BY Zenon DEF CloseInv, OnlyMainWaits
<1>3. NotifyInv'
  BY NothingToNotify, Zenon DEF NotifyInv
<1>4. AskedInv'
  BY <1>1, Zenon DEF AskedInv
<1>5. CloseWaitInv'
  BY Zenon DEF CloseWaitInv
<1>6. ClosingInv'
  BY Zenon DEF ClosingInv
<1> QED
  BY <1>2, <1>3, <1>4, <1>5, <1>6, Zenon DEF CloseInv

\* A coroutine resumes another one.
LEMMA ResumeCloses ==
  ASSUME Core, CloseInv, cont[Main] # "close_sched", notify_left' = 0, NEW t \in Routine,
         NEW k \in {"user", "schedule", "callback", "notify"}, NEW flag, ResumeTo(t, k, flag),
         k \in InSchedule => t # Scheduler /\ cont[t] # "close_wait"
  PROVE  CloseInv'
<1>1. t # current /\ current \in Routine /\ state \in [Routine -> {"NONE", "WAITING", "RUNNING", "DEAD"}]
  BY Zenon DEF ResumeTo, Core, CoreType, OneRunning
<1>2. /\ current' = t /\ from' = [from EXCEPT ![t] = current]
      /\ cont' = [cont EXCEPT ![current] = k, ![t] = Landing(cont[t])]
      /\ state' = [state EXCEPT ![current] = "WAITING", ![t] = "RUNNING"]
  BY DEF ResumeTo, Jump
<1>3. state'[Scheduler] # "DEAD" /\ OnlyMainWaits
  BY <1>1, <1>2 DEF CloseInv, Routine
<1>4. k # "close_sched" /\ k \notin {"wait_all", "close_wait"}
  OBVIOUS
<1> QED
  BY <1>1, <1>2, <1>3, <1>4, JumpCloses, ZenonT(30)

\* A coroutine yields or ends.
LEMMA YieldCloses ==
  ASSUME Core, CloseInv, cont[Main] # "close_sched", notify_left' = 0,
         NEW k \in {"none", "user", "wait_all", "close_wait"}, NEW arm,
         k \in {"wait_all", "close_wait"} => current = Main,
         YieldWith(k, arm) \/ (Die /\ k = "none")
  PROVE  CloseInv'
<1> DEFINE t == YieldTarget
<1>1. /\ t \in Routine /\ t # current /\ current \in Routine
      /\ state \in [Routine -> {"NONE", "WAITING", "RUNNING", "DEAD"}]
  BY UnlinkKeepsLinked, Zenon DEF YieldWith, Jump, Die, Core, CoreType
<1>2. /\ current' = t /\ from' = [from EXCEPT ![t] = current]
      /\ cont' = [cont EXCEPT ![current] = k, ![t] = Landing(cont[t])]
      /\ \E s \in {"WAITING", "NONE"} : state' = [state EXCEPT ![current] = s, ![t] = "RUNNING"]
  BY DEF YieldWith, Jump, Die
<1> HIDE DEF t
<1>3. state'[Scheduler] # "DEAD" /\ OnlyMainWaits
  BY <1>1, <1>2 DEF CloseInv, Routine
<1>4. k # "close_sched" /\ k \notin InSchedule
  BY DEF InSchedule
<1> QED
  BY <1>1, <1>2, <1>3, <1>4, JumpCloses, ZenonT(30)

\* While a coroutine runs its own code nobody is being notified or asked to exit.
LEMMA UserCalm ==
  ASSUME Core, Counting, CloseInv, NEW c \in Coroutine, current = c,
         cont[c] \in {"user", "wait_all", "close_wait"}
  PROVE  cont[Main] # "close_sched" /\ notify_left = 0
<1>1. c # Scheduler /\ notify_left \in Nat
  BY SchedulerAssumption DEF Counting
<1>2. notify_left = 0
  BY <1>1 DEF CloseInv, NotifyInv
<1>3. cont[Main] # "close_sched"
  BY <1>1, Zenon DEF CloseInv, ClosingInv
<1> QED
  BY <1>2, <1>3

\* What a coroutine calls.
LEMMA UserCloses ==
  ASSUME OneCaller, Core, Counting, CloseInv, NEW c \in Coroutine, UserStep(c)
  PROVE  CloseInv'
<1>1. current = c /\ cont[c] \in {"user", "wait_all"}
  BY Zenon DEF UserStep, cat_coroutine_create, cat_coroutine_close, cat_coroutine_resume,
         cat_coroutine_schedule, cat_coroutine_yield, cat_coroutine_wait_all_ex, Finish,
         FinishNowhere, WaitAllReturn, InUser
<1>2. cont[Main] # "close_sched" /\ notify_left = 0
  BY <1>1, UserCalm, Zenon
<1>3. /\ cont \in [Routine -> Conts] /\ state \in [Routine -> {"NONE", "WAITING", "RUNNING", "DEAD"}]
      /\ Main \in Coroutine /\ Coroutine \subseteq Routine
      /\ Scheduler \in Routine \ Coroutine /\ state[Scheduler] # "DEAD"
  BY MainAssumption, SchedulerAssumption, Zenon DEF Core, CoreType, Routine, CloseInv
<1>4. ASSUME NEW t \in Coroutine, cat_coroutine_create(c, t) \/ cat_coroutine_close(c, t)
      PROVE  CloseInv'
  <2>1. /\ current' = current /\ notify_left' = notify_left /\ t # Main /\ cont[c] = "user"
        /\ \E k \in {"new", "none"} : cont' = [cont EXCEPT ![t] = k]
        /\ \E s \in {"WAITING", "NONE"} : state' = [state EXCEPT ![t] = s]
    <3>1. cont[Main] # "new"
      BY <1>3, Zenon DEF Core, Control, LegalCont
    <3> QED
      BY <1>4, <3>1, Zenon DEF cat_coroutine_create, cat_coroutine_close, InUser, waitVars
  <2>2. cont'[Main] = cont[Main] /\ \A d \in Routine : InWaitAll(d)' => InWaitAll(d)
    BY <1>3, <2>1, Zenon DEF InWaitAll
  <2>3. state'[Scheduler] # "DEAD"
    BY <1>3, <2>1
  <2>4. current # Main \/ cont[Main] = "user"
    BY <1>1, <2>1
  <2> QED
    BY <1>1, <1>2, <2>1, <2>2, <2>3, <2>4, StayCloses, Zenon
<1>5. ASSUME NEW t \in Coroutine, cat_coroutine_resume(c, t) \/ cat_coroutine_schedule(c, t)
      PROVE  CloseInv'
  <2>1. /\ notify_left' = 0 /\ t \in Routine
        /\ \/ ResumeTo(t, "user", FALSE)
           \/ ResumeTo(t, "schedule", TRUE) /\ t # Scheduler /\ cont[t] # "close_wait"
    BY <1>2, <1>3, <1>5, Zenon DEF cat_coroutine_resume, cat_coroutine_schedule, Parked, waitVars
  <2>2. "user" \notin InSchedule
    BY DEF InSchedule
  <2> QED
    BY <1>2, <2>1, <2>2, ResumeCloses, Zenon
<1>6. ASSUME NEW b \in BOOLEAN, cat_coroutine_yield(c, b) \/ cat_coroutine_wait_all_ex(c, b)
      PROVE  CloseInv'
  <2>1. notify_left' = 0
    BY <1>2, <1>6 DEF cat_coroutine_yield, cat_coroutine_wait_all_ex, WaitAll, waitVars
  <2>2. CASE cat_coroutine_yield(c, b)
    BY <1>2, <2>1, <2>2, YieldCloses, Zenon DEF cat_coroutine_yield
  <2>3. CASE cat_coroutine_wait_all_ex(c, b)
    <3>1. current = Main
      BY <1>1, <2>3, Zenon DEF cat_coroutine_wait_all_ex, OneCaller
    <3> QED
      BY <1>2, <2>1, <2>3, <3>1, YieldCloses, Zenon DEF cat_coroutine_wait_all_ex, WaitAll
  <2> QED
    BY <1>6, <2>2, <2>3, Zenon
<1>7. CASE Finish(c)
  <2>1. notify_left' = 0 /\ Die
    BY <1>2, <1>7, Zenon DEF Finish, waitVars
  <2> QED
    BY <1>2, <2>1, YieldCloses
<1>8. CASE FinishNowhere(c) \/ WaitAllReturn(c)
  <2>1. /\ current' = current /\ notify_left' = notify_left
        /\ \E k \in {"fault", "user"} : cont' = [cont EXCEPT ![c] = k]
        /\ state' = state \/ state' = [state EXCEPT ![c] = "DEAD"]
    BY <1>8 DEF FinishNowhere, WaitAllReturn, waitVars
  <2>2. /\ \A d \in Routine : InWaitAll(d)' => InWaitAll(d)
        /\ cont'[Main] \notin {"close_wait", "close_sched"} \/ (cont'[Main] = cont[Main] /\ current # Main)
    BY <1>1, <1>3, <2>1 DEF InWaitAll
  <2>3. state'[Scheduler] # "DEAD"
    BY <1>3, <2>1
  <2> QED
    BY <1>1, <1>2, <2>1, <2>2, <2>3, StayCloses, Zenon
<1> QED
  BY <1>4, <1>5, <1>6, <1>7, <1>8, Zenon DEF UserStep

\* What the main coroutine calls: scheduler_run(), scheduler_close(), runtime_shutdown().
LEMMA MainCloses ==
  ASSUME OneCaller, Core, Counting, CloseInv, MainStep
  PROVE  CloseInv'
<1>1. /\ Main \in Coroutine /\ Main \in Routine /\ Scheduler \in Routine /\ Main # Scheduler
      /\ cont \in [Routine -> Conts] /\ from \in [Routine -> Routine \cup {NULL}]
      /\ state \in [Routine -> {"NONE", "WAITING", "RUNNING", "DEAD"}] /\ state[Scheduler] # "DEAD"
      /\ previous \in [Routine -> Routine \cup {NULL}] /\ notify_left \in Nat
  BY MainAssumption, SchedulerAssumption DEF Core, CoreType, Counting, Routine, CloseInv
<1>2. current = Main
  BY Zenon DEF MainStep, cat_coroutine_scheduler_run, cat_coroutine_scheduler_close, CloseScheduler,
         CloseWaitAgain, CloseReturn, cat_coroutine_runtime_shutdown, NotifyNext, NotifyNull,
         ShutdownReturn, InUser
<1>3. notify_left = 0
  BY <1>1, <1>2 DEF CloseInv, NotifyInv
<1>4. ASSUME NEW k \in {"user", "shutdown", "down"}, current' = current,
             cont' = [cont EXCEPT ![Main] = k], notify_left' = 0, state' = state
      PROVE  CloseInv'
  <2>1. cont'[Main] = k /\ \A c \in Routine \ {Main} : cont'[c] = cont[c]
    BY <1>1, <1>4
  <2>2. OnlyMainWaits'
    BY <2>1, ZenonT(30) DEF CloseInv, OnlyMainWaits, InWaitAll
  <2>3. NotifyInv'
    BY <1>4 DEF NotifyInv
  <2>4. k # "close_wait" /\ k # "close_sched"
    BY <1>4
  <2>5. CloseWaitInv' /\ AskedInv' /\ ClosingInv'
    BY <1>1, <1>2, <1>4, <2>1, <2>4, ZenonT(30) DEF CloseWaitInv, AskedInv, ClosingInv
  <2> QED
    BY <1>1, <1>4, <2>2, <2>3, <2>5, Zenon DEF CloseInv
<1>5. CASE cat_coroutine_scheduler_run
  <2>1. /\ current' = current /\ notify_left' = notify_left /\ cont[Main] = "user"
        /\ cont' = [cont EXCEPT ![Scheduler] = "init"]
        /\ state' = [state EXCEPT ![Scheduler] = "WAITING"]
    BY <1>5, Zenon DEF cat_coroutine_scheduler_run, InUser, waitVars
  <2>2. cont'[Main] = "user" /\ \A d \in Routine : InWaitAll(d)' => InWaitAll(d)
    BY <1>1, <2>1, Zenon DEF InWaitAll
  <2>3. state'[Scheduler] # "DEAD"
    BY <1>1, <2>1
  <2> QED
    BY <1>1, <1>2, <1>3, <2>1, <2>2, <2>3, StayCloses, Zenon
<1>6. CASE cat_coroutine_scheduler_close \/ CloseWaitAgain
  <2>1. /\ YieldWith("close_wait", {}) /\ notify_left' = 0
        /\ cont[Main] \in {"user", "close_wait"}
    BY <1>3, <1>6, Zenon DEF cat_coroutine_scheduler_close, WaitAll, CloseWaitAgain, InUser
  <2> QED
    BY <1>2, <2>1, YieldCloses
<1>7. CASE CloseScheduler
  <2>1. /\ cont[Main] = "close_wait" /\ TRUE \in FromFlag(current) /\ notify_left' = 0
        /\ ResumeTo(Scheduler, "close_sched", TRUE)
    BY <1>2, <1>3, <1>7, Zenon DEF CloseScheduler
  <2>2. cont[Scheduler] = "notify" /\ Alone
    BY <1>2, <2>1, AskedFlag, ZenonT(30) DEF CloseInv, CloseWaitInv
  <2>3. /\ current' = Scheduler /\ from' = [from EXCEPT ![Scheduler] = Main]
        /\ cont' = [cont EXCEPT ![Main] = "close_sched", ![Scheduler] = Landing("notify")]
        /\ state' = [state EXCEPT ![Main] = "WAITING", ![Scheduler] = "RUNNING"]
        /\ previous'[Scheduler] = Main
    BY <1>1, <1>2, <2>1, <2>2, Zenon DEF ResumeTo, Jump, Link
  <2>4. /\ from'[Scheduler] = Main /\ cont'[Scheduler] = "notify" /\ cont'[Main] = "close_sched"
        /\ \A c \in Routine \ {Main, Scheduler} : cont'[c] = cont[c] /\ state'[c] = state[c]
        /\ state'[Scheduler] # "DEAD"
    BY <1>1, <2>3, ZenonT(30) DEF Landing
  <2>5. OnlyMainWaits'
    BY <2>4, ZenonT(30) DEF CloseInv, OnlyMainWaits, InWaitAll
  <2>6. Alone'
    <3>1. \A c \in Coroutine : c \in Routine /\ c # Scheduler
      BY SchedulerAssumption DEF Routine
    <3> QED
      BY <2>2, <2>4, <3>1, Zenon DEF Alone, Alive
  <2>7. NotifyInv'
    BY <2>1 DEF NotifyInv
  <2>8. CloseWaitInv' /\ AskedInv' /\ ClosingInv'
    BY <1>1, <2>3, <2>4, <2>6, Zenon DEF CloseWaitInv, AskedInv, ClosingInv
  <2> QED
    BY <2>4, <2>5, <2>7, <2>8, Zenon DEF CloseInv
<1>8. CASE CloseReturn \/ ShutdownReturn
  <2>1. /\ current' = current /\ notify_left' = 0 /\ state' = state
        /\ \E k \in {"user", "down"} : cont' = [cont EXCEPT ![Main] = k]
    BY <1>3, <1>8 DEF CloseReturn, ShutdownReturn, waitVars
  <2> QED
    BY <1>4, <2>1, ZenonT(30)
<1>9. CASE cat_coroutine_runtime_shutdown
  <2>1. /\ current' = current /\ notify_left' = waiter_count /\ state' = state
        /\ cont' = [cont EXCEPT ![Main] = "shutdown"] /\ cont[Main] = "user"
    BY <1>9 DEF cat_coroutine_runtime_shutdown, InUser
  <2>2. waiter_count = 0
    <3>1. {c \in Routine : InWaitAll(c)} = {}
      BY <2>1 DEF CloseInv, OnlyMainWaits, InWaitAll
    <3>2. waiter_count = Len(waiters) /\ OnChain(waiters) = {} /\ waiters \in Seq(Coroutine)
      BY <3>1 DEF Counting, WaitersExact
    <3> QED
      BY <3>2 DEF OnChain
  <2> QED
    BY <1>4, <2>1, <2>2
<1>10. ~ NotifyNext(Main, "shutdown") /\ ~ NotifyNull(Main, "shutdown")
  BY <1>3 DEF NotifyNext, NotifyNull
<1> QED
  BY <1>5, <1>6, <1>7, <1>8, <1>9, <1>10, Zenon DEF MainStep

\* When nothing is unfinished the coroutine in wait_all() is the only one.
LEMMA LastOne ==
  ASSUME Core, Counting, OnlyMainWaits, ~ is_unfinished
  PROVE  waiter_count > 0 => waiter_count = 1 /\ InWaitAll(Main) /\ Alone
<1> SUFFICES ASSUME waiter_count > 0
             PROVE  waiter_count = 1 /\ InWaitAll(Main) /\ Alone
  BY Zenon
<1>1. /\ waiters \in Seq(Coroutine) /\ waiter_count = Len(waiters) /\ waiter_count \in Nat
      /\ \A i \in DOMAIN waiters : waiters[i] \in {c \in Routine : InWaitAll(c)}
      /\ \A i, j \in DOMAIN waiters : waiters[i] = waiters[j] => i = j
  BY DEF Counting, WaitersExact, OnChain
<1>2. \A i \in DOMAIN waiters : waiters[i] = Main /\ InWaitAll(Main)
  BY <1>1 DEF OnlyMainWaits
<1>3. 1 \in DOMAIN waiters /\ (waiter_count > 1 => 2 \in DOMAIN waiters)
  BY <1>1
<1>4. waiter_count = 1 /\ InWaitAll(Main)
  BY <1>1, <1>2, <1>3
<1>5. Main \in AliveSet
  BY <1>4, MainAssumption, Zenon DEF AliveSet, Alive, InWaitAll, Core, Control, Routine
<1>6. IsFiniteSet(AliveSet) /\ Cardinality(AliveSet) = 1
  BY <1>4, AliveFinite DEF Counting, CountExact, is_unfinished, AliveSet
<1>7. AliveSet = {Main}
  <2>1. AliveSet \ {Main} = {}
    <3>1. IsFiniteSet(AliveSet \ {Main}) /\ Cardinality(AliveSet \ {Main}) = 0
      BY <1>5, <1>6, FS_RemoveElement
    <3> QED
      BY <3>1, FS_EmptySet, Zenon
  <2> QED
    BY <1>5, <2>1
<1> QED
  BY <1>4, <1>7 DEF Alone, AliveSet

\* The scheduler goes on without a switch.
LEMMA SchedulerStayCloses ==
  ASSUME Core, CloseInv, AtScheduler("loop"), NEW k \in {"loop", "deadlock", "top", "notify"},
         SchedulerAt(k), Counting,
         \/ notify_left' = notify_left
         \/ k = "notify" /\ notify_left' = waiter_count /\ ~ is_unfinished
  PROVE  CloseInv'
<1>1. /\ Main \in Routine /\ Scheduler \in Routine /\ Main # Scheduler
      /\ cont \in [Routine -> Conts] /\ current = Scheduler /\ current' = Scheduler
      /\ cont[Scheduler] = "loop" /\ notify_left \in Nat
  BY MainAssumption, SchedulerAssumption
     DEF Core, CoreType, Counting, Routine, AtScheduler, SchedulerAt
<1>2. cont' = [cont EXCEPT ![Scheduler] = k] /\ state' = state /\ from' = from
  BY DEF SchedulerAt
<1>3. cont'[Scheduler] = k /\ \A c \in Routine \ {Scheduler} : cont'[c] = cont[c]
  BY <1>1, <1>2, Zenon
<1>4. cont'[Main] # "close_sched"
  BY <1>1, <1>3 DEF CloseInv, ClosingInv
<1>5. OnlyMainWaits'
  BY <1>3 DEF CloseInv, OnlyMainWaits, InWaitAll
<1>6. AskedInv'
  <2>1. from[Scheduler] \in Routine \ {Scheduler} /\ (Asked => cont[Main] = "close_sched")
    BY <1>1, Zenon DEF CloseInv, AskedInv
  <2>2. Asked' => Asked
    BY <1>1, <1>2, <1>3, <2>1, Zenon DEF Asked
  <2> QED
    BY <1>1, <1>2, <1>3, <2>1, <2>2, Zenon DEF AskedInv
<1>7. NotifyInv'
  <2>1. notify_left = 0
    BY <1>1 DEF CloseInv, NotifyInv
  <2>2. CASE notify_left' = notify_left
    BY <2>1, <2>2 DEF NotifyInv
  <2>3. CASE k = "notify" /\ notify_left' = waiter_count /\ ~ is_unfinished
    <3>1. waiter_count > 0 => waiter_count = 1 /\ InWaitAll(Main) /\ Alone
      BY <2>3, LastOne, Zenon DEF CloseInv
    <3>2. (InWaitAll(Main) => InWaitAll(Main)') /\ (Alone => Alone')
      BY <1>1, <1>2, <1>3 DEF InWaitAll, Alone, Alive, Routine
    <3> QED
      BY <1>1, <1>3, <2>3, <3>1, <3>2, Zenon DEF NotifyInv
  <2> QED
    BY <2>2, <2>3
<1> QED
  BY <1>1, <1>2, <1>4, <1>5, <1>6, <1>7, Zenon DEF CloseInv, CloseWaitInv, ClosingInv

\* What the scheduler does.
LEMMA SchedulerCloses ==
  ASSUME OneCaller, Core, Counting, CloseInv, SchedulerStep \/ cat_coroutine_unlock_deadlock
  PROVE  CloseInv'
<1>1. /\ Main \in Routine /\ Scheduler \in Routine /\ Main # Scheduler /\ Main \in Coroutine
      /\ cont \in [Routine -> Conts] /\ from \in [Routine -> Routine \cup {NULL}]
      /\ state \in [Routine -> {"NONE", "WAITING", "RUNNING", "DEAD"}] /\ state[Scheduler] # "DEAD"
      /\ notify_left \in Nat /\ Coroutine \subseteq Routine /\ Scheduler \notin Coroutine
  BY MainAssumption, SchedulerAssumption DEF Core, CoreType, Counting, Routine, CloseInv
<1>2. current = Scheduler
  BY ZenonT(30) DEF SchedulerStep, SchedulerLoop, SchedulerExit, SchedulerStranded, EventCallback,
         CallDeadlockCallback, CallDeadlockCallbackInVain, cat_coroutine_deadlock, SkipNotify,
         StartNotify, NotifyNext, NotifyNull, EndNotify, cat_coroutine_unlock_deadlock,
         LoopDrained, AtScheduler
<1>3. /\ from[Scheduler] \in Routine \ {Scheduler}
      /\ TRUE \in FromFlag(Scheduler) <=> Asked
      /\ FALSE \in FromFlag(Scheduler) <=> ~ Asked
      /\ Asked => cont[Main] = "close_sched"
  BY <1>2, AskedFlag, ZenonT(30) DEF CloseInv, AskedInv
<1>4. cont[Main] = "close_sched" =>
        /\ cont[Scheduler] \in {"notify", "top"} /\ Alone /\ Asked
        /\ from[Scheduler] = Main /\ previous[Scheduler] = Main
  BY <1>1, <1>2 DEF CloseInv, ClosingInv, Asked, InSchedule
<1>5. notify_left > 0 => /\ notify_left = 1 /\ cont[Scheduler] = "notify"
                         /\ InWaitAll(Main) /\ Alone
  BY DEF CloseInv, NotifyInv

\* From one place to another.
<1>6. ASSUME NEW k \in {"top", "loop"}, SchedulerAt(k), notify_left = 0, notify_left' = 0,
             k = "top" \/ cont[Main] # "close_sched"
      PROVE  CloseInv'
  <2>1. /\ current' = current /\ cont' = [cont EXCEPT ![Scheduler] = k] /\ state' = state
        /\ from' = from /\ previous' = previous
    BY <1>6 DEF SchedulerAt, links
  <2>2. cont'[Scheduler] = k /\ \A c \in Routine \ {Scheduler} : cont'[c] = cont[c]
    BY <1>1, <2>1
  <2>3. Asked' <=> Asked
    BY <1>2, <1>3, <2>1, <2>2, ZenonT(30) DEF Asked
  <2>4. Alone => Alone'
    BY <1>1, <2>1, <2>2, Zenon DEF Alone, Alive
  <2>5. OnlyMainWaits'
    BY <2>2, Zenon DEF CloseInv, OnlyMainWaits, InWaitAll
  <2>6. AskedInv' /\ NotifyInv' /\ CloseWaitInv'
    BY <1>1, <1>2, <1>3, <1>6, <2>1, <2>2, <2>3 DEF AskedInv, NotifyInv, CloseWaitInv
  <2>7. ClosingInv'
    BY <1>1, <1>2, <1>4, <1>6, <2>1, <2>2, <2>4, ZenonT(30) DEF ClosingInv
  <2> QED
    BY <1>1, <2>1, <2>5, <2>6, <2>7, Zenon DEF CloseInv
<1>7. CASE SchedulerLoop \/ EndNotify \/ cat_coroutine_unlock_deadlock
  <2>1. notify_left' = notify_left
    BY <1>7, Zenon DEF SchedulerLoop, EndNotify, cat_coroutine_unlock_deadlock, waitVars
  <2>2. CASE SchedulerLoop
    <3>1. cont[Scheduler] = "top" /\ SchedulerAt("loop") /\ ~ Asked
      BY <1>3, <2>2, Zenon DEF SchedulerLoop, AtScheduler
    <3>2. notify_left = 0 /\ notify_left' = 0
      BY <1>5, <2>1, <3>1 DEF Counting
    <3> QED
      BY <1>4, <1>6, <3>1, <3>2, Zenon
  <2>3. CASE EndNotify \/ cat_coroutine_unlock_deadlock
    <3>1. SchedulerAt("top") /\ (notify_left = 0 \/ cont[Scheduler] = "deadlock")
      BY <2>3 DEF EndNotify, cat_coroutine_unlock_deadlock, AtScheduler
    <3>2. notify_left = 0 /\ notify_left' = 0
      BY <1>5, <2>1, <3>1 DEF Counting
    <3> QED
      BY <1>6, <3>1, <3>2, Zenon
  <2> QED
    BY <1>7, <2>2, <2>3
<1>8. CASE SchedulerExit
  <2>1. cont[Main] = "close_sched" /\ previous[Scheduler] = Main /\ cont[Scheduler] = "top"
    BY <1>3, <1>4, <1>8, ZenonT(30) DEF SchedulerExit, AtScheduler
  <2>2. YieldTarget = Main
    BY <1>1, <1>2, <2>1, NullAssumption, Zenon DEF YieldTarget, Routine
  <2>3. /\ current' = Main /\ scheduler' = NULL /\ notify_left' = notify_left
        /\ cont' = [cont EXCEPT ![Scheduler] = "none", ![Main] = Landing("close_sched")]
        /\ state' = [state EXCEPT ![Scheduler] = "NONE", ![Main] = "RUNNING"]
    BY <1>2, <1>8, <2>1, <2>2, ZenonT(30) DEF SchedulerExit, Die, waitVars
  <2>4. /\ cont'[Main] = "close_sched" /\ state'[Scheduler] # "DEAD"
        /\ \A c \in Routine \ {Main} : InWaitAll(c)' => InWaitAll(c)
    BY <1>1, <2>3 DEF Landing, InWaitAll
  <2>5. NotifyInv'
    <3>1. notify_left' = 0
      BY <1>5, <2>1, <2>3 DEF Counting
    <3> QED
      BY <3>1 DEF NotifyInv
  <2>6. OnlyMainWaits'
    BY <2>4, Zenon DEF CloseInv, OnlyMainWaits
  <2>7. CloseWaitInv' /\ AskedInv' /\ ClosingInv'
    BY <1>1, <2>3, <2>4, Zenon DEF CloseWaitInv, AskedInv, ClosingInv
  <2> QED
    BY <2>4, <2>5, <2>6, <2>7, Zenon DEF CloseInv
<1>9. ~ SchedulerStranded
  BY <1>1, <1>2, <1>3, <1>4, NullAssumption, ZenonT(30) DEF SchedulerStranded, CanYield, YieldTarget, Routine
<1>10. ASSUME NEW t \in Coroutine, EventCallback(t) \/ CallDeadlockCallback(t)
       PROVE  CloseInv'
  <2>1. /\ cont[Scheduler] = "loop" /\ notify_left' = notify_left /\ ResumeTo(t, "callback", TRUE)
        /\ cont[t] \in {"user", "wait_all"}
    BY <1>10, ZenonT(30) DEF EventCallback, CallDeadlockCallback, LoopDrained, AtScheduler, Parked, waitVars,
         Core, ArmedParked
  <2>2. notify_left' = 0 /\ cont[Main] # "close_sched" /\ t \in Routine /\ t # Scheduler
    BY <1>1, <1>4, <1>5, <2>1
  <2> QED
    BY <2>1, <2>2, ResumeCloses, Zenon
<1>11. CASE CallDeadlockCallbackInVain \/ cat_coroutine_deadlock \/ SkipNotify \/ StartNotify
  <2>1. AtScheduler("loop") /\ \E k \in {"loop", "deadlock", "top", "notify"} :
          /\ SchedulerAt(k)
          /\ \/ notify_left' = notify_left
             \/ k = "notify" /\ notify_left' = waiter_count /\ ~ is_unfinished
    BY <1>11, Zenon DEF CallDeadlockCallbackInVain, cat_coroutine_deadlock, SkipNotify, StartNotify,
         LoopDrained, waitVars
  <2> QED
    BY <2>1, SchedulerStayCloses, Zenon
<1>12. CASE NotifyNext(Scheduler, "notify")
  <2>1. /\ notify_left > 0 /\ notify_left' = notify_left - 1 /\ waiters # << >>
        /\ ResumeTo(Head(waiters), "notify", TRUE)
    BY <1>12, Zenon DEF NotifyNext
  <2>2. Head(waiters) = Main
    <3>1. waiters \in Seq(Coroutine) /\ OnChain(waiters) = {c \in Routine : InWaitAll(c)}
      BY DEF Counting, WaitersExact
    <3>2. Head(waiters) \in OnChain(waiters)
      BY <2>1, <3>1 DEF OnChain
    <3> QED
      BY <3>1, <3>2 DEF CloseInv, OnlyMainWaits
  <2>3. /\ current' = Main /\ from' = [from EXCEPT ![Main] = Scheduler]
        /\ cont' = [cont EXCEPT ![Scheduler] = "notify", ![Main] = Landing(cont[Main])]
        /\ state' = [state EXCEPT ![Scheduler] = "WAITING", ![Main] = "RUNNING"]
    BY <1>2, <2>1, <2>2, ZenonT(30) DEF ResumeTo, Jump
  <2>4. notify_left' = 0 /\ InWaitAll(Main) /\ Alone
    BY <1>1, <1>5, <2>1
  <2>5. /\ cont'[Main] = cont[Main] /\ cont'[Scheduler] = "notify" /\ from'[Main] = Scheduler
        /\ state'[Scheduler] # "DEAD"
        /\ \A c \in Routine \ {Main, Scheduler} : cont'[c] = cont[c] /\ state'[c] = state[c]
    BY <1>1, <2>3, <2>4 DEF InWaitAll, Landing
  <2>6. Alone'
    BY <1>1, <2>4, <2>5, ZenonT(30) DEF Alone, Alive
  <2>7. OnlyMainWaits' /\ NotifyInv'
    <3>1. OnlyMainWaits'
      BY <2>5, Zenon DEF CloseInv, OnlyMainWaits, InWaitAll
    <3>2. NotifyInv'
      BY <2>4 DEF NotifyInv
    <3> QED
      BY <3>1, <3>2
  <2>8. CloseWaitInv' /\ AskedInv' /\ ClosingInv'
    BY <1>1, <2>3, <2>4, <2>5, <2>6, ZenonT(30) DEF CloseWaitInv, AskedInv, ClosingInv, InWaitAll
  <2> QED
    BY <2>5, <2>7, <2>8 DEF CloseInv
<1>13. ~ NotifyNull(Scheduler, "notify")
  <2>1. notify_left > 0 => Main \in OnChain(waiters)
    BY <1>1, <1>5 DEF Counting, WaitersExact
  <2>2. waiters = << >> => OnChain(waiters) = {}
    BY DEF OnChain
  <2> QED
    BY <2>1, <2>2, Zenon DEF NotifyNull
<1> QED
  BY <1>7, <1>8, <1>9, <1>10, <1>11, <1>12, <1>13, Zenon DEF SchedulerStep

\* Closing is safe from the start on.
LEMMA InitCloses == Init => CloseInv
<1> SUFFICES ASSUME Init PROVE CloseInv
  OBVIOUS
<1>1. /\ Main \in Routine /\ Scheduler \in Routine /\ Main # Scheduler
  BY MainAssumption, SchedulerAssumption, Zenon DEF Routine
<1>2. /\ current = Main /\ cont[Main] = "user" /\ notify_left = 0 /\ state[Scheduler] = "NONE"
      /\ \A c \in Routine : cont[c] \in {"user", "none"}
  BY <1>1 DEF Init
<1> QED
  BY <1>1, <1>2
     DEF CloseInv, OnlyMainWaits, InWaitAll, NotifyInv, CloseWaitInv, AskedInv, ClosingInv

\* Every step keeps it so.
LEMMA NextCloses ==
  ASSUME OneCaller, IInv, CloseInv, [Next]_vars
  PROVE  CloseInv'
<1>1. Core /\ Counting
  BY DEF IInv
<1>2. CASE UNCHANGED vars
  BY <1>2, Zenon DEF vars, links, waitVars, CloseInv, OnlyMainWaits, InWaitAll, NotifyInv, CloseWaitInv,
       AskedInv, ClosingInv, Asked, Alone, Alive
<1>3. CASE Next
  BY <1>1, <1>2, <1>3, UserCloses, MainCloses, SchedulerCloses, Zenon DEF Next, Halted
<1> QED
  BY <1>2, <1>3

\* Closing is always safe.
LEMMA CloseInvariance ==
  ASSUME OneCaller
  PROVE  Spec => [](IInv /\ CloseInv)
<1>1. Init => CloseInv
  BY InitCloses
<1>2. IInv /\ CloseInv /\ [Next]_vars => CloseInv'
  BY NextCloses
<1> QED
  BY <1>1, <1>2, Invariance, PTL DEF Spec

\* scheduler_close() waits for all coroutines: the scheduler is asked to exit only when no
\* other one is left, whoever cancels the wait and however often (src/cat_coroutine.c).
THEOREM CloseWaitsCorrect ==
  ASSUME OneCaller
  PROVE  Spec => []CloseWaitsForAll
<1>1. CloseInv => CloseWaitsForAll
  BY MainAssumption, SchedulerAssumption DEF CloseInv, ClosingInv, CloseWaitsForAll, Alone
<1> QED
  BY <1>1, CloseInvariance, PTL

\* The assertion of scheduler_close() holds, notify_all() finds whom it has counted, and the
\* scheduler does not die with nowhere to go (src/cat_coroutine.c).
THEOREM CloseCorrect ==
  ASSUME OneCaller
  PROVE  Spec => []CloseSafe
<1>1. IInv /\ CloseInv => CloseSafe
  <2> SUFFICES ASSUME IInv, CloseInv PROVE CloseSafe
    OBVIOUS
  <2>1. CloseAssert /\ SchedulerNotStranded
    BY MainAssumption, SchedulerAssumption
    DEF CloseInv, ClosingInv, CloseAssert, SchedulerNotStranded
  <2>2. NotifyFindsWaiter
    <3>1. notify_left > 0 => Main \in OnChain(waiters)
      BY MainAssumption DEF IInv, Counting, WaitersExact, CloseInv, NotifyInv, Routine
    <3>2. waiters = << >> => OnChain(waiters) = {}
      BY DEF OnChain
    <3> QED
      BY <3>1, <3>2, Zenon DEF NotifyFindsWaiter
  <2> QED
    BY <2>1, <2>2 DEF CloseSafe
<1> QED
  BY <1>1, CloseInvariance, PTL

\* The scheduler leaves its loop only because scheduler_close() asked it to: no schedule()
\* that happened before is taken for the request (src/cat_coroutine.c).
THEOREM ExitCorrect ==
  ASSUME OneCaller
  PROVE  Spec => SchedulerExitsWhenClosed
<1>1. IInv /\ CloseInv /\ [Next]_vars =>
        [scheduler # NULL /\ scheduler' = NULL => cont[Main] = "close_sched"]_vars
  <2> SUFFICES ASSUME IInv, CloseInv, Next, scheduler # NULL, scheduler' = NULL
               PROVE  cont[Main] = "close_sched"
    OBVIOUS
  <2>1. \A c \in Coroutine : ~ UserStep(c)
    BY ZenonT(30) DEF UserStep, cat_coroutine_create, cat_coroutine_close, cat_coroutine_resume,
           cat_coroutine_schedule, cat_coroutine_yield, cat_coroutine_wait_all_ex, WaitAll,
           Finish, FinishNowhere, WaitAllReturn
  <2>2. ~ MainStep
    BY NullAssumption,
      Zenon DEF MainStep, cat_coroutine_scheduler_run, cat_coroutine_scheduler_close, WaitAll,
        CloseScheduler, CloseWaitAgain, CloseReturn, cat_coroutine_runtime_shutdown, NotifyNext,
        NotifyNull, ShutdownReturn, Routine
  <2>3. SchedulerExit \/ SchedulerStranded
    BY <2>1, <2>2,
      Zenon DEF Next, SchedulerStep, SchedulerLoop, EventCallback, CallDeadlockCallback,
        CallDeadlockCallbackInVain, cat_coroutine_deadlock, SkipNotify, StartNotify, NotifyNext,
        NotifyNull, EndNotify, cat_coroutine_unlock_deadlock, SchedulerAt, Halted, vars
  <2>4. current = Scheduler /\ TRUE \in FromFlag(Scheduler)
    BY <2>3, Zenon DEF SchedulerExit, SchedulerStranded, AtScheduler
  <2> QED
    BY <2>4, AskedFlag, Zenon DEF IInv, CloseInv, AskedInv
<1> QED
  BY <1>1, CloseInvariance, PTL DEF Spec, SchedulerExitsWhenClosed

=============================================================================
