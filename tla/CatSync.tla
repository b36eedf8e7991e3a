------------------------------ MODULE CatSync ------------------------------
(***************************************************************************)
(* src/cat_sync.c: a wait group, a count of tasks and the one coroutine    *)
(* that waits until they are done.                                         *)
(***************************************************************************)
EXTENDS CatTime, Integers

CONSTANT MaxCount   \* a bound on the count

ASSUME MaxCountAssumption == MaxCount \in Nat

VARIABLE wg   \* the coroutine that waits and the count

WaitGroupInit == wg = [coroutine |-> NULL, count |-> 0]

cat_sync_wait_group_add(c, delta) ==
  /\ At(c, "user")
  /\ wg.coroutine = NULL /\ wg.count + delta \in 0..MaxCount
  /\ wg' = [wg EXCEPT !.count = @ + delta]
  /\ UNCHANGED waiting

\* (A group that is complete does not wait.)
cat_sync_wait_group_wait(c) ==
  /\ At(c, "user")
  /\ wg.coroutine = NULL /\ wg.count > 0
  /\ wg' = [wg EXCEPT !.coroutine = c]
  /\ cat_time_wait(c, "wait_group", TRUE)
  /\ UNCHANGED loop

\* The wait is over: completed, timed out or cancelled.
WaitGroupWaited(c) ==
  /\ At(c, "wait_group")
  /\ wg' = [wg EXCEPT !.coroutine = NULL]
  /\ Return(c)
  /\ UNCHANGED loop

\* Mutant: the waiter is woken before the task is counted off.
DoneWakesFirst(c) ==
  /\ At(c, "user")
  /\ wg.count > 0
  /\ wg' = [wg EXCEPT !.count = @ - 1]
  /\ IF wg.count = 2 /\ wg.coroutine # NULL THEN Schedule(wg.coroutine)
     ELSE UNCHANGED << chain, pc, timer >>
  /\ UNCHANGED loop

cat_sync_wait_group_done(c) ==
  /\ At(c, "user")
  /\ wg.count > 0
  /\ wg' = [wg EXCEPT !.count = @ - 1]
  /\ IF wg.count = 1 /\ wg.coroutine # NULL THEN Schedule(wg.coroutine)
     ELSE UNCHANGED << chain, pc, timer >>
  /\ UNCHANGED loop

WaitGroupNext(c) ==
  \/ \E delta \in {-1, 1} : cat_sync_wait_group_add(c, delta)
  \/ cat_sync_wait_group_wait(c)
  \/ WaitGroupWaited(c)
  \/ cat_sync_wait_group_done(c)

-----------------------------------------------------------------------------
\* The group names exactly the coroutine that waits, whoever has ended its last
\* wait, and that coroutine never stays behind a group that is complete.
WaitGroupServed ==
  /\ \A c \in Coroutine : pc[c] = "wait_group" <=> wg.coroutine = c
  /\ \A c \in Coroutine : wg.coroutine = c /\ wg.count = 0 => c = Running(chain)
=============================================================================
