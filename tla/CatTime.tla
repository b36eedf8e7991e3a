------------------------------ MODULE CatTime ------------------------------
(***************************************************************************)
(* src/cat_time.c as the components that block see it: a coroutine waits,  *)
(* with or without a timeout, until a callback of the event loop or any    *)
(* other coroutine resumes it.  The modules of the components extend this  *)
(* one with the state of their requests.                                   *)
(*                                                                         *)
(* `pc[c]' is the wait that c is in, or "user" when it runs its own code   *)
(* (or is asleep).  A coroutine that is resumed runs at once, so a wait at *)
(* the end of the chain is one that has just ended.                        *)
(*                                                                         *)
(* The callbacks of the event loop run on the stack of the scheduler and   *)
(* one at a time: `loop' is what is left to do of the callback that has    *)
(* switched to a coroutine, 0 when there is nothing left.                  *)
(***************************************************************************)
EXTENDS CoroutineChain

CONSTANT NULL   \* a pointer to no coroutine

ASSUME NullAssumption == NULL \notin Routine

VARIABLES chain,   \* the run chain
          pc,      \* the wait that a coroutine is in
          timer,   \* its timer: "none", "armed" or "fired"
          loop     \* the callback that is under way

waiting == << chain, pc, timer, loop >>

TimeInit ==
  /\ chain = << Scheduler >>
  /\ pc = [c \in Coroutine |-> "user"]
  /\ timer = [c \in Coroutine |-> "none"]
  /\ loop = 0

At(c, where) == Running(chain) = c /\ pc[c] = where

\* The event loop may begin with the next callback.
LoopIdle == Running(chain) = Scheduler /\ loop = 0

\* Control is back in the callback that has switched.
LoopAt(callback) == Running(chain) = Scheduler /\ loop = callback

\* cat_time_wait() and cat_time_delay(): a negative timeout has no timer, any
\* other one starts a timer or, for zero, a deferred task of the loop.
cat_time_wait(c, where, timed) ==
  /\ pc' = [pc EXCEPT ![c] = where]
  /\ timer' = [timer EXCEPT ![c] = IF timed THEN "armed" ELSE "none"]
  /\ chain' = YieldOn(chain)

\* What the wait of c returns when it is over: its timer has fired or not.
TimedOut(c) == timer[c] = "fired"

\* Mutant: the timer of a wait that has ended goes on.
ReturnKeepsTimer(c) == pc' = [pc EXCEPT ![c] = "user"] /\ UNCHANGED << timer, chain >>

\* The operation of c returns to its caller; the timer is closed.
Return(c) ==
  /\ pc' = [pc EXCEPT ![c] = "user"]
  /\ timer' = [timer EXCEPT ![c] = "none"]
  /\ UNCHANGED chain

\* cat_coroutine_schedule() of a coroutine that waits.
Schedule(c) ==
  /\ chain' = ResumeOn(chain, c)
  /\ UNCHANGED << pc, timer >>

\* cat_timer_callback(): the timeout of a wait.
cat_timer_callback(c) ==
  /\ LoopIdle
  /\ timer[c] = "armed"
  /\ timer' = [timer EXCEPT ![c] = "fired"]
  /\ chain' = ResumeOn(chain, c)
  /\ UNCHANGED << pc, loop >>

-----------------------------------------------------------------------------
\* What coroutines do besides the operations of a component.

\* A coroutine in its own code goes to sleep ...
Sleep(c) ==
  /\ At(c, "user")
  /\ chain' = YieldOn(chain)
  /\ UNCHANGED << pc, timer, loop >>

\* ... or resumes another one, whatever that one waits for: this is how a wait
\* is cancelled.
Resume(c, target) ==
  /\ At(c, "user")
  /\ target # c
  /\ Schedule(target)
  /\ UNCHANGED loop

\* The loop starts a coroutine, or ends its sleep.
Wakeup(c) ==
  /\ LoopIdle
  /\ pc[c] = "user"
  /\ Schedule(c)
  /\ UNCHANGED loop

TimeNext(c) ==
  \/ Sleep(c)
  \/ \E target \in Coroutine : Resume(c, target)
  \/ Wakeup(c)
  \/ cat_timer_callback(c)

TimeTypeOK(places, callbacks) ==
  /\ chain[1] = Scheduler /\ OnChain(chain) \subseteq Routine
  /\ pc \in [Coroutine -> places]
  /\ timer \in [Coroutine -> {"none", "armed", "fired"}]
  /\ \A c \in Coroutine : pc[c] = "user" => timer[c] = "none"
  /\ loop \in callbacks
=============================================================================
