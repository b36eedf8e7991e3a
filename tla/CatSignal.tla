----------------------------- MODULE CatSignal -----------------------------
(***************************************************************************)
(* src/cat_signal.c: a coroutine waits for a signal with a handle of its   *)
(* own on the heap, which lives until the loop has closed it.              *)
(***************************************************************************)
EXTENDS CatTime, Integers

CONSTANT SignalHandle   \* numbers from 1

VARIABLES signal,   \* the handles
          sigof     \* the handle of the call of a coroutine

NoSignal == [mem |-> "none", active |-> FALSE, coroutine |-> NULL]

SignalInit ==
  /\ signal = [h \in SignalHandle |-> NoSignal]
  /\ sigof = [c \in Coroutine |-> 0]

\* A handle that cannot be started is closed again.
cat_signal_wait(c) ==
  /\ At(c, "user")
  /\ \E h \in SignalHandle :
       /\ signal[h].mem = "none" /\ \A k \in SignalHandle : k < h => signal[k].mem # "none"
       /\ \/ /\ signal' = [signal EXCEPT ![h] = [mem |-> "open", active |-> TRUE, coroutine |-> c]]
             /\ sigof' = [sigof EXCEPT ![c] = h]
             /\ cat_time_wait(c, "signal", TRUE)
          \/ /\ signal' = [signal EXCEPT ![h].mem = "closing"]
             /\ UNCHANGED << sigof, chain, pc, timer >>
  /\ UNCHANGED loop

\* The signal arrives at a handle that is one-shot.
cat_signal_callback(h) ==
  /\ LoopIdle /\ signal[h].active
  /\ signal' = [signal EXCEPT ![h].active = FALSE, ![h].coroutine = NULL]
  /\ Schedule(signal[h].coroutine)
  /\ UNCHANGED << loop, sigof >>

\* Mutant: a handle that has fired is not closed.
SignalWaitedOpen(c) ==
  /\ At(c, "signal")
  /\ signal' = IF TimedOut(c) THEN signal
               ELSE [signal EXCEPT ![sigof[c]].mem = "closing", ![sigof[c]].active = FALSE]
  /\ sigof' = [sigof EXCEPT ![c] = 0]
  /\ Return(c)
  /\ UNCHANGED loop

\* The wait is over; the handle is closed, which stops it.
SignalWaited(c) ==
  /\ At(c, "signal")
  /\ signal' = [signal EXCEPT ![sigof[c]].mem = "closing", ![sigof[c]].active = FALSE]
  /\ sigof' = [sigof EXCEPT ![c] = 0]
  /\ Return(c)
  /\ UNCHANGED loop

cat_signal_close_callback(h) ==
  /\ LoopIdle /\ signal[h].mem = "closing"
  /\ signal' = [signal EXCEPT ![h] = NoSignal]
  /\ UNCHANGED << waiting, sigof >>

SignalNext(c) == cat_signal_wait(c) \/ SignalWaited(c)

HandleNext ==
  \E h \in SignalHandle : cat_signal_callback(h) \/ cat_signal_close_callback(h)

-----------------------------------------------------------------------------
\* A handle that can still fire belongs to a coroutine that waits for it, so the
\* callback never switches to a coroutine that has gone on to something else; and
\* what is not waited for any more is being closed.
SignalSafe ==
  /\ \A h \in SignalHandle : signal[h].active =>
       \E c \in Coroutine : signal[h].coroutine = c /\ pc[c] = "signal" /\ sigof[c] = h
  /\ \A h \in SignalHandle : signal[h].mem = "open" =>
       \E c \in Coroutine : pc[c] = "signal" /\ sigof[c] = h
=============================================================================
