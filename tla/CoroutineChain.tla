--------------------------- MODULE CoroutineChain ---------------------------
(***************************************************************************)
(* What the coroutine core promises to every other component of libcat:    *)
(* the coroutines that have been resumed and have not yielded yet form one *)
(* chain, the last of which runs.  Resuming a coroutine moves it to the    *)
(* end of the chain wherever it was; yielding takes the last one off and   *)
(* continues the one before it, or the scheduler when there is none.       *)
(*                                                                         *)
(* CoroutineChainSpec states the promise as a specification, CatCoroutine  *)
(* implements it with the previous/next pointers of cat_coroutine_t, and   *)
(* the components whose operations block (channels, wait groups, ...) are  *)
(* specified on top of the operators of this module.                       *)
(***************************************************************************)
EXTENDS Sequences, Naturals

CONSTANTS Coroutine,   \* every coroutine but the scheduler, the main one included
          Main,        \* the coroutine the program starts in
          Scheduler    \* the coroutine that runs the event loop

ASSUME MainAssumption == Main \in Coroutine
ASSUME SchedulerAssumption == Scheduler \notin Coroutine

Routine == Coroutine \cup {Scheduler}

\* The coroutine that runs, the last one of a chain.
Running(ch) == ch[Len(ch)]

\* The chain without one coroutine: "remove target from linked list".
\* A coroutine is linked once at most.
Without(ch, c) ==
  IF \E i \in DOMAIN ch : ch[i] = c
  THEN LET i == CHOOSE i \in DOMAIN ch : ch[i] = c
       IN  [j \in 1..(Len(ch) - 1) |-> IF j < i THEN ch[j] ELSE ch[j + 1]]
  ELSE ch

\* cat_coroutine_resume(): whatever the chain was, the target ends up behind
\* the coroutine that resumes it (the three flows drawn in the source).
ResumeOn(ch, target) == Append(Without(ch, target), target)

\* cat_coroutine_yield(): back to the previous coroutine, or to the scheduler.
YieldOn(ch) ==
  IF Len(ch) > 1 THEN SubSeq(ch, 1, Len(ch) - 1) ELSE << Scheduler >>

OnChain(ch) == { ch[i] : i \in DOMAIN ch }
=============================================================================
