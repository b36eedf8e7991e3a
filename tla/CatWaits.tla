------------------------------ MODULE CatWaits -----------------------------
(***************************************************************************)
(* The components whose operations are a single wait, on one event loop:   *)
(* polls, children, processes, signals and wait groups.  A program uses a  *)
(* set of them, a member of Uses, and cancels waits when "cancel" is one.  *)
(***************************************************************************)
EXTENDS CatPoll, CatOsWait, CatProcess, CatSignal, CatSync

CONSTANT Uses

VARIABLE use

vars == << waiting, polling, oswait, process, prof, signal, sigof, wg, use >>

\* A program whose children stop has two of them, to keep the instance small.
Init ==
  /\ TimeInit /\ PollInit /\ ProcessInit /\ SignalInit /\ WaitGroupInit
  /\ use \in Uses
  /\ \E kids \in SUBSET Pid :
       /\ OsWaitInit(kids)
       /\ Cardinality(kids) = IF "stop" \in use THEN 2 ELSE Cardinality(Pid)

\* The steps of the program and of the loop that belong to no component.
Elsewhere(c) ==
  \/ Sleep(c) \/ Wakeup(c) \/ cat_timer_callback(c)
  \/ "cancel" \in use /\ \E target \in Coroutine : Resume(c, target)

PollStep ==
  /\ "poll" \in use
  /\ PollLoopNext \/ \E c \in Coroutine : PollNext(c)
  /\ UNCHANGED << oswait, process, prof, signal, sigof, wg >>

OsWaitStep ==
  /\ "os_wait" \in use
  /\ \/ DispatchNext
     \/ \E c \in Coroutine : OsWaitNext(c)
     \/ \E p \in Pid : KidExits(p) \/ ("stop" \in use /\ KidStops(p))
  /\ UNCHANGED << polling, process, prof, signal, sigof, wg >>

ProcessStep ==
  /\ "process" \in use
  /\ ExitNext \/ \E c \in Coroutine : ProcessNext(c)
  /\ UNCHANGED << polling, oswait, signal, sigof, wg >>

SignalStep ==
  /\ "signal" \in use
  /\ HandleNext \/ \E c \in Coroutine : SignalNext(c)
  /\ UNCHANGED << polling, oswait, process, prof, wg >>

WaitGroupStep ==
  /\ "wait_group" \in use
  /\ \E c \in Coroutine : WaitGroupNext(c)
  /\ UNCHANGED << polling, oswait, process, prof, signal, sigof >>

Next ==
  /\ \/ /\ \E c \in Coroutine : Elsewhere(c)
        /\ UNCHANGED << polling, oswait, process, prof, signal, sigof, wg >>
     \/ PollStep \/ OsWaitStep \/ ProcessStep \/ SignalStep \/ WaitGroupStep
  /\ UNCHANGED use

Spec == Init /\ [][Next]_vars

-----------------------------------------------------------------------------
\* The places of the coroutines, and the callback that has switched.
TypeOK ==
  /\ TimeTypeOK({"user", "poll", "process", "signal", "wait_group"} \cup OsWaitPlaces,
                {0, InIo, InCheck, InSigchld} \cup { InExit(p) : p \in Process })
  /\ watchers = Cardinality({ c \in Coroutine : pc[c] \in OsWaitPlaces })

\* The state is well typed and no SIGCHLD is missed.  As long as no child stops, its
\* exit is never lost on the way from wait4() to the call that returns it, cancelled
\* waits or not (a stop that has been saved hides the exit: RB_INSERT() of
\* src/cat_os_wait.c:196 refuses a second entry); and as long as no wait is cancelled
\* either, a dispatcher never looks at a task that the waiters it has woken have
\* freed (src/cat_os_wait.c:156).
ExitsReported ==
  /\ TypeOK /\ SigchldNotMissed
  /\ "stop" \notin use => ExitKept
  /\ use \cap {"cancel", "stop"} = {} => DispatchSafe
=============================================================================
