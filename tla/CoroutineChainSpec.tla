------------------------- MODULE CoroutineChainSpec -------------------------
(***************************************************************************)
(* The abstract specification of switching between coroutines: one run     *)
(* chain and the set of the existing coroutines that are off it.           *)
(***************************************************************************)
EXTENDS CoroutineChain

VARIABLES chain,  \* the run chain
          idle    \* the existing coroutines that are off the chain

chainVars == << chain, idle >>

ChainInit == /\ chain = << Main >>
             /\ idle = {}

\* A new coroutine exists, and has not run.
Create(c) == /\ c \notin OnChain(chain) \cup idle
             /\ idle' = idle \cup {c}
             /\ UNCHANGED chain

Resume(c) == /\ c \in (OnChain(chain) \cup idle) \ {Running(chain)}
             /\ chain' = ResumeOn(chain, c)
             /\ idle' = idle \ {c}

\* The running coroutine stops, and is off the chain from now on.
Yield == /\ Len(chain) > 1 \/ Scheduler \in idle
         /\ chain' = YieldOn(chain)
         /\ idle' = (idle \cup {Running(chain)}) \ OnChain(chain')

\* The running coroutine ends, and exists no more.
Finish == /\ Len(chain) > 1 \/ Scheduler \in idle
          /\ Running(chain) # Main
          /\ chain' = YieldOn(chain)
          /\ idle' = idle \ OnChain(chain')

\* A coroutine that never ran is closed.
Close(c) == /\ c \in idle
            /\ idle' = idle \ {c}
            /\ UNCHANGED chain

ChainNext == \/ \E c \in Routine : Create(c) \/ Resume(c) \/ Close(c)
             \/ Yield
             \/ Finish

ChainSpec == ChainInit /\ [][ChainNext]_chainVars
=============================================================================
