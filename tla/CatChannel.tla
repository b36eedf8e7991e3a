----------------------------- MODULE CatChannel -----------------------------
(***************************************************************************)
(* src/cat_channel.c: push, pop, select, close and cleanup of channels,    *)
(* buffered and not, by coroutines that switch as CoroutineChain says.     *)
(*                                                                         *)
(* An action is what a coroutine executes from one switch to the next.     *)
(* `pc[c]' is where c stands:                                              *)
(*   "user"     in its own code, or asleep                                 *)
(*   "push"     in the wait_on() of a push                                 *)
(*   "pop"      in the wait_on() of a pop                                  *)
(*   "select"   in the cat_time_wait() of a select                         *)
(*   "pushed"   in the schedule() of a push that has notified a consumer   *)
(*   "popped"   in the schedule() of a pop that has notified a producer    *)
(*   "close_p"  in close(), at the loop over the producers                 *)
(*   "close_c"  in close(), at the loop over the consumers                 *)
(* A waiter that is resumed runs at once, so "push", "pop" or "select" at  *)
(* the end of the chain is a waiter that has just been woken.              *)
(***************************************************************************)
EXTENDS CoroutineChain, FiniteSets, Functions

CONSTANTS Channel,   \* the channels
          capacity,  \* channel->capacity, a function of the channel
          MaxPush,   \* the bound on the values pushed
          Selects,   \* the request lists that select() is called with
          Uses       \* what programs do with channels: sets of "select" and "close"

Value == 1..MaxPush

Request == [channel : Channel, opcode : {"PUSH", "POP"}]

ASSUME ChannelAssumption == Channel # {}
ASSUME CapacityAssumption == capacity \in [Channel -> Nat]
ASSUME MaxPushAssumption == MaxPush \in Nat
ASSUME SelectsAssumption == Selects \subseteq Seq(Request) \ {<< >>}
ASSUME UsesAssumption == Uses \subseteq SUBSET {"select", "close"}

VARIABLES chain,      \* the run chain
          pc,         \* where the coroutine stands (see above)
          op,         \* the arguments of the operation it is in
          timedout,   \* the coroutines whose timer has fired
          closed,     \* channel->flags & CAT_CHANNEL_FLAG_CLOSED
          producers,  \* channel->producers, a queue of waiters
          consumers,  \* channel->consumers
          storage,    \* channel->u.buffered.storage; channel->length is its length
          able,       \* channel->u.unbuffered.able, push and pop are one union
          slot,       \* channel->u.unbuffered.data, in and out are one union
          pushes,     \* how many values have been taken for a push
          received,   \* the values popped from each channel, in this order
          status,     \* what the push of each value returned
          use         \* what this program does

queues == << producers, consumers >>
data == << storage, able, slot, received >>
vars == << chain, pc, op, timedout, closed, queues, data, pushes, status, use >>

NoOp == [channel |-> CHOOSE ch \in Channel : TRUE, value |-> 0, timed |-> FALSE,
         cleanup |-> FALSE, requests |-> << >>]

Init ==
  /\ chain = << Scheduler >>
  /\ pc = [c \in Coroutine |-> "user"]
  /\ op = [c \in Coroutine |-> NoOp]
  /\ timedout = {}
  /\ closed = [ch \in Channel |-> FALSE]
  /\ producers = [ch \in Channel |-> << >>]
  /\ consumers = [ch \in Channel |-> << >>]
  /\ storage = [ch \in Channel |-> << >>]
  /\ able = [ch \in Channel |-> FALSE]
  /\ slot = [ch \in Channel |-> 0]
  /\ pushes = 0
  /\ received = [ch \in Channel |-> << >>]
  /\ status = [v \in Value |-> "none"]
  /\ use \in Uses

-----------------------------------------------------------------------------
\* Queues of waiters.  A waiter is a coroutine (index 0) or the dummy that
\* select() queues for one of its requests; `fired' is its coroutine == NULL,
\* `freed' says that select() has freed it.

Waiter(c, i) == [owner |-> c, index |-> i, fired |-> FALSE, freed |-> FALSE]

Owns(c, e) == e.owner = c /\ ~e.freed

\* Mutant: the wait ends by taking the front node off, not its own one.
RemoveFront(q, c, last) == IF q = << >> THEN q ELSE Tail(q)

\* The elements of S, a subset of 1..n, in their order.
Ascending(S, n) ==
  CHOOSE s \in UNION { [1..k -> S] : k \in 0..n } :
    Range(s) = S /\ \A i, j \in DOMAIN s : i < j => s[i] < s[j]

\* cat_queue_remove() of the nodes that c has in a queue, up to a request.
Remove(q, c, last) ==
  LET kept == Ascending({ i \in DOMAIN q : ~(Owns(c, q[i]) /\ q[i].index <= last) }, Len(q))
      Left(e) == IF Owns(c, e) THEN [e EXCEPT !.freed = TRUE] ELSE e
  IN  [k \in DOMAIN kept |-> Left(q[kept[k]])]

\* The queue after its front waiter has been resumed: a dummy is marked.
Fire(q) ==
  IF q[1].index = 0 THEN q ELSE [q EXCEPT ![1].fired = TRUE]

IsUnbuffered(ch) == capacity[ch] = 0
IsEmpty(ch) == storage[ch] = << >>
\* Mutant: > for ==.
IsFullOffByOne(ch) == Len(storage[ch]) > capacity[ch]
IsFull(ch) == Len(storage[ch]) = capacity[ch]
HasProducers(ch) == producers[ch] # << >>
HasConsumers(ch) == consumers[ch] # << >>

IsReadable(ch) == ~IsEmpty(ch) \/ (~closed[ch] /\ HasProducers(ch))
IsWritable(ch) == ~closed[ch] /\ (~IsFull(ch) \/ HasConsumers(ch))

-----------------------------------------------------------------------------
\* Steps that the operations share.

At(c, where) == Running(chain) = c /\ pc[c] = where

\* c goes to sleep in an operation.
Wait(c, where, args) ==
  /\ pc' = [pc EXCEPT ![c] = where]
  /\ op' = [op EXCEPT ![c] = args]
  /\ chain' = YieldOn(chain)
  /\ UNCHANGED timedout

\* c switches to the coroutine of the front waiter of a queue.
ResumeWaiter(c, q) ==
  /\ ~q[1].fired
  /\ q[1].owner # c
  /\ chain' = ResumeOn(chain, q[1].owner)
  /\ UNCHANGED timedout

ResumeConsumer(c, ch) ==
  /\ ResumeWaiter(c, consumers[ch])
  /\ consumers' = [consumers EXCEPT ![ch] = Fire(@)]
  /\ UNCHANGED producers

ResumeProducer(c, ch) ==
  /\ ResumeWaiter(c, producers[ch])
  /\ producers' = [producers EXCEPT ![ch] = Fire(@)]
  /\ UNCHANGED consumers

\* The operation of c returns to the code that called it.
Return(c) ==
  /\ pc' = [pc EXCEPT ![c] = "user"]
  /\ timedout' = timedout \ {c}
  /\ UNCHANGED chain

Returned(c) == op' = [op EXCEPT ![c] = NoOp]

Finished(c, result) ==
  status' = IF op[c].value = 0 THEN status ELSE [status EXCEPT ![op[c].value] = result]

Deliver(ch, v) == received' = [received EXCEPT ![ch] = Append(@, v)]

\* Mutant: the flag of the unbuffered channel is not reset.
PushDataKeepsAble(c, ch, v) ==
  IF IsUnbuffered(ch)
  THEN /\ op' = [op EXCEPT ![slot[ch]].value = v, ![c] = NoOp]
       /\ Deliver(ch, v)
       /\ slot' = [slot EXCEPT ![ch] = 0]
       /\ UNCHANGED << storage, able >>
  ELSE /\ storage' = [storage EXCEPT ![ch] = Append(@, v)]
       /\ Returned(c)
       /\ UNCHANGED << able, slot, received >>

\* push_data() of a producer that has been woken.
PushData(c, ch, v) ==
  IF IsUnbuffered(ch)
  THEN /\ op' = [op EXCEPT ![slot[ch]].value = v, ![c] = NoOp]
       /\ Deliver(ch, v)
       /\ slot' = [slot EXCEPT ![ch] = 0]
       /\ able' = [able EXCEPT ![ch] = FALSE]
       /\ UNCHANGED storage
  ELSE /\ storage' = [storage EXCEPT ![ch] = Append(@, v)]
       /\ Returned(c)
       /\ UNCHANGED << able, slot, received >>

\* Mutant: the value is taken out and not copied.
PopDataLost(c, ch) ==
  /\ Returned(c)
  /\ slot' = [slot EXCEPT ![ch] = 0]
  /\ able' = [able EXCEPT ![ch] = FALSE]
  /\ storage' = [storage EXCEPT ![ch] = IF IsUnbuffered(ch) THEN @ ELSE Tail(@)]
  /\ UNCHANGED received

\* pop_data() of a consumer that has been woken.
PopData(c, ch) ==
  /\ Returned(c)
  /\ IF IsUnbuffered(ch)
     THEN /\ Deliver(ch, slot[ch])
          /\ slot' = [slot EXCEPT ![ch] = 0]
          /\ able' = [able EXCEPT ![ch] = FALSE]
          /\ UNCHANGED storage
     ELSE /\ Deliver(ch, Head(storage[ch]))
          /\ storage' = [storage EXCEPT ![ch] = Tail(@)]
          /\ UNCHANGED << able, slot >>

-----------------------------------------------------------------------------
\* cat_channel_push()

\* A new value to push.
Take(v) == pushes < MaxPush /\ v = pushes + 1 /\ pushes' = v

PushArgs(ch, v, timed) == [NoOp EXCEPT !.channel = ch, !.value = v, !.timed = timed]

PushWait(c, ch, timed) ==
  /\ At(c, "user")
  /\ ~closed[ch]
  /\ IF IsUnbuffered(ch) THEN ~HasConsumers(ch) ELSE IsFull(ch)
  /\ \E v \in Value :
       /\ Take(v)
       /\ status' = [status EXCEPT ![v] = "pending"]
       /\ Wait(c, "push", PushArgs(ch, v, timed))
  /\ producers' = [producers EXCEPT ![ch] = Append(@, Waiter(c, 0))]
  /\ UNCHANGED << closed, consumers, data >>

\* Mutant: a push that stores its value notifies nobody.
PushNowSilent(c, ch, v) ==
  /\ ~IsFull(ch)
  /\ storage' = [storage EXCEPT ![ch] = Append(@, v)]
  /\ status' = [status EXCEPT ![v] = "true"]
  /\ UNCHANGED << pc, op, chain, timedout, closed, queues, able, slot, received >>

\* The branch of a push that does not wait: it hands the value over, or stores
\* it, and notifies a consumer.
PushNow(c, ch, v) ==
  /\ IF IsUnbuffered(ch)
     THEN /\ HasConsumers(ch)
          /\ slot' = [slot EXCEPT ![ch] = v]
          /\ able' = [able EXCEPT ![ch] = TRUE]
          /\ UNCHANGED storage
     ELSE /\ ~IsFull(ch)
          /\ storage' = [storage EXCEPT ![ch] = Append(@, v)]
          /\ UNCHANGED << able, slot >>
  /\ IF HasConsumers(ch)
     THEN /\ pc' = [pc EXCEPT ![c] = "pushed"]
          /\ op' = [op EXCEPT ![c] = PushArgs(ch, v, FALSE)]
          /\ status' = [status EXCEPT ![v] = "pending"]
          /\ ResumeConsumer(c, ch)
     ELSE /\ status' = [status EXCEPT ![v] = "true"]
          /\ UNCHANGED << pc, op, chain, timedout, queues >>
  /\ UNCHANGED << closed, received >>

Push(c, ch) ==
  /\ At(c, "user")
  /\ ~closed[ch]
  /\ \E v \in Value : Take(v) /\ PushNow(c, ch, v)

PushWoken(c) ==
  LET ch == op[c].channel IN
  /\ At(c, "push")
  /\ producers' = [producers EXCEPT ![ch] = Remove(@, c, 0)]
  /\ \/ /\ c \in timedout \/ (IF IsUnbuffered(ch) THEN ~able[ch] ELSE IsFull(ch))
        /\ Finished(c, "false")
        /\ Returned(c)
        /\ UNCHANGED data
     \/ /\ c \notin timedout
        /\ IF IsUnbuffered(ch) THEN able[ch] ELSE ~IsFull(ch)
        /\ Finished(c, "true")
        /\ PushData(c, ch, op[c].value)
  /\ Return(c)
  /\ UNCHANGED << closed, consumers, pushes >>

\* Mutant: the push looks at the channel again after the switch.
PushReturnChecksState(c) ==
  /\ At(c, "pushed")
  /\ Finished(c, IF closed[op[c].channel] THEN "false" ELSE "true")
  /\ Returned(c)
  /\ Return(c)
  /\ UNCHANGED << closed, queues, data, pushes >>

\* Mutant: the push takes the flag that its consumer has reset for a cancellation.
PushReturnChecksAble(c) ==
  LET ch == op[c].channel IN
  /\ At(c, "pushed")
  /\ Finished(c, IF IsUnbuffered(ch) /\ ~able[ch] THEN "false" ELSE "true")
  /\ Returned(c)
  /\ Return(c)
  /\ UNCHANGED << closed, queues, data, pushes >>

\* Control comes back to a push that has notified a consumer.
PushReturn(c) ==
  /\ At(c, "pushed")
  /\ Finished(c, "true")
  /\ Returned(c)
  /\ Return(c)
  /\ UNCHANGED << closed, queues, data, pushes >>

-----------------------------------------------------------------------------
\* cat_channel_pop()

PopArgs(ch, timed) == [NoOp EXCEPT !.channel = ch, !.timed = timed]

PopWait(c, ch, timed) ==
  /\ At(c, "user")
  /\ ~closed[ch] /\ IsEmpty(ch)
  /\ IsUnbuffered(ch) => ~HasProducers(ch)
  /\ Wait(c, "pop", PopArgs(ch, timed))
  /\ consumers' = [consumers EXCEPT ![ch] = Append(@, Waiter(c, 0))]
  /\ UNCHANGED << closed, producers, data, pushes, status >>

\* Mutant: a pop that leaves the value in the storage.
PopNowPeeks(c, ch) ==
  /\ ~IsEmpty(ch)
  /\ Deliver(ch, Head(storage[ch]))
  /\ UNCHANGED << pc, op, chain, timedout, closed, queues, storage, able, slot, pushes, status >>

\* The branch of a pop that does not wait: it says where the value goes, or
\* takes one from the storage, and notifies a producer.
PopNow(c, ch) ==
  /\ IF IsUnbuffered(ch)
     THEN /\ HasProducers(ch)
          /\ slot' = [slot EXCEPT ![ch] = c]
          /\ able' = [able EXCEPT ![ch] = TRUE]
          /\ UNCHANGED << storage, received >>
     ELSE /\ ~IsEmpty(ch)
          /\ Deliver(ch, Head(storage[ch]))
          /\ storage' = [storage EXCEPT ![ch] = Tail(@)]
          /\ UNCHANGED << able, slot >>
  /\ IF HasProducers(ch)
     THEN /\ pc' = [pc EXCEPT ![c] = "popped"]
          /\ op' = [op EXCEPT ![c] = PopArgs(ch, FALSE)]
          /\ ResumeProducer(c, ch)
     ELSE UNCHANGED << pc, op, chain, timedout, queues >>
  /\ UNCHANGED << closed, pushes, status >>

\* A closed channel can be popped until it is empty.
Pop(c, ch) ==
  /\ At(c, "user")
  /\ closed[ch] => ~IsEmpty(ch)
  /\ PopNow(c, ch)

PopWoken(c) ==
  LET ch == op[c].channel IN
  /\ At(c, "pop")
  /\ consumers' = [consumers EXCEPT ![ch] = Remove(@, c, 0)]
  /\ \/ /\ c \in timedout \/ (IF IsUnbuffered(ch) THEN ~able[ch] ELSE IsEmpty(ch))
        /\ Returned(c)
        /\ UNCHANGED data
     \/ /\ c \notin timedout
        /\ IF IsUnbuffered(ch) THEN able[ch] ELSE ~IsEmpty(ch)
        /\ PopData(c, ch)
  /\ Return(c)
  /\ UNCHANGED << closed, producers, pushes, status >>

PopReturn(c) ==
  /\ At(c, "popped")
  /\ Returned(c)
  /\ Return(c)
  /\ UNCHANGED << closed, queues, data, pushes, status >>

-----------------------------------------------------------------------------
\* cat_channel_close() and cat_channel_cleanup()

Close(c, ch, cleanup) ==
  /\ At(c, "user")
  /\ "close" \in use
  /\ ~closed[ch]
  /\ closed' = [closed EXCEPT ![ch] = TRUE]
  /\ pc' = [pc EXCEPT ![c] = "close_p"]
  /\ op' = [op EXCEPT ![c] = [NoOp EXCEPT !.channel = ch, !.cleanup = cleanup]]
  /\ UNCHANGED << chain, timedout, queues, data, pushes, status >>

\* Mutant: if for while.
CloseProducersOnce(c) ==
  LET ch == op[c].channel IN
  /\ At(c, "close_p")
  /\ pc' = [pc EXCEPT ![c] = "close_c"]
  /\ IF HasProducers(ch) THEN ResumeProducer(c, ch) ELSE UNCHANGED << chain, timedout, queues >>
  /\ UNCHANGED << op, closed, data, pushes, status >>

\* while ((waiter = front(producers))) resume(waiter)
CloseProducers(c) ==
  LET ch == op[c].channel IN
  /\ At(c, "close_p")
  /\ IF HasProducers(ch)
     THEN ResumeProducer(c, ch) /\ UNCHANGED pc
     ELSE pc' = [pc EXCEPT ![c] = "close_c"] /\ UNCHANGED << chain, timedout, queues >>
  /\ UNCHANGED << op, closed, data, pushes, status >>

\* while ((waiter = front(consumers))) resume(waiter)
CloseConsumers(c) ==
  /\ At(c, "close_c")
  /\ HasConsumers(op[c].channel)
  /\ ResumeConsumer(c, op[c].channel)
  /\ UNCHANGED << pc, op, closed, data, pushes, status >>

Drain(ch) ==
  /\ storage' = [storage EXCEPT ![ch] = << >>]
  /\ UNCHANGED << able, slot, received >>

CloseReturn(c) ==
  /\ At(c, "close_c")
  /\ ~HasConsumers(op[c].channel)
  /\ IF op[c].cleanup THEN Drain(op[c].channel) ELSE UNCHANGED data
  /\ Returned(c)
  /\ Return(c)
  /\ UNCHANGED << closed, queues, pushes, status >>

\* cleanup() of a channel that is closed already.
Cleanup(c, ch) ==
  /\ At(c, "user")
  /\ "close" \in use
  /\ closed[ch]
  /\ Drain(ch)
  /\ UNCHANGED << chain, pc, op, timedout, closed, queues, pushes, status >>

-----------------------------------------------------------------------------
\* cat_channel_select()

\* The first pass over the requests ends at a request that is ready or closed.
Hit(r) ==
  IF r.opcode = "PUSH"
  THEN closed[r.channel] \/ IsWritable(r.channel)
  ELSE (closed[r.channel] /\ IsEmpty(r.channel)) \/ IsReadable(r.channel)

SelectNow(c, requests) ==
  \E i \in DOMAIN requests :
    LET r == requests[i] IN
    /\ At(c, "user")
    /\ Hit(r) /\ \A j \in 1..(i - 1) : ~Hit(requests[j])
    /\ \/ /\ r.opcode = "PUSH" /\ ~closed[r.channel]
          /\ \E v \in Value : Take(v) /\ PushNow(c, r.channel, v)
       \/ /\ r.opcode = "POP" /\ IsReadable(r.channel)
          /\ PopNow(c, r.channel)

\* The dummies that the requests for one event of a channel queue.
Dummies(c, requests, ch, opcode) ==
  LET asks == { i \in DOMAIN requests : requests[i] = [channel |-> ch, opcode |-> opcode] }
      wanted == Ascending(asks, Len(requests))
  IN  [k \in DOMAIN wanted |-> Waiter(c, wanted[k])]

SelectWait(c, requests, timed) ==
  LET pushing == \E i \in DOMAIN requests : requests[i].opcode = "PUSH"
      v == IF pushing THEN pushes + 1 ELSE 0 IN
  /\ At(c, "user")
  /\ \A i \in DOMAIN requests : ~Hit(requests[i])
  /\ IF pushing
     THEN Take(v) /\ status' = [status EXCEPT ![v] = "pending"]
     ELSE UNCHANGED << pushes, status >>
  /\ producers' = [ch \in Channel |-> producers[ch] \o Dummies(c, requests, ch, "PUSH")]
  /\ consumers' = [ch \in Channel |-> consumers[ch] \o Dummies(c, requests, ch, "POP")]
  /\ Wait(c, "select", [NoOp EXCEPT !.requests = requests, !.value = v, !.timed = timed])
  /\ UNCHANGED << closed, data >>

\* The requests of c whose dummy has been resumed.
Fired(c) ==
  { e.index : e \in { f \in UNION { Range(producers[ch]) \cup Range(consumers[ch])
                                    : ch \in Channel } : Owns(c, f) /\ f.fired } }

\* Mutant: the loop ends at the first dummy that was resumed.
LastRemovedAtFired(c) ==
  IF Fired(c) = {} THEN Len(op[c].requests) ELSE CHOOSE i \in Fired(c) : TRUE

\* The last dummy that select() takes off its queue: the loop ends at the first
\* one that was resumed by the close() of its channel.
LastRemoved(c) ==
  LET requests == op[c].requests
      broken == { i \in Fired(c) : closed[requests[i].channel] }
  IN  IF broken = {} THEN Len(requests)
      ELSE CHOOSE i \in broken : \A j \in broken : i <= j

SelectWoken(c) ==
  LET requests == op[c].requests
      last == LastRemoved(c) IN
  /\ At(c, "select")
  /\ producers' = [ch \in Channel |-> Remove(producers[ch], c, last)]
  /\ consumers' = [ch \in Channel |-> Remove(consumers[ch], c, last)]
  /\ \/ /\ \A i \in Fired(c) : closed[requests[i].channel]
        /\ Finished(c, "false")
        /\ Returned(c)
        /\ UNCHANGED data
     \/ \E i \in Fired(c) :
          LET r == requests[i] IN
          /\ ~closed[r.channel]
          /\ \/ /\ r.opcode = "PUSH"
                /\ Finished(c, "true")
                /\ PushData(c, r.channel, op[c].value)
             \/ /\ r.opcode = "POP"
                /\ Finished(c, "false")
                /\ PopData(c, r.channel)
  /\ Return(c)
  /\ UNCHANGED << closed, pushes >>

-----------------------------------------------------------------------------
\* Everything else that switches coroutines.

\* A coroutine in its own code goes to sleep ...
Sleep(c) ==
  /\ At(c, "user")
  /\ chain' = YieldOn(chain)
  /\ UNCHANGED << pc, op, timedout, closed, queues, data, pushes, status >>

\* ... or resumes another one, whatever that one is waiting for.
Resume(c, target) ==
  /\ At(c, "user")
  /\ target # c
  /\ chain' = ResumeOn(chain, target)
  /\ UNCHANGED << pc, op, timedout, closed, queues, data, pushes, status >>

\* The scheduler starts a coroutine, or ends its sleep.
Wakeup(c) ==
  /\ Running(chain) = Scheduler
  /\ pc[c] = "user"
  /\ chain' = ResumeOn(chain, c)
  /\ UNCHANGED << pc, op, timedout, closed, queues, data, pushes, status >>

\* cat_timer_callback(): the timeout of a wait.
Timeout(c) ==
  /\ Running(chain) = Scheduler
  /\ pc[c] \in {"push", "pop", "select"} /\ op[c].timed
  /\ timedout' = timedout \cup {c}
  /\ chain' = ResumeOn(chain, c)
  /\ UNCHANGED << pc, op, closed, queues, data, pushes, status >>

-----------------------------------------------------------------------------
ChannelStep(c, ch) ==
  \/ Push(c, ch)
  \/ \E timed \in BOOLEAN : PushWait(c, ch, timed) \/ PopWait(c, ch, timed)
  \/ Pop(c, ch)
  \/ \E cleanup \in BOOLEAN : Close(c, ch, cleanup)
  \/ Cleanup(c, ch)

SelectStep(c, requests) ==
  \/ SelectNow(c, requests)
  \/ \E timed \in BOOLEAN : SelectWait(c, requests, timed)

Continue(c) ==
  \/ PushWoken(c) \/ PushReturn(c)
  \/ PopWoken(c) \/ PopReturn(c)
  \/ SelectWoken(c)
  \/ CloseProducers(c) \/ CloseConsumers(c) \/ CloseReturn(c)

Next ==
  /\ \E c \in Coroutine :
       \/ \E ch \in Channel : ChannelStep(c, ch)
       \/ "select" \in use /\ \E requests \in Selects : SelectStep(c, requests)
       \/ Continue(c)
       \/ Sleep(c)
       \/ \E target \in Coroutine : Resume(c, target)
       \/ Wakeup(c)
       \/ Timeout(c)
  /\ UNCHANGED use

Spec == Init /\ [][Next]_vars

-----------------------------------------------------------------------------
\* Properties.

Where == {"user", "push", "pop", "select", "pushed", "popped", "close_p", "close_c"}
WaiterType == [owner : Coroutine, index : Nat, fired : BOOLEAN, freed : BOOLEAN]

\* The types of the state: a channel never stores more than its capacity, the
\* waiters are coroutines or dummies, the values those that were pushed.
TypeOK ==
  /\ OnChain(chain) \subseteq Routine /\ chain[1] = Scheduler
  /\ pc \in [Coroutine -> Where]
  /\ \A c \in Coroutine :
       /\ op[c].channel \in Channel /\ op[c].value \in 0..MaxPush
       /\ op[c].timed \in BOOLEAN /\ op[c].cleanup \in BOOLEAN
       /\ op[c].requests \in Selects \cup {<< >>}
  /\ timedout \subseteq Coroutine
  /\ closed \in [Channel -> BOOLEAN]
  /\ able \in [Channel -> BOOLEAN]
  /\ \A ch \in Channel :
       /\ Range(producers[ch]) \cup Range(consumers[ch]) \subseteq WaiterType
       /\ Range(storage[ch]) \cup Range(received[ch]) \subseteq Value
       /\ Len(storage[ch]) <= capacity[ch]
       /\ slot[ch] \in Coroutine \/ slot[ch] \in 0..MaxPush
  /\ pushes \in 0..MaxPush
  /\ status \in [Value -> {"none", "pending", "true", "false"}]

\* The waiters that the operations in progress account for: the coroutines in a
\* wait_on() of the channel, and the dummies of those in a select().
Waiting(ch, where, opcode) ==
  { <<c, 0>> : c \in { d \in Coroutine : pc[d] = where /\ op[d].channel = ch } }
    \cup { w \in Coroutine \X UNION { DOMAIN r : r \in Selects } :
            /\ pc[w[1]] = "select"
            /\ w[2] \in DOMAIN op[w[1]].requests
            /\ op[w[1]].requests[w[2]] = [channel |-> ch, opcode |-> opcode] }

Queued(q) == { <<q[i].owner, q[i].index>> : i \in DOMAIN q }

\* The state is well typed, and a queue holds exactly the waiters of the operations
\* in progress, each once: whether a wait ends by a notification, its timeout, a
\* close or because another coroutine resumes the waiter, wait_on() and select()
\* leave no node behind.
QueuesExact ==
  TypeOK /\ \A ch \in Channel :
    /\ Queued(producers[ch]) = Waiting(ch, "push", "PUSH")
    /\ Queued(consumers[ch]) = Waiting(ch, "pop", "POP")
    /\ Len(producers[ch]) = Cardinality(Queued(producers[ch]))
    /\ Len(consumers[ch]) = Cardinality(Queued(consumers[ch]))

UserRuns == \E c \in Coroutine : At(c, "user")

\* The assertions of push and pop.  At their entry, whenever a coroutine is free
\* to call them: no consumer waits for stored data, no producer waits for room,
\* and the two sides of an unbuffered channel do not wait for each other.  Behind
\* wait_on(): a producer that finds room has no consumer waiting next to it, a
\* consumer that finds data no producer.  And the comments of the two notifications
\* of an unbuffered channel, "after it yield and go back to here, data has been
\* consumed" and "when it yield and go back to here, data is ready".
Asserts ==
  /\ UserRuns =>
       \A ch \in Channel :
         /\ ~able[ch]
         /\ IsUnbuffered(ch) => ~(HasProducers(ch) /\ HasConsumers(ch))
         /\ ~IsUnbuffered(ch) /\ HasConsumers(ch) => IsEmpty(ch)
         /\ ~IsUnbuffered(ch) /\ HasProducers(ch) /\ ~closed[ch] => IsFull(ch)
  /\ \A c \in Coroutine \ timedout :
       LET ch == op[c].channel IN
       /\ At(c, "push") /\ (IF IsUnbuffered(ch) THEN able[ch] ELSE ~IsFull(ch))
            => ~HasConsumers(ch)
       /\ At(c, "pop") /\ (IF IsUnbuffered(ch) THEN able[ch] ELSE ~IsEmpty(ch))
            => ~HasProducers(ch)
  /\ \A c \in Coroutine :
       LET ch == op[c].channel IN
       IsUnbuffered(ch) =>
         /\ At(c, "pushed") => op[c].value \in Range(received[ch])
         /\ At(c, "popped") => op[c].value # 0

Closing(ch) ==
  \E c \in Coroutine : pc[c] \in {"close_p", "close_c"} /\ op[c].channel = ch

\* Whoever waits on a channel when it is closed is woken before close() returns,
\* and nobody begins to wait on it afterwards.
ClosedHasNoWaiters ==
  \A ch \in Channel :
    closed[ch] /\ ~Closing(ch) => ~HasProducers(ch) /\ ~HasConsumers(ch)

Everywhere == UNION { Range(storage[ch]) \cup Range(received[ch]) : ch \in Channel }

\* What a push returns is what happened: a value whose push has failed, by timeout,
\* cancellation or close, is never delivered, and one whose push has succeeded is
\* stored or delivered, until a cleanup.
PushTruthful ==
  /\ \A v \in Value : status[v] = "false" => v \notin Everywhere
  /\ (\A ch \in Channel : ~closed[ch]) =>
       \A v \in Value : status[v] = "true" => v \in Everywhere

\* The front waiter is not a dummy that was resumed before: the assertion of
\* cat_channel_resume_waiter(), whenever a coroutine may call it.
ResumeWaiterAssert ==
  (\E c \in Coroutine : pc[c] \in {"user", "close_p", "close_c"} /\ Running(chain) = c) =>
    \A ch \in Channel :
      /\ HasProducers(ch) => ~producers[ch][1].fired
      /\ HasConsumers(ch) => ~consumers[ch][1].fired

Fifo(ch) == INSTANCE ChannelSpec WITH
  Capacity <- capacity[ch], queue <- storage[ch], delivered <- received[ch]

\* Every channel is a FIFO of at most its capacity that loses, duplicates and
\* reorders nothing, whoever waits, times out, is cancelled or selects.
RefinesFifo ==
  /\ \A ch \in Channel : Fifo(ch)!FifoInit
  /\ [][\A ch \in Channel : [Fifo(ch)!FifoNext]_<< storage[ch], received[ch] >>]_vars
=============================================================================
