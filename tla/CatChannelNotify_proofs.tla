---------------------- MODULE CatChannelNotify_proofs ----------------------
(***************************************************************************)
(* Proofs about CatChannel, continued: an operation that finds somebody    *)
(* waiting resumes it and says what it may do; what a coroutine that was   *)
(* woken finds; and what every step does to the queue of values.           *)
(***************************************************************************)
EXTENDS CatChannel_proofs

-----------------------------------------------------------------------------
\* The notifications.

\* The queue f is q, where the front node, if it is a dummy, has been marked.
FiredFront(f, q) ==
  /\ \A i \in DOMAIN f : f[i].fired <=> i = 1 /\ q[1].index # 0
  /\ DOMAIN f = DOMAIN q /\ \A i \in DOMAIN q : f[i].index = q[i].index

\* The front waiter is resumed: it runs, and a dummy is marked.
LEMMA FireQueue ==
  ASSUME NEW q \in Seq(WaiterType), NEW ch, NEW where \in {"push", "pop"}, NEW opcode,
         NEW p, NEW o, NEW p2, NEW o2, NEW run, NEW c \in Coroutine,
         QueueOK(q, ch, where, opcode, p, o, run), \A i \in DOMAIN q : ~ q[i].fired, q # << >>,
         Others(c, p, p2, o, o2), p[c] \notin InWait, p2[c] \notin InWait
  PROVE  /\ Fire(q) \in Seq(WaiterType) /\ Fire(q) # << >>
         /\ QueueOK(Fire(q), ch, where, opcode, p2, o2, q[1].owner)
         /\ FiredFront(Fire(q), q) /\ 1 \in DOMAIN q
<1>1. QueueOK(q, ch, where, opcode, p2, o2, q[1].owner)
  BY SameQueue, Zenon
<1>2. 1 \in DOMAIN q /\ DOMAIN q = 1..Len(q) /\ q \in [1..Len(q) -> WaiterType]
  OBVIOUS
<1>3. CASE q[1].index = 0
  BY <1>1, <1>2, <1>3 DEF Fire, FiredFront
<1>4. CASE q[1].index # 0
  <2>1. PICK r : r = [q EXCEPT ![1].fired = TRUE]
    BY Zenon
  <2>2. Fire(q) = r
    BY <1>4, <2>1 DEF Fire
  <2>3. PICK e \in WaiterType : e = q[1]
    BY <1>2
  <2>4. r = [q EXCEPT ![1] = [e EXCEPT !.fired = TRUE]]
    BY <1>2, <2>1, <2>3
  <2>5. /\ [e EXCEPT !.fired = TRUE] \in WaiterType
        /\ [e EXCEPT !.fired = TRUE].fired
        /\ [e EXCEPT !.fired = TRUE].owner = e.owner
        /\ [e EXCEPT !.fired = TRUE].index = e.index
    BY Zenon DEF WaiterType
  <2>6. ~ e.freed => ~ [e EXCEPT !.fired = TRUE].freed
    BY DEF WaiterType
  <2>7. PICK f \in WaiterType : f = [e EXCEPT !.fired = TRUE]
    BY <2>5
  <2>8. /\ r \in Seq(WaiterType) /\ DOMAIN r = DOMAIN q /\ r[1] = f
        /\ \A i \in DOMAIN q : i # 1 => r[i] = q[i]
    BY <1>2, <2>4, <2>7
  <2>9. \A i \in DOMAIN q : r[i].owner = q[i].owner /\ r[i].index = q[i].index
    BY <2>3, <2>5, <2>7, <2>8, Zenon
  <2>10. \A i \in DOMAIN r : r[i].fired <=> i = 1
    BY <2>5, <2>7, <2>8, Zenon
  <2>11. \A i \in DOMAIN r : ~ r[i].freed
    BY <1>1, <2>3, <2>6, <2>7, <2>8, Zenon DEF QueueOK
  <2>12. \A i \in DOMAIN r : Accounted(r[i], ch, where, opcode, p2, o2)
    BY <1>1, <1>4, <2>8, <2>9, <2>10 DEF QueueOK, Accounted
  <2>13. Distinct(r)
    BY <1>1, <2>8, <2>9 DEF QueueOK, Distinct
  <2>14. \A d, k : HasNode(q, d, k) => HasNode(r, d, k)
    BY <2>8, <2>9 DEF HasNode
  <2>15. \A i \in DOMAIN r : r[i].fired => r[i].owner = q[1].owner
    BY <2>8, <2>9, <2>10
  <2>16. QueueOK(r, ch, where, opcode, p2, o2, q[1].owner)
    BY <1>1, <2>11, <2>12, <2>13, <2>14, <2>15, Zenon DEF QueueOK
  <2>17. r # << >>
    BY <1>2, <2>8
  <2>18. FiredFront(r, q)
    BY <1>4, <2>8, <2>9, <2>10 DEF FiredFront
  <2> QED
    BY <1>2, <2>2, <2>8, <2>16, <2>17, <2>18
<1> QED
  BY <1>3, <1>4

\* One notification at a time is on its way.
LEMMA OneNotice ==
  ASSUME NEW r \in Coroutine, NEW s \in Coroutine, NEW ch \in Channel, NEW d \in Channel
  PROVE  /\ Pushed(r, ch) /\ Pushed(s, d) /\ IsUnbuffered(d) => ch = d
         /\ Popped(r, ch) /\ Popped(s, d) /\ IsUnbuffered(d) => ch = d
         /\ Pushed(r, ch) /\ Popped(s, d) => ~ IsUnbuffered(ch) /\ ~ IsUnbuffered(d)
<1>1. Pushed(r, ch) /\ Pushed(s, d) /\ IsUnbuffered(d) => ch = d
  BY DEF Pushed, QuietOn
<1>2. Popped(r, ch) /\ Popped(s, d) /\ IsUnbuffered(d) => ch = d
  BY DEF Popped, QuietOn
<1>3. ASSUME Pushed(r, ch), Popped(s, d), IsUnbuffered(ch) \/ IsUnbuffered(d) PROVE FALSE
  <2>1. ch = d
    BY <1>3 DEF Pushed, Popped, QuietOn
  <2>2. /\ Resumed(r, consumers[ch], ch, "pop", "POP") /\ Resumed(s, producers[ch], ch, "push", "PUSH")
    BY <1>3, <2>1 DEF Pushed, Popped
  <2>3. r = s /\ pc[r] = "select"
    BY <2>2 DEF Resumed
  <2>4. PICK i \in DOMAIN op[r].requests :
          op[r].requests[i] = [channel |-> ch, opcode |-> "POP"] /\ OnlyFired(consumers[ch], r, i)
    BY <2>2, <2>3 DEF Resumed
  <2>5. PICK j \in DOMAIN op[r].requests :
          op[r].requests[j] = [channel |-> ch, opcode |-> "PUSH"] /\ OnlyFired(producers[ch], r, j)
    BY <2>2, <2>3 DEF Resumed
  <2>6. i = j
    BY <2>4, <2>5 DEF OnlyFired, OnlyIndex
  <2> QED
    BY <2>4, <2>5, <2>6
<1> QED
  BY <1>1, <1>2, <1>3

\* Where somebody selects, no channel is closed.
LEMMA SelectOpen ==
  ASSUME CloseApart, TypeInv, "select" \in use
  PROVE  \A d \in Channel : ~ closed[d]
<1>1. use \in Uses /\ \A d \in Channel : closed[d] => "close" \in use
  BY Zenon DEF TypeInv
<1>2. "close" \notin use
  BY <1>1 DEF CloseApart
<1> QED
  BY <1>1, <1>2

\* The front waiter r of a queue, and the queue when it has been resumed.
FrontIs(q, f, r, ch, where, opcode, p, o) ==
  \/ p[r] = where /\ o[r].channel = ch /\ AllIdle(f)
  \/ /\ p[r] = "select"
     /\ \E i \in DOMAIN o[r].requests :
          /\ o[r].requests[i] = [channel |-> ch, opcode |-> opcode] /\ OnlyIndex(f, i)
          /\ \E k \in DOMAIN f : f[k].fired /\ f[k].owner = r /\ f[k].index = i

\* c, which runs and does not wait, changes its own operation at most.
Steps(c) ==
  /\ Running(chain) = c /\ pc[c] \notin InWait
  /\ pc' \in [Coroutine -> Where] /\ op' \in [Coroutine -> OpType] /\ pc'[c] \notin InWait
  /\ \A d \in Coroutine \ {c} : pc'[d] = pc[d] /\ op'[d] = op[d]

\* r has been resumed, and the queues are what they were.
Wakes(r) ==
  /\ RunChain(chain') /\ Running(chain') = r /\ timedout' = {} /\ QueueInv'
  /\ producers' \in [Channel -> Seq(WaiterType)] /\ consumers' \in [Channel -> Seq(WaiterType)]
  /\ \A d \in Channel : /\ HasProducers(d)' <=> HasProducers(d)
                        /\ HasConsumers(d)' <=> HasConsumers(d)

\* The value on its way, when the consumer r has been notified.
SlotForm(r, ch) ==
  /\ Pushed(r, ch) =>
       \A v : InSlot(v) <=> IsUnbuffered(ch) /\ v = slot[ch]
  /\ Popped(r, ch) => \A v : ~ InSlot(v)

\* It has this form always.
LEMMA SlotForms == \A r \in Coroutine, ch \in Channel : SlotForm(r, ch)
<1> SUFFICES ASSUME NEW r \in Coroutine, NEW ch \in Channel PROVE SlotForm(r, ch)
  OBVIOUS
<1>1. Pushed(r, ch) => \A v : InSlot(v) <=> IsUnbuffered(ch) /\ v = slot[ch]
  BY OneNotice DEF InSlot
<1>2. Popped(r, ch) => \A v : ~ InSlot(v)
  BY OneNotice DEF InSlot
<1> QED
  BY <1>1, <1>2 DEF SlotForm

\* The same in the next state.
LEMMA SlotFormsNext == (\A r \in Coroutine, ch \in Channel : SlotForm(r, ch))'
BY SlotForms, PTL

\* A push or a pop that need not wait, and a step of a close that wakes a waiter or goes on,
\* keep the invariant.
LEMMA NotifyingKept ==
  ASSUME CloseApart, Inv, UNCHANGED use
  PROVE  \A c \in Coroutine :
           /\ CloseProducers(c) \/ CloseConsumers(c) => Inv'
           /\ \A ch \in Channel :
                /\ At(c, "user") /\ PopNow(c, ch) => Inv'
                /\ \A v \in Value :
                     At(c, "user") /\ ~ closed[ch] /\ Take(v) /\ PushNow(c, ch, v) => Inv'
\* The requests of an operation.
<1>RequestTypes.
     ASSUME TypeInv, NEW c \in Coroutine
     PROVE  op[c].requests \in Seq(Request)
  <2> USE <1>RequestTypes
  <2>1. op[c].requests \in Selects \cup {<< >>}
    BY DEF TypeInv, OpType
  <2>2. << >> \in Seq(Request)
    OBVIOUS
  <2> QED
    BY <2>1, <2>2, SelectsAssumption, Zenon

\* The front of a queue, from which the waiter that is notified is taken.
<1>FrontWaiter.
     ASSUME NEW q \in Seq(WaiterType), NEW ch, NEW where \in {"push", "pop"}, NEW opcode,
            NEW p, NEW o, NEW p2, NEW o2, NEW run, NEW c \in Coroutine,
            QueueOK(q, ch, where, opcode, p, o, run), AllIdle(q), q # << >>,
            Others(c, p, p2, o, o2), p[c] \notin InWait, p2[c] \notin InWait, q[1].owner # c,
            \A r \in Coroutine : o[r].requests \in Seq(Request)
     PROVE  /\ q[1].owner \in Coroutine
            /\ FrontIs(q, Fire(q), q[1].owner, ch, where, opcode, p2, o2)
  <2> USE <1>FrontWaiter
  <2>1. \A i \in DOMAIN q : ~ q[i].fired
    BY DEF AllIdle
  <2>2. PICK f : f = Fire(q)
    OBVIOUS
  <2>3. /\ QueueOK(f, ch, where, opcode, p2, o2, q[1].owner)
        /\ \A i \in DOMAIN f : f[i].fired <=> i = 1 /\ q[1].index # 0
        /\ DOMAIN f = DOMAIN q /\ \A i \in DOMAIN q : f[i].index = q[i].index
        /\ 1 \in DOMAIN q
    <3>1. /\ QueueOK(Fire(q), ch, where, opcode, p2, o2, q[1].owner)
          /\ FiredFront(Fire(q), q) /\ 1 \in DOMAIN q
      BY <2>1, FireQueue, Zenon
    <3> QED
      BY <2>2, <3>1, Zenon DEF FiredFront
  <2>4. q[1].owner \in Coroutine /\ q[1].index \in Nat
    BY <2>3, NodeType
  <2>5. PICK r \in Coroutine : r = q[1].owner /\ r # c
    BY <2>4
  <2>6. /\ p2[r] = p[r] /\ o2[r].channel = o[r].channel /\ o2[r].requests = o[r].requests
    BY <2>5 DEF Others
  <2>7. Accounted(q[1], ch, where, opcode, p, o)
    BY <2>3 DEF QueueOK
  <2>8. CASE q[1].index = 0 /\ p[r] = where /\ o[r].channel = ch
    <3>1. AllIdle(f)
      BY <2>3, <2>8 DEF AllIdle
    <3> QED
      BY <2>2, <2>5, <2>6, <2>8, <3>1 DEF FrontIs
  <2>9. CASE /\ p[r] = "select" /\ q[1].index \in DOMAIN o[r].requests
             /\ o[r].requests[q[1].index] = [channel |-> ch, opcode |-> opcode]
    <3>1. PICK i \in DOMAIN o[r].requests : i = q[1].index
      BY <2>9
    <3>2. i # 0
      <4>1. PICK s \in Seq(Request) : s = o[r].requests
        BY <2>5
      <4>2. DOMAIN s = 1..Len(s) /\ Len(s) \in Nat
        OBVIOUS
      <4> QED
        BY <3>1, <4>1, <4>2
    <3>3. f[1].fired /\ f[1].index = i /\ OnlyIndex(f, i)
      BY <2>3, <3>1, <3>2, Zenon DEF OnlyIndex
    <3>4. f[1].owner = r
      BY <2>3, <2>5, <3>3 DEF QueueOK
    <3>5. \E k \in DOMAIN f : f[k].fired /\ f[k].owner = r /\ f[k].index = i
      BY <2>3, <3>3, <3>4, Zenon
    <3>6. p2[r] = "select" /\ i \in DOMAIN o2[r].requests
          /\ o2[r].requests[i] = [channel |-> ch, opcode |-> opcode]
      BY <2>6, <2>9, <3>1
    <3>7. FrontIs(q, f, r, ch, where, opcode, p2, o2)
      BY <3>3, <3>5, <3>6, Zenon DEF FrontIs
    <3> QED
      BY <2>2, <2>5, <3>7
  <2> QED
    BY <2>5, <2>7, <2>8, <2>9 DEF Accounted

\* A consumer is resumed.
<1>ConsumerWoken.
     ASSUME Inv, NEW c \in Coroutine, NEW ch \in Channel, Steps(c), HasConsumers(ch),
            ResumeConsumer(c, ch)
     PROVE  \E r \in Coroutine : Wakes(r) /\ Resumed(r, consumers[ch], ch, "pop", "POP")'
  <2> USE <1>ConsumerWoken
  <2>1. TypeInv /\ QueueInv /\ Quiet /\ timedout = {}
    BY QuietInv DEF Steps
  <2>2. Others(c, pc, pc', op, op') /\ pc[c] \notin InWait /\ pc'[c] \notin InWait
    BY DEF Steps, Others
  <2>3. ASSUME NEW d \in Channel
        PROVE  /\ producers[d] \in Seq(WaiterType) /\ consumers[d] \in Seq(WaiterType)
               /\ QueueOK(producers[d], d, "push", "PUSH", pc, op, Running(chain))
               /\ QueueOK(consumers[d], d, "pop", "POP", pc, op, Running(chain))
               /\ AllIdle(producers[d]) /\ AllIdle(consumers[d])
    BY <2>1, QueueTypes DEF QueueInv, Quiet, NoneFired
  <2>4. PICK q \in Seq(WaiterType) : q = consumers[ch]
    BY <2>3
  <2>5. q # << >> /\ q[1].owner # c /\ chain' = ResumeOn(chain, q[1].owner) /\ timedout' = {}
    BY <2>1, <2>4 DEF HasConsumers, ResumeConsumer, ResumeWaiter
  <2>6. PICK f : f = Fire(q)
    OBVIOUS
  <2>7. producers' = producers /\ consumers' = [consumers EXCEPT ![ch] = f]
    BY <2>4, <2>6 DEF ResumeConsumer
  <2>8. q[1].owner \in Coroutine /\ FrontIs(q, f, q[1].owner, ch, "pop", "POP", pc', op')
    <3>1. QueueOK(q, ch, "pop", "POP", pc, op, Running(chain)) /\ AllIdle(q)
      BY <2>3, <2>4
    <3>2. \A x \in Coroutine : op[x].requests \in Seq(Request)
      BY <2>1, <1>RequestTypes
    <3> QED
      BY <2>2, <2>5, <2>6, <3>1, <3>2, <1>FrontWaiter, Zenon
  <2>9. PICK r \in Coroutine : r = q[1].owner
    BY <2>8
  <2>10. f \in Seq(WaiterType) /\ f # << >> /\ QueueOK(f, ch, "pop", "POP", pc', op', r)
    <3>1. QueueOK(q, ch, "pop", "POP", pc, op, Running(chain)) /\ \A i \in DOMAIN q : ~ q[i].fired
      BY <2>3, <2>4 DEF AllIdle
    <3> QED
      BY <2>2, <2>5, <2>6, <2>9, <3>1, FireQueue, Zenon
  <2>11. RunChain(chain') /\ Running(chain') = r
    BY <2>1, <2>5, <2>9, ResumeChain, Zenon DEF TypeInv
  <2>12. /\ consumers' \in [Channel -> Seq(WaiterType)] /\ consumers'[ch] = f
         /\ \A d \in Channel \ {ch} : consumers'[d] = consumers[d]
         /\ producers' \in [Channel -> Seq(WaiterType)]
    BY <2>1, <2>7, <2>10, Zenon DEF TypeInv
  <2>13. QueueInv'
    <3> SUFFICES ASSUME NEW d \in Channel
                 PROVE  /\ QueueOK(producers'[d], d, "push", "PUSH", pc', op', r)
                        /\ QueueOK(consumers'[d], d, "pop", "POP", pc', op', r)
      BY <2>11 DEF QueueInv
    <3>1. /\ \A i \in DOMAIN producers[d] : ~ producers[d][i].fired
          /\ \A i \in DOMAIN consumers[d] : ~ consumers[d][i].fired
      BY <2>3 DEF AllIdle
    <3>2. QueueOK(producers[d], d, "push", "PUSH", pc', op', r)
      BY <2>2, <2>3, <3>1, SameQueue, Zenon
    <3>3. QueueOK(consumers[d], d, "pop", "POP", pc', op', r)
      BY <2>2, <2>3, <3>1, SameQueue, Zenon
    <3> QED
      BY <2>7, <2>10, <2>12, <3>2, <3>3, Zenon
  <2>14. \A d \in Channel : /\ HasProducers(d)' <=> HasProducers(d)
                            /\ HasConsumers(d)' <=> HasConsumers(d)
    BY <2>4, <2>5, <2>7, <2>10, <2>12 DEF HasProducers, HasConsumers
  <2>15. Wakes(r)
    BY <2>5, <2>11, <2>12, <2>13, <2>14, Zenon DEF Wakes
  <2>16. Resumed(r, consumers[ch], ch, "pop", "POP")'
    <3>1. FrontIs(q, f, r, ch, "pop", "POP", pc', op')
      BY <2>8, <2>9, Zenon
    <3>2. CASE pc'[r] = "pop" /\ op'[r].channel = ch /\ AllIdle(f)
      <4>1. NoneFired'
        <5> SUFFICES ASSUME NEW d \in Channel PROVE AllIdle(producers'[d]) /\ AllIdle(consumers'[d])
          BY DEF NoneFired, AllIdle
        <5> QED
          BY <2>3, <2>7, <2>12, <3>2, Zenon
      <4> QED
        BY <2>5, <2>11, <3>2, <4>1, Zenon DEF Resumed
    <3>3. ASSUME pc'[r] = "select", NEW i \in DOMAIN op'[r].requests,
                 op'[r].requests[i] = [channel |-> ch, opcode |-> "POP"], OnlyIndex(f, i),
                 \E k \in DOMAIN f : f[k].fired /\ f[k].owner = r /\ f[k].index = i
          PROVE  Resumed(r, consumers[ch], ch, "pop", "POP")'
      <4>1. \A d \in Channel : OnlyIndex(producers'[d], i) /\ OnlyIndex(consumers'[d], i)
        <5> SUFFICES ASSUME NEW d \in Channel
                     PROVE  OnlyIndex(producers'[d], i) /\ OnlyIndex(consumers'[d], i)
          OBVIOUS
        <5>1. OnlyIndex(producers[d], i) /\ OnlyIndex(consumers[d], i)
          BY <2>3, Zenon DEF OnlyIndex, AllIdle
        <5> QED
          BY <2>7, <2>12, <3>3, <5>1
      <4>2. OnlyFired(consumers[ch], r, i)'
        BY <2>12, <3>3, <4>1 DEF OnlyFired, OnlyIndex
      <4> QED
        BY <2>5, <2>11, <3>3, <4>2, Zenon DEF Resumed
    <3> QED
      BY <3>1, <3>2, <3>3 DEF FrontIs
  <2> QED
    BY <2>15, <2>16

\* A producer is resumed.
<1>ProducerWoken.
     ASSUME Inv, NEW c \in Coroutine, NEW ch \in Channel, Steps(c), HasProducers(ch),
            ResumeProducer(c, ch)
     PROVE  \E r \in Coroutine : Wakes(r) /\ Resumed(r, producers[ch], ch, "push", "PUSH")'
  <2> USE <1>ProducerWoken
  <2>1. TypeInv /\ QueueInv /\ Quiet /\ timedout = {}
    BY QuietInv DEF Steps
  <2>2. Others(c, pc, pc', op, op') /\ pc[c] \notin InWait /\ pc'[c] \notin InWait
    BY DEF Steps, Others
  <2>3. ASSUME NEW d \in Channel
        PROVE  /\ consumers[d] \in Seq(WaiterType) /\ producers[d] \in Seq(WaiterType)
               /\ QueueOK(consumers[d], d, "pop", "POP", pc, op, Running(chain))
               /\ QueueOK(producers[d], d, "push", "PUSH", pc, op, Running(chain))
               /\ AllIdle(consumers[d]) /\ AllIdle(producers[d])
    BY <2>1, QueueTypes DEF QueueInv, Quiet, NoneFired
  <2>4. PICK q \in Seq(WaiterType) : q = producers[ch]
    BY <2>3
  <2>5. q # << >> /\ q[1].owner # c /\ chain' = ResumeOn(chain, q[1].owner) /\ timedout' = {}
    BY <2>1, <2>4 DEF HasProducers, ResumeProducer, ResumeWaiter
  <2>6. PICK f : f = Fire(q)
    OBVIOUS
  <2>7. consumers' = consumers /\ producers' = [producers EXCEPT ![ch] = f]
    BY <2>4, <2>6 DEF ResumeProducer
  <2>8. q[1].owner \in Coroutine /\ FrontIs(q, f, q[1].owner, ch, "push", "PUSH", pc', op')
    <3>1. QueueOK(q, ch, "push", "PUSH", pc, op, Running(chain)) /\ AllIdle(q)
      BY <2>3, <2>4
    <3>2. \A x \in Coroutine : op[x].requests \in Seq(Request)
      BY <2>1, <1>RequestTypes
    <3> QED
      BY <2>2, <2>5, <2>6, <3>1, <3>2, <1>FrontWaiter, Zenon
  <2>9. PICK r \in Coroutine : r = q[1].owner
    BY <2>8, Zenon
  <2>10. f \in Seq(WaiterType) /\ f # << >> /\ QueueOK(f, ch, "push", "PUSH", pc', op', r)
    <3>1. QueueOK(q, ch, "push", "PUSH", pc, op, Running(chain)) /\ \A i \in DOMAIN q : ~ q[i].fired
      BY <2>3, <2>4 DEF AllIdle
    <3> QED
      BY <2>2, <2>5, <2>6, <2>9, <3>1, FireQueue, Zenon
  <2>11. RunChain(chain') /\ Running(chain') = r
    BY <2>1, <2>5, <2>9, ResumeChain DEF TypeInv
  <2>12. /\ producers' \in [Channel -> Seq(WaiterType)] /\ producers'[ch] = f
         /\ \A d \in Channel \ {ch} : producers'[d] = producers[d]
         /\ consumers' \in [Channel -> Seq(WaiterType)]
    BY <2>1, <2>7, <2>10, Zenon DEF TypeInv
  <2>13. QueueInv'
    <3> SUFFICES ASSUME NEW d \in Channel
                 PROVE  /\ QueueOK(consumers'[d], d, "pop", "POP", pc', op', r)
                        /\ QueueOK(producers'[d], d, "push", "PUSH", pc', op', r)
      BY <2>11 DEF QueueInv
    <3>1. /\ \A i \in DOMAIN consumers[d] : ~ consumers[d][i].fired
          /\ \A i \in DOMAIN producers[d] : ~ producers[d][i].fired
      BY <2>3 DEF AllIdle
    <3>2. QueueOK(consumers[d], d, "pop", "POP", pc', op', r)
      BY <2>2, <2>3, <3>1, SameQueue, Zenon
    <3>3. QueueOK(producers[d], d, "push", "PUSH", pc', op', r)
      BY <2>2, <2>3, <3>1, SameQueue, Zenon
    <3> QED
      BY <2>7, <2>10, <2>12, <3>2, <3>3, Zenon
  <2>14. \A d \in Channel : /\ HasConsumers(d)' <=> HasConsumers(d)
                            /\ HasProducers(d)' <=> HasProducers(d)
    BY <2>4, <2>5, <2>7, <2>10, <2>12, Zenon DEF HasConsumers, HasProducers
  <2>15. Wakes(r)
    BY <2>5, <2>11, <2>12, <2>13, <2>14, Zenon DEF Wakes
  <2>16. Resumed(r, producers[ch], ch, "push", "PUSH")'
    <3>1. FrontIs(q, f, r, ch, "push", "PUSH", pc', op')
      BY <2>8, <2>9, Zenon
    <3>2. CASE pc'[r] = "push" /\ op'[r].channel = ch /\ AllIdle(f)
      <4>1. NoneFired'
        <5> SUFFICES ASSUME NEW d \in Channel PROVE AllIdle(consumers'[d]) /\ AllIdle(producers'[d])
          BY DEF NoneFired, AllIdle
        <5> QED
          BY <2>3, <2>7, <2>12, <3>2, Zenon
      <4> QED
        BY <2>5, <2>11, <3>2, <4>1, Zenon DEF Resumed
    <3>3. ASSUME pc'[r] = "select", NEW i \in DOMAIN op'[r].requests,
                 op'[r].requests[i] = [channel |-> ch, opcode |-> "PUSH"], OnlyIndex(f, i),
                 \E k \in DOMAIN f : f[k].fired /\ f[k].owner = r /\ f[k].index = i
          PROVE  Resumed(r, producers[ch], ch, "push", "PUSH")'
      <4>1. \A d \in Channel : OnlyIndex(consumers'[d], i) /\ OnlyIndex(producers'[d], i)
        <5> SUFFICES ASSUME NEW d \in Channel
                     PROVE  OnlyIndex(consumers'[d], i) /\ OnlyIndex(producers'[d], i)
          OBVIOUS
        <5>1. OnlyIndex(consumers[d], i) /\ OnlyIndex(producers[d], i)
          BY <2>3, Zenon DEF OnlyIndex, AllIdle
        <5> QED
          BY <2>7, <2>12, <3>3, <5>1, Zenon
      <4>2. OnlyFired(producers[ch], r, i)'
        BY <2>12, <3>3, <4>1, Zenon DEF OnlyFired, OnlyIndex
      <4> QED
        BY <2>5, <2>11, <3>3, <4>2, Zenon DEF Resumed
    <3> QED
      BY <3>1, <3>2, <3>3 DEF FrontIs
  <2> QED
    BY <2>15, <2>16, Zenon

\* A push takes the value v and notifies a consumer: v is in the storage, or on its way
\* to the consumer (W).
<1>ValuesPushed.
     ASSUME TypeInv, ValueOK({}), NEW c \in Coroutine, pc[c] \notin Pending,
            pc' = [pc EXCEPT ![c] = "pushed"], op' \in [Coroutine -> OpType],
            \A d \in Coroutine \ {c} : op'[d] = op[d],
            NEW v \in Value, op'[c].value = v, v = pushes + 1, pushes' = v,
            status' = [status EXCEPT ![v] = "pending"], closed' = closed,
            NEW W, \/ W = {v} /\ Everywhere' = Everywhere
                   \/ W = {} /\ Everywhere' = Everywhere \cup {v}
     PROVE  ValueOK(W)'
  <2> USE <1>ValuesPushed
  <2>1. PICK n \in Nat : pushes = n /\ v = n + 1
    BY MaxPushAssumption DEF TypeInv
  <2>2. /\ status'[v] = "pending" /\ \A x \in Value \ {v} : status'[x] = status[x]
    BY DEF TypeInv
  <2>3. pc'[c] = "pushed" /\ \A d \in Coroutine \ {c} : pc'[d] = pc[d]
    BY DEF TypeInv
  <2>4. v # 0 /\ v \notin Everywhere
    BY <2>1 DEF ValueOK
  <2>5. ASSUME NEW d \in Coroutine \ {c}, pc[d] \in Pending, op[d].value # 0
        PROVE  /\ op[d].value <= pushes' /\ status'[op[d].value] = "pending"
               /\ op[d].value # v
    <3>1. op[d].value \in 0..MaxPush /\ op[d].value <= n /\ status[op[d].value] = "pending"
      BY <2>1, <2>5 DEF TypeInv, OpType, ValueOK
    <3>2. op[d].value # v /\ op[d].value \in Value /\ op[d].value <= v
      BY <2>1, <2>5, <3>1, MaxPushAssumption DEF Value
    <3> QED
      BY <2>2, <3>1, <3>2, Zenon
  <2>6. \A d \in Coroutine : pc'[d] \in {"push", "pushed"} => op'[d].value # 0
    BY <2>3, <2>4 DEF ValueOK
  <2>7. \A d \in Coroutine : pc'[d] \in Pending /\ op'[d].value # 0 =>
          op'[d].value <= pushes' /\ status'[op'[d].value] = "pending"
    <3>1. v <= v
      BY <2>1
    <3> QED
      BY <2>2, <2>3, <2>5, <3>1
  <2>8. ASSUME NEW x \in Coroutine, NEW d \in Coroutine, pc'[x] \in Pending, pc'[d] \in Pending,
               op'[x].value = op'[d].value, op'[x].value # 0
        PROVE  x = d
    <3>1. CASE x = c \/ d = c
      BY <2>3, <2>5, <2>8, <3>1
    <3>2. CASE x # c /\ d # c
      BY <2>3, <2>8, <3>2 DEF ValueOK
    <3> QED
      BY <3>1, <3>2
  <2>9. \A d \in Coroutine : pc'[d] \in {"push", "select"} /\ op'[d].value # 0 =>
          op'[d].value \notin Everywhere' /\ op'[d].value \notin W
    <3> SUFFICES ASSUME NEW d \in Coroutine, pc'[d] \in {"push", "select"}, op'[d].value # 0
                 PROVE  op'[d].value \notin Everywhere' /\ op'[d].value \notin W
      OBVIOUS
    <3>1. d # c /\ pc[d] \in {"push", "select"} /\ op'[d] = op[d] /\ pc[d] \in Pending
      BY <2>3, Zenon DEF Pending
    <3>2. op[d].value \notin Everywhere /\ op[d].value # v
      BY <2>5, <3>1 DEF ValueOK
    <3> QED
      BY <3>1, <3>2
  <2>10. \A x \in W : /\ x \notin Everywhere'
                      /\ \E d \in Coroutine : pc'[d] = "pushed" /\ op'[d].value = x
    BY <2>3, <2>4
  <2>11. \A x \in Value : x > pushes' => status'[x] = "none" /\ x \notin Everywhere'
    <3> SUFFICES ASSUME NEW x \in Value, x > n + 1
                 PROVE  status'[x] = "none" /\ x \notin Everywhere'
      BY <2>1
    <3>1. x # v /\ x > pushes
      BY <2>1 DEF Value
    <3> QED
      BY <2>2, <3>1 DEF ValueOK
  <2>12. \A x \in Value : status'[x] = "false" => x \notin Everywhere'
    BY <2>2 DEF ValueOK
  <2>13. (\A d \in Channel : ~ closed'[d]) =>
           /\ \A x \in Value : status'[x] = "true" => x \in Everywhere'
           /\ \A d \in Coroutine : pc'[d] = "pushed" => op'[d].value \in Everywhere'
                                                        \/ op'[d].value \in W
    <3> SUFFICES ASSUME \A d \in Channel : ~ closed[d]
                 PROVE  /\ \A x \in Value : status'[x] = "true" => x \in Everywhere'
                        /\ \A d \in Coroutine : pc'[d] = "pushed" =>
                             op'[d].value \in Everywhere' \/ op'[d].value \in W
      OBVIOUS
    <3>1. \A x \in Value : status'[x] = "true" => x \in Everywhere'
      BY <2>2 DEF ValueOK
    <3>2. \A d \in Coroutine : pc'[d] = "pushed" => op'[d].value \in Everywhere'
                                                    \/ op'[d].value \in W
      BY <2>3 DEF ValueOK
    <3> QED
      BY <3>1, <3>2
  <2> QED
    BY <2>6, <2>7, <2>8, <2>9, <2>10, <2>11, <2>12, <2>13, Zenon DEF ValueOK

\* The values, in a step that has none.
<1>ValuesSame.
     ASSUME TypeInv, ValueOK({}), NEW c \in Coroutine,
            \A d \in Coroutine \ {c} : pc'[d] = pc[d] /\ op'[d] = op[d],
            pc'[c] \notin Pending, Everywhere' = Everywhere,
            UNCHANGED << pushes, status, closed >>
     PROVE  ValueOK({})'
  <2> USE <1>ValuesSame
  <2>1. pc'[c] \notin {"push", "pushed", "select"}
    BY Zenon DEF Pending
  <2>2. /\ \A d \in Coroutine : pc'[d] \in {"push", "pushed"} => op'[d].value # 0
        /\ \A d \in Coroutine : pc'[d] \in Pending /\ op'[d].value # 0 =>
             op'[d].value <= pushes' /\ status'[op'[d].value] = "pending"
    BY <2>1 DEF ValueOK
  <2>3. \A x, d \in Coroutine :
          /\ pc'[x] \in Pending /\ pc'[d] \in Pending
          /\ op'[x].value = op'[d].value /\ op'[x].value # 0
          => x = d
    BY <2>1 DEF ValueOK
  <2>4. \A d \in Coroutine : pc'[d] \in {"push", "select"} /\ op'[d].value # 0 =>
          op'[d].value \notin Everywhere'
    BY <2>1, Zenon DEF ValueOK
  <2>5. (\A d \in Channel : ~ closed'[d]) =>
           /\ \A x \in Value : status'[x] = "true" => x \in Everywhere'
           /\ \A d \in Coroutine : pc'[d] = "pushed" => op'[d].value \in Everywhere'
    BY <2>1, Zenon DEF ValueOK
  <2>6. /\ \A x \in Value : x > pushes' => status'[x] = "none" /\ x \notin Everywhere'
        /\ \A x \in Value : status'[x] = "false" => x \notin Everywhere'
    BY DEF ValueOK
  <2> QED
    BY <2>2, <2>3, <2>4, <2>5, <2>6, Zenon DEF ValueOK

\* What a notification leaves alone.
<1>NotifyFrame.
     ASSUME Inv, NEW c \in Coroutine, Steps(c), NEW r \in Coroutine, Wakes(r), closed' = closed,
            pc[c] \notin {"close_p", "close_c"} \/ (pc' = pc /\ op' = op)
     PROVE  /\ TimerInv' /\ CloseInv'
            /\ \A d \in Channel : QuietOn(d) /\ able'[d] = able[d] /\ storage'[d] = storage[d]
                                  => QuietOn(d)'
  <2> USE <1>NotifyFrame
  <2>1. TimerInv'
    BY DEF TimerInv, Wakes
  <2>2. \A d \in Channel : /\ HasProducers(d)' <=> HasProducers(d)
                           /\ HasConsumers(d)' <=> HasConsumers(d)
    BY DEF Wakes
  <2>3. CloseInv'
    <3>1. \A x \in Coroutine : pc[x] \in {"close_p", "close_c"} =>
            pc'[x] = pc[x] /\ op'[x].channel = op[x].channel
      BY DEF Steps
    <3> SUFFICES ASSUME NEW d \in Channel, closed[d]
                 PROVE  /\ HasProducers(d)' => \E x \in Coroutine :
                             pc'[x] = "close_p" /\ op'[x].channel = d
                        /\ HasConsumers(d)' => \E x \in Coroutine :
                             pc'[x] \in {"close_p", "close_c"} /\ op'[x].channel = d
      BY DEF CloseInv
    <3>2. /\ HasProducers(d) => \E x \in Coroutine : pc[x] = "close_p" /\ op[x].channel = d
          /\ HasConsumers(d) => \E x \in Coroutine : pc[x] \in {"close_p", "close_c"}
                                                      /\ op[x].channel = d
      BY Zenon DEF Inv, CloseInv
    <3> QED
      BY <2>2, <3>1, <3>2
  <2>4. ASSUME NEW d \in Channel, QuietOn(d), able'[d] = able[d], storage'[d] = storage[d]
        PROVE  QuietOn(d)'
    BY <2>2, <2>4, Zenon DEF QuietOn, IsUnbuffered, IsEmpty, IsFull
  <2> QED
    BY <2>1, <2>3, <2>4

\* The types, after a notification.
<1>NotifyTypes.
     ASSUME Inv, NEW c \in Coroutine, Steps(c), NEW r \in Coroutine, Wakes(r), closed' = closed,
            use' = use, pc'[c] \in {"pushed", "popped"},
            storage' \in [Channel -> Seq(Value)], received' \in [Channel -> Seq(Value)],
            \A d \in Channel : Len(storage'[d]) <= capacity[d],
            able' \in [Channel -> BOOLEAN], slot' \in [Channel -> Coroutine \cup 0..MaxPush],
            pushes' \in 0..MaxPush, status' \in [Value -> {"none", "pending", "true", "false"}]
     PROVE  TypeInv'
  <2> USE <1>NotifyTypes
  <2>1. TypeInv
    BY DEF Inv
  <2>2. \A d \in Coroutine : /\ pc'[d] = "select" => pc[d] = "select" /\ op'[d] = op[d]
                             /\ pc'[d] \in {"close_p", "close_c"} =>
                                  pc[d] \in {"close_p", "close_c"} /\ op'[d] = op[d]
    BY Zenon DEF Steps
  <2>3. /\ \A d \in Coroutine : pc'[d] = "select" => "select" \in use'
        /\ \A d \in Coroutine : pc'[d] = "select" /\ Pushes(op'[d].requests) => op'[d].value # 0
        /\ \A d \in Coroutine : pc'[d] \in {"close_p", "close_c"} => closed'[op'[d].channel]
        /\ \A d \in Channel : closed'[d] => "close" \in use'
    BY <2>1, <2>2, ZenonT(30) DEF TypeInv
  <2>4. RunChain(chain') /\ closed' \in [Channel -> BOOLEAN] /\ use' \in Uses
    BY <2>1, Zenon DEF TypeInv, Wakes
  <2>5. /\ pc' \in [Coroutine -> Where] /\ op' \in [Coroutine -> OpType]
        /\ producers' \in [Channel -> Seq(WaiterType)]
        /\ consumers' \in [Channel -> Seq(WaiterType)]
    BY DEF Steps, Wakes
  <2> QED
    BY <2>3, <2>4, <2>5 DEF TypeInv, Pushes

\* A push hands its value over, or stores it, and notifies a consumer.
<1>PushNotifiesKept.
     ASSUME Inv, NEW c \in Coroutine, NEW ch \in Channel, NEW v \in Value, At(c, "user"),
            ~ closed[ch], Take(v), PushNow(c, ch, v), HasConsumers(ch), UNCHANGED use
     PROVE  Inv'
  <2> USE <1>PushNotifiesKept
  <2>1. /\ pc' = [pc EXCEPT ![c] = "pushed"] /\ op' = [op EXCEPT ![c] = PushArgs(ch, v, FALSE)]
        /\ status' = [status EXCEPT ![v] = "pending"] /\ ResumeConsumer(c, ch)
        /\ closed' = closed /\ received' = received
        /\ IF IsUnbuffered(ch)
           THEN /\ slot' = [slot EXCEPT ![ch] = v] /\ able' = [able EXCEPT ![ch] = TRUE]
                /\ storage' = storage
           ELSE /\ storage' = [storage EXCEPT ![ch] = Append(storage[ch], v)]
                /\ ~ IsFull(ch) /\ able' = able /\ slot' = slot
    BY Zenon DEF PushNow
  <2>2. v = pushes + 1 /\ pushes' = v
    BY DEF Take
  <2>3. Running(chain) = c /\ pc[c] = "user" /\ pc[c] \notin InWait /\ pc[c] \notin Pending
    BY DEF At, InWait, Pending
  <2>4. TypeInv /\ QueueInv /\ Quiet /\ PassQuiet /\ ValueOK({})
    BY <2>3, QuietInv
  <2>5. /\ PushArgs(ch, v, FALSE) \in OpType /\ PushArgs(ch, v, FALSE).channel = ch
        /\ PushArgs(ch, v, FALSE).value = v
    BY PushArgsType, Zenon
  <2>6. /\ pc' \in [Coroutine -> Where] /\ pc'[c] = "pushed"
        /\ op' \in [Coroutine -> OpType] /\ op'[c].channel = ch /\ op'[c].value = v
        /\ \A d \in Coroutine \ {c} : pc'[d] = pc[d] /\ op'[d] = op[d]
    BY <2>1, <2>4, <2>5, ZenonT(30) DEF TypeInv, Where
  <2>7. Steps(c)
    BY <2>3, <2>6, Zenon DEF Steps, InWait
  <2>8. PICK r \in Coroutine : Wakes(r) /\ Resumed(r, consumers[ch], ch, "pop", "POP")'
    BY <2>1, <2>7, <1>ConsumerWoken, Zenon
  <2>9. /\ TimerInv' /\ CloseInv'
        /\ \A d \in Channel : QuietOn(d) /\ able'[d] = able[d] /\ storage'[d] = storage[d]
                              => QuietOn(d)'
    BY <2>1, <2>3, <2>7, <2>8, <1>NotifyFrame, Zenon
  <2>10. /\ HasConsumers(ch)' /\ (HasProducers(ch)' <=> HasProducers(ch)) /\ QueueInv'
    BY <2>8, Zenon DEF Wakes
  <2>11. /\ pushes' \in 0..MaxPush /\ status' \in [Value -> {"none", "pending", "true", "false"}]
         /\ v \in 1..v
    <3>1. v \in 0..MaxPush /\ v \in 1..v
      BY MaxPushAssumption DEF Value
    <3> QED
      BY <2>1, <2>2, <2>4, <3>1, Zenon DEF TypeInv
  <2>12. ~ IsUnbuffered(ch) => IsEmpty(ch) /\ ~ HasProducers(ch)
    BY <2>4 DEF Quiet, QuietOn
  <2>13. PICK s \in Seq(Value) : s = Append(storage[ch], v) /\ (~ IsUnbuffered(ch) => Len(s) = 1)
    <3>1. storage[ch] \in Seq(Value)
      BY <2>4, Zenon DEF TypeInv
    <3>2. Append(storage[ch], v) \in Seq(Value)
          /\ Len(Append(storage[ch], v)) = Len(storage[ch]) + 1
      BY <3>1, AppendRange
    <3>3. ~ IsUnbuffered(ch) => Len(storage[ch]) = 0
      BY <2>12, <3>1, EmptyLength, Zenon DEF IsEmpty
    <3>4. ~ IsUnbuffered(ch) => Len(Append(storage[ch], v)) = 1
      BY <3>2, <3>3
    <3> QED
      BY <3>2, <3>4, ZenonT(30)
  <2>14. /\ storage' \in [Channel -> Seq(Value)] /\ \A d \in Channel \ {ch} : storage'[d] = storage[d]
         /\ ~ IsUnbuffered(ch) => storage'[ch] = s
         /\ IsUnbuffered(ch) => storage' = storage
    BY <2>1, <2>4, <2>13, Zenon DEF TypeInv
  <2>15. \A d \in Channel : Len(storage'[d]) <= capacity[d]
    <3>1. capacity[ch] \in Nat /\ (~ IsUnbuffered(ch) => 1 <= capacity[ch])
      BY CapacityAssumption DEF IsUnbuffered
    <3>2. \A d \in Channel : Len(storage[d]) <= capacity[d]
      BY <2>4, Zenon DEF TypeInv
    <3>3. Len(storage'[ch]) <= capacity[ch]
      <4>1. CASE IsUnbuffered(ch)
        BY <2>14, <3>2, <4>1, Zenon
      <4>2. CASE ~ IsUnbuffered(ch)
        BY <2>13, <2>14, <3>1, <4>2
      <4> QED
        BY <4>1, <4>2, Zenon
    <3> QED
      BY <2>14, <3>2, <3>3
  <2>16. /\ able' \in [Channel -> BOOLEAN] /\ slot' \in [Channel -> Coroutine \cup 0..MaxPush]
         /\ \A d \in Channel \ {ch} : able'[d] = able[d]
         /\ IsUnbuffered(ch) => able'[ch] /\ slot'[ch] = v
         /\ ~ IsUnbuffered(ch) => able'[ch] = able[ch]
    <3>1. v \in 0..MaxPush
      BY MaxPushAssumption DEF Value
    <3> QED
      BY <2>1, <2>4, <3>1, ZenonT(30) DEF TypeInv
  <2>17. received' \in [Channel -> Seq(Value)]
    BY <2>1, <2>4, Zenon DEF TypeInv
  <2>18. TypeInv'
    BY <2>1, <2>6, <2>7, <2>8, <2>11, <2>14, <2>15, <2>16, <2>17, <1>NotifyTypes, Zenon
  <2>19. Pushed(r, ch)'
    <3>1. \A d \in Channel \ {ch} : QuietOn(d)'
      BY <2>4, <2>9, <2>14, <2>16, ZenonT(30) DEF Quiet
    <3>2. ~ IsUnbuffered(ch) => ~ able'[ch] /\ Len(storage'[ch]) = 1 /\ ~ HasProducers(ch)'
      BY <2>4, <2>10, <2>12, <2>13, <2>14, <2>16, Zenon DEF Quiet, QuietOn
    <3>3. IsUnbuffered(ch) => able'[ch] /\ slot'[ch] \in 1..pushes'
      BY <2>2, <2>11, <2>16, Zenon
    <3> QED
      BY <2>8, <2>10, <3>1, <3>2, <3>3, Zenon DEF Pushed, IsUnbuffered
  <2>20. PassInv'
    <3> SUFFICES ASSUME NEW d \in Coroutine, IsUnbuffered(op'[d].channel)
                 PROVE  /\ pc'[d] = "pushed" =>
                             \/ op'[d].value \in Range(received'[op'[d].channel])
                             \/ \E x \in Coroutine : Pushed(x, op[d].channel)'
                                                     /\ slot'[op'[d].channel] = op'[d].value
                        /\ pc'[d] = "popped" => op'[d].value # 0
      BY Zenon DEF PassInv, IsUnbuffered
    <3>1. CASE d = c
      <4>1. Pushed(r, op[d].channel)'
        BY <2>6, <2>19, <3>1, Zenon
      <4> QED
        BY <2>6, <2>16, <3>1, <4>1, Zenon
    <3>2. CASE d # c
      BY <2>1, <2>4, <2>6, <3>2, Zenon DEF PassQuiet
    <3> QED
      BY <3>1, <3>2, ZenonT(30)
  <2>21. ValueInv'
    <3>1. { x \in Value : InSlot(x)' } = IF IsUnbuffered(ch) THEN {v} ELSE {}
      <4>1. SlotForm(r, ch)'
        BY SlotFormsNext, Zenon
      <4>2. \A x : InSlot(x)' <=> IsUnbuffered(ch) /\ x = slot'[ch]
        BY <2>19, <4>1, Zenon DEF SlotForm, IsUnbuffered
      <4> QED
        BY <2>16, <4>2, Zenon
    <3>2. IsUnbuffered(ch) => ValueOK({v})'
      <4>1. IsUnbuffered(ch) => Everywhere' = Everywhere
        BY <2>1, <2>14 DEF Everywhere
      <4> QED
        BY <2>1, <2>2, <2>3, <2>4, <2>6, <4>1, <1>ValuesPushed, ZenonT(30)
    <3>3. ~ IsUnbuffered(ch) => ValueOK({})'
      <4>1. ~ IsUnbuffered(ch) => Everywhere' = Everywhere \cup {v}
        BY <2>1, <2>4, EverywhereStored, Zenon
      <4> QED
        BY <2>1, <2>2, <2>3, <2>4, <2>6, <4>1, <1>ValuesPushed, ZenonT(30)
    <3> QED
      BY <3>1, <3>2, <3>3, ZenonT(30) DEF ValueInv
  <2> QED
    BY <2>9, <2>10, <2>18, <2>19, <2>20, <2>21, ZenonT(30) DEF Inv, ModeInv

\* A pop says where the value goes, or makes room, and notifies a producer.
<1>PopNotifiesKept.
     ASSUME Inv, NEW c \in Coroutine, NEW ch \in Channel, At(c, "user"),
            PopNow(c, ch), HasProducers(ch), UNCHANGED use
     PROVE  Inv'
  <2> USE <1>PopNotifiesKept
  <2>1. /\ pc' = [pc EXCEPT ![c] = "popped"] /\ op' = [op EXCEPT ![c] = PopArgs(ch, FALSE)]
        /\ ResumeProducer(c, ch) /\ closed' = closed /\ pushes' = pushes /\ status' = status
        /\ IF IsUnbuffered(ch)
           THEN /\ slot' = [slot EXCEPT ![ch] = c] /\ able' = [able EXCEPT ![ch] = TRUE]
                /\ storage' = storage /\ received' = received
           ELSE /\ storage[ch] # << >> /\ able' = able /\ slot' = slot
                /\ received' = [received EXCEPT ![ch] = Append(received[ch], Head(storage[ch]))]
                /\ storage' = [storage EXCEPT ![ch] = Tail(storage[ch])]
    BY Zenon DEF PopNow, Deliver, IsEmpty
  <2>2. Running(chain) = c /\ pc[c] = "user" /\ pc[c] \notin InWait
    BY DEF At, InWait
  <2>3. TypeInv /\ QueueInv /\ Quiet /\ PassQuiet /\ ValueOK({})
    BY <2>2, QuietInv
  <2>4. PopArgs(ch, FALSE) \in OpType /\ PopArgs(ch, FALSE).channel = ch
    BY PopArgsType, Zenon
  <2>5. /\ pc' \in [Coroutine -> Where] /\ pc'[c] = "popped"
        /\ op' \in [Coroutine -> OpType] /\ op'[c].channel = ch
        /\ \A d \in Coroutine \ {c} : pc'[d] = pc[d] /\ op'[d] = op[d]
    BY <2>1, <2>3, <2>4, ZenonT(30) DEF TypeInv, Where
  <2>6. Steps(c) /\ pc'[c] \notin Pending
    BY <2>2, <2>5, Zenon DEF Steps, InWait, Pending
  <2>7. PICK r \in Coroutine : Wakes(r) /\ Resumed(r, producers[ch], ch, "push", "PUSH")'
    BY <2>1, <2>6, <1>ProducerWoken
  <2>8. /\ TimerInv' /\ CloseInv'
        /\ \A d \in Channel : QuietOn(d) /\ able'[d] = able[d] /\ storage'[d] = storage[d]
                              => QuietOn(d)'
    BY <2>1, <2>2, <2>6, <2>7, <1>NotifyFrame, Zenon
  <2>9. /\ HasProducers(ch)' /\ (HasConsumers(ch)' <=> HasConsumers(ch)) /\ QueueInv'
    BY <2>7, Zenon DEF Wakes
  <2>10. ~ IsUnbuffered(ch) => ~ HasConsumers(ch) /\ (closed[ch] \/ IsFull(ch))
    BY <2>3, Zenon DEF Quiet, QuietOn
  <2>11. PICK s \in Seq(Value), t \in Seq(Value) : s = storage[ch] /\ t = received[ch]
    BY <2>3 DEF TypeInv
  <2>12. ASSUME ~ IsUnbuffered(ch)
         PROVE  /\ Tail(s) \in Seq(Value) /\ Len(Tail(s)) + 1 = Len(s)
                /\ Len(Tail(s)) \in Nat /\ Len(s) \in Nat
                /\ Append(t, Head(s)) \in Seq(Value)
                /\ Range(t) \subseteq Range(Append(t, Head(s)))
    <3>1. s # << >>
      BY <2>1, <2>11, <2>12, Zenon
    <3>2. /\ Head(s) \in Value /\ Tail(s) \in Seq(Value) /\ Len(Tail(s)) + 1 = Len(s)
          /\ Len(Tail(s)) \in Nat /\ Len(s) \in Nat
      BY <3>1, TailRange
    <3>3. /\ Append(t, Head(s)) \in Seq(Value)
          /\ Range(Append(t, Head(s))) = Range(t) \cup {Head(s)}
      BY <3>2, AppendRange
    <3> QED
      BY <3>2, <3>3, Zenon
  <2>13. /\ storage' \in [Channel -> Seq(Value)]
         /\ \A d \in Channel \ {ch} : storage'[d] = storage[d]
         /\ ~ IsUnbuffered(ch) => storage'[ch] = Tail(s)
         /\ IsUnbuffered(ch) => storage' = storage
    BY <2>1, <2>3, <2>11, <2>12, ZenonT(30) DEF TypeInv
  <2>14. /\ received' \in [Channel -> Seq(Value)]
         /\ \A d \in Channel : Range(received[d]) \subseteq Range(received'[d])
    <3>1. received \in [Channel -> Seq(Value)]
      BY <2>3, Zenon DEF TypeInv
    <3>2. CASE IsUnbuffered(ch)
      BY <2>1, <3>1, <3>2, Zenon
    <3>3. CASE ~ IsUnbuffered(ch)
      <4>1. received' = [received EXCEPT ![ch] = Append(t, Head(s))]
        BY <2>1, <2>11, <3>3, Zenon
      <4>2. Append(t, Head(s)) \in Seq(Value) /\ Range(received[ch]) \subseteq Range(Append(t, Head(s)))
        BY <2>11, <2>12, <3>3, ZenonT(30)
      <4> QED
        BY <3>1, <4>1, <4>2, Zenon
    <3> QED
      BY <3>2, <3>3, Zenon
  <2>15. /\ \A d \in Channel : Len(storage'[d]) <= capacity[d]
         /\ ~ IsUnbuffered(ch) =>
              /\ Len(storage'[ch]) # capacity[ch]
              /\ closed[ch] \/ Len(storage'[ch]) + 1 = capacity[ch]
    <3>1. capacity[ch] \in Nat /\ \A d \in Channel : Len(storage[d]) <= capacity[d]
      BY <2>3, CapacityAssumption, Zenon DEF TypeInv
    <3>2. ASSUME ~ IsUnbuffered(ch)
          PROVE  /\ Len(storage'[ch]) <= capacity[ch] /\ Len(storage'[ch]) # capacity[ch]
                 /\ IsFull(ch) => Len(storage'[ch]) + 1 = capacity[ch]
      <4>1. Len(s) <= capacity[ch] /\ (IsFull(ch) => Len(s) = capacity[ch])
        BY <2>11, <3>1, Zenon DEF IsFull
      <4>2. Len(storage'[ch]) = Len(Tail(s))
        BY <2>13, <3>2, Zenon
      <4> QED
        BY <2>12, <3>1, <3>2, <4>1, <4>2
    <3>3. Len(storage'[ch]) <= capacity[ch]
      BY <2>13, <3>1, <3>2
    <3> QED
      BY <2>10, <2>13, <3>1, <3>2, <3>3, Zenon
  <2>16. /\ able' \in [Channel -> BOOLEAN] /\ slot' \in [Channel -> Coroutine \cup 0..MaxPush]
         /\ \A d \in Channel \ {ch} : able'[d] = able[d]
         /\ IsUnbuffered(ch) => able'[ch] /\ slot'[ch] = c
         /\ ~ IsUnbuffered(ch) => able'[ch] = able[ch]
    BY <2>1, <2>3, ZenonT(30) DEF TypeInv
  <2>17. TypeInv'
    <3>1. pushes' \in 0..MaxPush /\ status' \in [Value -> {"none", "pending", "true", "false"}]
      BY <2>1, <2>3, Zenon DEF TypeInv
    <3> QED
      BY <2>1, <2>5, <2>6, <2>7, <2>13, <2>14, <2>15, <2>16, <3>1, <1>NotifyTypes, Zenon
  <2>18. Popped(r, ch)'
    <3>1. \A d \in Channel \ {ch} : QuietOn(d)'
      BY <2>3, <2>8, <2>13, <2>16, Zenon DEF Quiet
    <3>2. ~ IsUnbuffered(ch) =>
            /\ ~ able'[ch] /\ ~ IsFull(ch)' /\ ~ HasConsumers(ch)'
            /\ closed'[ch] \/ Len(storage'[ch]) + 1 = capacity[ch]
      BY <2>1, <2>3, <2>9, <2>10, <2>15, <2>16, Zenon DEF Quiet, QuietOn, IsFull
    <3>3. IsUnbuffered(ch) =>
            /\ able'[ch] /\ slot'[ch] \in Coroutine
            /\ pc'[slot'[ch]] = "popped" /\ op'[slot'[ch]].channel = ch
      BY <2>5, <2>16, ZenonT(30)
    <3> QED
      BY <2>7, <2>9, <3>1, <3>2, <3>3, ZenonT(30) DEF Popped, IsUnbuffered
  <2>19. PassInv'
    <3> SUFFICES ASSUME NEW d \in Coroutine, IsUnbuffered(op'[d].channel)
                 PROVE  /\ pc'[d] = "pushed" => op'[d].value \in Range(received'[op'[d].channel])
                        /\ pc'[d] = "popped" =>
                             \/ op'[d].value # 0
                             \/ \E x \in Coroutine : Popped(x, op[d].channel)'
                                                     /\ slot'[op'[d].channel] = d
      BY ZenonT(30) DEF PassInv, IsUnbuffered
    <3>1. CASE d = c
      <4>1. Popped(r, op[d].channel)'
        BY <2>5, <2>18, <3>1, ZenonT(30)
      <4> QED
        BY <2>5, <2>16, <3>1, <4>1, ZenonT(30)
    <3>2. CASE d # c
      <4>1. op'[d] = op[d] /\ pc'[d] = pc[d] /\ op[d].channel \in Channel
        BY <2>3, <2>5, <3>2 DEF TypeInv, OpType
      <4> QED
        BY <2>3, <2>14, <4>1, Zenon DEF PassQuiet
    <3> QED
      BY <3>1, <3>2, ZenonT(30)
  <2>20. ValueInv'
    <3>1. { x \in Value : InSlot(x)' } = {}
      <4>1. SlotForm(r, ch)'
        BY SlotFormsNext
      <4>2. \A x : ~ InSlot(x)'
        BY <2>18, <4>1 DEF SlotForm
      <4> QED
        BY <4>2
    <3>2. Everywhere' = Everywhere
      <4>1. CASE IsUnbuffered(ch)
        BY <2>1, <4>1, Zenon DEF Everywhere
      <4>2. CASE ~ IsUnbuffered(ch)
        BY <2>1, <2>3, <4>2, EverywhereMoved, Zenon
      <4> QED
        BY <4>1, <4>2, Zenon
    <3>3. ValueOK({})'
      BY <2>1, <2>3, <2>5, <2>6, <3>2, <1>ValuesSame, ZenonT(30)
    <3> QED
      BY <3>1, <3>3, Zenon DEF ValueInv
  <2> QED
    BY <2>8, <2>9, <2>17, <2>18, <2>19, <2>20, ZenonT(30) DEF Inv, ModeInv

\* close() resumes a waiter: nobody selects, no dummy is marked and nothing is promised.
<1>CloseWakesKept.
     ASSUME CloseApart, Inv, NEW c \in Coroutine, Running(chain) = c,
            pc[c] \in {"close_p", "close_c"}, NEW ch \in Channel, ch = op[c].channel,
            \/ HasProducers(ch) /\ ResumeProducer(c, ch)
            \/ HasConsumers(ch) /\ ResumeConsumer(c, ch),
            UNCHANGED << pc, op, closed, data, pushes, status, use >>
     PROVE  Inv'
  <2> USE <1>CloseWakesKept
  <2>1. pc[c] \notin InWait
    BY Zenon DEF InWait
  <2>2. TypeInv /\ QueueInv /\ Quiet /\ PassQuiet /\ ValueOK({})
    BY <2>1, QuietInv, Zenon
  <2>3. Steps(c)
    BY <2>1, <2>2, ZenonT(30) DEF Steps, TypeInv
  <2>4. PICK r \in Coroutine : /\ Wakes(r)
                               /\ \/ Resumed(r, producers[ch], ch, "push", "PUSH")'
                                  \/ Resumed(r, consumers[ch], ch, "pop", "POP")'
    BY <2>3, <1>ProducerWoken, <1>ConsumerWoken, ZenonT(30)
  <2>5. "select" \notin use
    <3>1. closed[ch]
      BY <2>2, ZenonT(30) DEF TypeInv
    <3> QED
      BY <2>2, <3>1, SelectOpen, ZenonT(30)
  <2>6. NoneFired'
    <3>1. pc'[r] # "select"
      BY <2>2, <2>5, ZenonT(30) DEF TypeInv
    <3> QED
      BY <2>4, <3>1, Zenon DEF Resumed
  <2>7. /\ TimerInv' /\ CloseInv'
        /\ \A d \in Channel : QuietOn(d) /\ able'[d] = able[d] /\ storage'[d] = storage[d]
                              => QuietOn(d)'
    BY <2>3, <2>4, <1>NotifyFrame, Zenon
  <2>8. Quiet'
    <3>1. \A d \in Channel : QuietOn(d)'
      BY <2>2, <2>7 DEF Quiet, data
    <3> QED
      BY <2>6, <3>1, Zenon DEF Quiet
  <2>9. TypeInv'
    <3>1. RunChain(chain') /\ producers' \in [Channel -> Seq(WaiterType)]
          /\ consumers' \in [Channel -> Seq(WaiterType)]
      BY <2>4, Zenon DEF Wakes
    <3> QED
      BY <2>2, <3>1, ZenonT(30) DEF TypeInv, data
  <2>10. PassQuiet' /\ ValueOK({})'
    <3>1. Everywhere' = Everywhere
      BY Zenon DEF Everywhere, data
    <3> QED
      BY <2>2, <3>1, Zenon DEF PassQuiet, ValueOK, data
  <2>11. QueueInv'
    BY <2>4, Zenon DEF Wakes
  <2> QED
    BY <2>7, <2>8, <2>9, <2>10, <2>11, QuietStep, Zenon

\* close() goes through the producers, then the consumers.
<1>CloseStepsKept.
     ASSUME CloseApart, Inv, NEW c \in Coroutine, UNCHANGED use,
            CloseProducers(c) \/ CloseConsumers(c)
     PROVE  Inv'
  <2> USE <1>CloseStepsKept
  <2>1. PICK ch \in Channel : ch = op[c].channel
    BY Zenon DEF Inv, TypeInv, OpType
  <2>2. CASE CloseProducers(c)
    <3>1. CASE HasProducers(ch)
      <4>1. /\ Running(chain) = c /\ pc[c] \in {"close_p", "close_c"} /\ ResumeProducer(c, ch)
            /\ UNCHANGED << pc, op, closed, data, pushes, status, use >>
        BY <2>1, <2>2, <3>1, Zenon DEF CloseProducers, At
      <4> QED
        BY <2>1, <3>1, <4>1, <1>CloseWakesKept, ZenonT(30)
    <3>2. CASE ~ HasProducers(ch)
      BY <2>1, <2>2, <3>2, QuietStepsKept, Zenon
    <3> QED
      BY <3>1, <3>2
  <2>3. CASE CloseConsumers(c)
    <3>1. /\ Running(chain) = c /\ pc[c] \in {"close_p", "close_c"}
          /\ HasConsumers(ch) /\ ResumeConsumer(c, ch)
          /\ UNCHANGED << pc, op, closed, data, pushes, status, use >>
      BY <2>1, <2>3, Zenon DEF CloseConsumers, At
    <3> QED
      BY <2>1, <3>1, <1>CloseWakesKept, ZenonT(30)
  <2> QED
    BY <2>2, <2>3

\* push(), when it does not wait.
<1>PushNowKept.
     ASSUME Inv, NEW c \in Coroutine, NEW ch \in Channel, NEW v \in Value, At(c, "user"),
            ~ closed[ch], Take(v), PushNow(c, ch, v), UNCHANGED use
     PROVE  Inv'
  BY <1>PushNowKept, QuietStepsKept, <1>PushNotifiesKept, Zenon

\* pop(), when it does not wait.
<1>PopNowKept.
     ASSUME Inv, NEW c \in Coroutine, NEW ch \in Channel, At(c, "user"), PopNow(c, ch),
            UNCHANGED use
     PROVE  Inv'
  BY <1>PopNowKept, QuietStepsKept, <1>PopNotifiesKept, Zenon

<1> QED
  BY <1>CloseStepsKept, <1>PushNowKept, <1>PopNowKept

-----------------------------------------------------------------------------
\* What a coroutine that was woken finds.

\* Somebody is in the queue of ch when the coroutine waits there.
LEMMA WaiterQueued ==
  ASSUME TypeInv, QueueInv, NEW c \in Coroutine, NEW ch \in Channel, op[c].channel = ch
  PROVE  /\ pc[c] = "push" => HasProducers(ch)
         /\ pc[c] = "pop" => HasConsumers(ch)
<1>1. /\ pc[c] = "push" => HasNode(producers[ch], c, 0)
      /\ pc[c] = "pop" => HasNode(consumers[ch], c, 0)
  BY Zenon DEF QueueInv, QueueOK
<1> QED
  BY <1>1 DEF HasNode, HasProducers, HasConsumers

\* A coroutine runs while the channels are quiet, or because it has been notified.
LEMMA WokenMode ==
  ASSUME Inv, NEW c \in Coroutine, Running(chain) = c
  PROVE  Quiet \/ (c \notin timedout /\ \E ch \in Channel : Pushed(c, ch) \/ Popped(c, ch))
<1> SUFFICES ASSUME ~ Quiet
             PROVE  c \notin timedout /\ \E ch \in Channel : Pushed(c, ch) \/ Popped(c, ch)
  OBVIOUS
<1>1. PICK r \in Coroutine, ch \in Channel : Pushed(r, ch) \/ Popped(r, ch)
  BY DEF Inv, ModeInv
<1>2. r = c /\ c \notin timedout
  BY <1>1, Zenon DEF Pushed, Popped, Resumed
<1> QED
  BY <1>1, <1>2

\* The nodes that c has in the queues of a channel.
LEMMA OwnNodes ==
  ASSUME TypeInv, QueueInv, NEW c \in Coroutine, NEW d \in Channel
  PROVE  /\ Distinct(producers[d]) /\ Distinct(consumers[d])
         /\ \A i \in DOMAIN producers[d] :
              /\ ~ producers[d][i].freed
              /\ producers[d][i].owner = c =>
                   \/ pc[c] = "push" /\ op[c].channel = d /\ producers[d][i].index = 0
                   \/ pc[c] = "select" /\ producers[d][i].index \in DOMAIN op[c].requests
         /\ \A i \in DOMAIN consumers[d] :
              /\ ~ consumers[d][i].freed
              /\ consumers[d][i].owner = c =>
                   \/ pc[c] = "pop" /\ op[c].channel = d /\ consumers[d][i].index = 0
                   \/ pc[c] = "select" /\ consumers[d][i].index \in DOMAIN op[c].requests
<1>1. /\ QueueOK(producers[d], d, "push", "PUSH", pc, op, Running(chain))
      /\ QueueOK(consumers[d], d, "pop", "POP", pc, op, Running(chain))
  BY Zenon DEF QueueInv
<1> QED
  BY <1>1, Zenon DEF QueueOK, Accounted

\* The requests of c whose dummy has been resumed.
LEMMA FiredIn ==
  ASSUME TypeInv, QueueInv, NEW c \in Coroutine, NEW i
  PROVE  i \in Fired(c) <=>
           \E d \in Channel :
             \/ \E k \in DOMAIN producers[d] : /\ producers[d][k].fired
                                               /\ producers[d][k].owner = c
                                               /\ producers[d][k].index = i
             \/ \E k \in DOMAIN consumers[d] : /\ consumers[d][k].fired
                                               /\ consumers[d][k].owner = c
                                               /\ consumers[d][k].index = i
<1>1. ASSUME NEW d \in Channel
      PROVE  /\ \A k \in DOMAIN producers[d] : ~ producers[d][k].freed
             /\ \A k \in DOMAIN consumers[d] : ~ consumers[d][k].freed
  BY OwnNodes, Zenon
<1>2. ASSUME i \in Fired(c)
      PROVE  \E d \in Channel :
             \/ \E k \in DOMAIN producers[d] : /\ producers[d][k].fired
                                               /\ producers[d][k].owner = c
                                               /\ producers[d][k].index = i
             \/ \E k \in DOMAIN consumers[d] : /\ consumers[d][k].fired
                                               /\ consumers[d][k].owner = c
                                               /\ consumers[d][k].index = i
  <2>1. PICK e : /\ e \in UNION { Range(producers[d]) \cup Range(consumers[d]) : d \in Channel }
                 /\ Owns(c, e) /\ e.fired /\ e.index = i
    BY <1>2, Zenon DEF Fired
  <2>2. PICK d \in Channel : e \in Range(producers[d]) \/ e \in Range(consumers[d])
    BY <2>1
  <2>3. e.owner = c
    BY <2>1 DEF Owns
  <2> QED
    BY <2>1, <2>2, <2>3, Zenon DEF Range
<1>3. ASSUME NEW d \in Channel, NEW e, e \in Range(producers[d]) \/ e \in Range(consumers[d]),
             e.owner = c, ~ e.freed, e.fired, e.index = i
      PROVE  i \in Fired(c)
  <2>1. e \in UNION { Range(producers[b]) \cup Range(consumers[b]) : b \in Channel }
    BY <1>3
  <2>2. Owns(c, e)
    BY <1>3 DEF Owns
  <2> QED
    BY <1>3, <2>1, <2>2, Zenon DEF Fired
<1>4. ASSUME NEW d \in Channel, NEW k \in DOMAIN producers[d], producers[d][k].fired,
             producers[d][k].owner = c, producers[d][k].index = i
      PROVE  i \in Fired(c)
  <2>1. producers[d][k] \in Range(producers[d])
    BY Zenon DEF Range
  <2> QED
    BY <1>1, <1>3, <1>4, <2>1, Zenon
<1>5. ASSUME NEW d \in Channel, NEW k \in DOMAIN consumers[d], consumers[d][k].fired,
             consumers[d][k].owner = c, consumers[d][k].index = i
      PROVE  i \in Fired(c)
  <2>1. consumers[d][k] \in Range(consumers[d])
    BY Zenon DEF Range
  <2> QED
    BY <1>1, <1>3, <1>5, <2>1, Zenon
<1> QED
  BY <1>2, <1>4, <1>5, Zenon

\* The dummy of one request has been resumed, that of the request that was notified.
LEMMA FiredOne ==
  ASSUME Inv, NEW c \in Coroutine, NEW i, NEW ch \in Channel,
         OnlyFired(producers[ch], c, i) \/ OnlyFired(consumers[ch], c, i)
  PROVE  Fired(c) = {i}
<1>1. TypeInv /\ QueueInv
  BY DEF Inv
<1>2. \A d \in Channel : OnlyIndex(producers[d], i) /\ OnlyIndex(consumers[d], i)
  BY Zenon DEF OnlyFired
<1>3. ASSUME NEW j \in Fired(c) PROVE j = i
  BY <1>1, <1>2, FiredIn DEF OnlyIndex
<1>4. i \in Fired(c)
  <2>1. CASE OnlyFired(producers[ch], c, i)
    <3>1. PICK k \in DOMAIN producers[ch] : /\ producers[ch][k].fired
                                            /\ producers[ch][k].owner = c
                                            /\ producers[ch][k].index = i
      BY <2>1, Zenon DEF OnlyFired
    <3> QED
      BY <1>1, <3>1, FiredIn, Zenon
  <2>2. CASE OnlyFired(consumers[ch], c, i)
    <3>1. PICK k \in DOMAIN consumers[ch] : /\ consumers[ch][k].fired
                                            /\ consumers[ch][k].owner = c
                                            /\ consumers[ch][k].index = i
      BY <2>2, Zenon DEF OnlyFired
    <3> QED
      BY <1>1, <3>1, FiredIn, Zenon
  <2> QED
    BY <2>1, <2>2, Zenon
<1> QED
  BY <1>3, <1>4

\* What a select() that is woken finds.
LEMMA FiredIs ==
  ASSUME Inv, NEW c \in Coroutine, Running(chain) = c, pc[c] = "select"
  PROVE  \/ Quiet /\ Fired(c) = {}
         \/ \E ch \in Channel : \E i \in DOMAIN op[c].requests :
              /\ Fired(c) = {i}
              /\ \/ op[c].requests[i] = [channel |-> ch, opcode |-> "POP"] /\ Pushed(c, ch)
                 \/ op[c].requests[i] = [channel |-> ch, opcode |-> "PUSH"] /\ Popped(c, ch)
<1>1. TypeInv /\ QueueInv
  BY Zenon DEF Inv
<1>2. CASE Quiet
  <2>1. \A d \in Channel : AllIdle(producers[d]) /\ AllIdle(consumers[d])
    BY <1>2, Zenon DEF Quiet, NoneFired
  <2>2. ASSUME NEW i \in Fired(c) PROVE FALSE
    BY <1>1, <2>1, FiredIn DEF AllIdle
  <2> QED
    BY <1>2, <2>2
<1>3. CASE \E ch \in Channel : Pushed(c, ch)
  <2>1. PICK ch \in Channel : Pushed(c, ch)
    BY <1>3
  <2>2. PICK i \in DOMAIN op[c].requests : /\ op[c].requests[i] = [channel |-> ch, opcode |-> "POP"]
                                           /\ OnlyFired(consumers[ch], c, i)
    BY <2>1, Zenon DEF Pushed, Resumed
  <2>3. Fired(c) = {i}
    BY <2>2, FiredOne, Zenon
  <2> QED
    BY <2>1, <2>2, <2>3, Zenon
<1>4. CASE \E ch \in Channel : Popped(c, ch)
  <2>1. PICK ch \in Channel : Popped(c, ch)
    BY <1>4
  <2>2. PICK i \in DOMAIN op[c].requests : /\ op[c].requests[i] = [channel |-> ch, opcode |-> "PUSH"]
                                           /\ OnlyFired(producers[ch], c, i)
    BY <2>1, Zenon DEF Popped, Resumed
  <2>3. Fired(c) = {i}
    BY <2>2, FiredOne, Zenon
  <2> QED
    BY <2>1, <2>2, <2>3, Zenon
<1> QED
  BY <1>2, <1>3, <1>4, WokenMode, Zenon

-----------------------------------------------------------------------------
\* The steps of the queue of values.

FifoStep(ch) == [Fifo(ch)!FifoNext]_<< storage[ch], received[ch] >>

FifoSteps == \A ch \in Channel : FifoStep(ch)

\* Every step is one of the FIFO of each channel.
LEMMA FifoKept ==
  ASSUME Inv, [Next]_vars
  PROVE  FifoSteps
\* What a channel has seen is among the values stored or delivered.
<1>FifoSeen.
     ASSUME NEW ch \in Channel, NEW v, v \notin Everywhere
     PROVE  v \notin Fifo(ch)!Seen
  BY <1>FifoSeen, Zenon DEF Everywhere, Range, Fifo!Seen

\* A step that touches no data.
<1>FifoSame.
     ASSUME storage' = storage, received' = received
     PROVE  FifoSteps
  BY <1>FifoSame DEF FifoSteps, FifoStep

\* A value that was nowhere is stored.
<1>FifoPuts.
     ASSUME TypeInv, NEW ch \in Channel, NEW v \in Value, v \notin Everywhere, ~ IsFull(ch),
            storage' = [storage EXCEPT ![ch] = Append(storage[ch], v)], received' = received
     PROVE  FifoSteps
  <2> USE <1>FifoPuts
  <2>1. /\ storage \in [Channel -> Seq(Value)] /\ Len(storage[ch]) <= capacity[ch]
        /\ capacity[ch] \in Nat /\ storage[ch] \in Seq(Value)
    BY CapacityAssumption, Zenon DEF TypeInv
  <2>2. Len(storage[ch]) < capacity[ch]
    BY <2>1 DEF IsFull
  <2>3. storage'[ch] = Append(storage[ch], v) /\ \A d \in Channel \ {ch} : storage'[d] = storage[d]
    BY <2>1, Zenon
  <2>4. Fifo(ch)!Put(v)
    BY <2>2, <2>3, <1>FifoSeen DEF Fifo!Put
  <2> QED
    BY <2>3, <2>4 DEF FifoSteps, FifoStep, Fifo!FifoNext

\* The oldest value is delivered.
<1>FifoGets.
     ASSUME TypeInv, NEW ch \in Channel, ~ IsEmpty(ch), Deliver(ch, Head(storage[ch])),
            storage' = [storage EXCEPT ![ch] = Tail(storage[ch])]
     PROVE  FifoSteps
  <2> USE <1>FifoGets
  <2>1. storage \in [Channel -> Seq(Value)] /\ received \in [Channel -> Seq(Value)]
    BY Zenon DEF TypeInv
  <2>2. /\ storage'[ch] = Tail(storage[ch]) /\ \A d \in Channel \ {ch} : storage'[d] = storage[d]
        /\ received'[ch] = Append(received[ch], Head(storage[ch]))
        /\ \A d \in Channel \ {ch} : received'[d] = received[d]
    BY <2>1 DEF Deliver
  <2>3. Fifo(ch)!Get
    BY <2>2, Zenon DEF IsEmpty, Fifo!Get
  <2> QED
    BY <2>2, <2>3, Zenon DEF FifoSteps, FifoStep, Fifo!FifoNext

\* A value that was nowhere is handed over.
<1>FifoHands.
     ASSUME TypeInv, NEW ch \in Channel, NEW v \in Value, v \notin Everywhere, IsUnbuffered(ch),
            Deliver(ch, v), storage' = storage
     PROVE  FifoSteps
  <2> USE <1>FifoHands
  <2>1. received \in [Channel -> Seq(Value)]
    BY Zenon DEF TypeInv
  <2>2. /\ received'[ch] = Append(received[ch], v)
        /\ \A d \in Channel \ {ch} : received'[d] = received[d]
    BY <2>1 DEF Deliver
  <2>3. Fifo(ch)!HandOver(v)
    BY <2>2, <1>FifoSeen, Zenon DEF IsUnbuffered, Fifo!HandOver
  <2> QED
    BY <2>2, <2>3 DEF FifoSteps, FifoStep, Fifo!FifoNext

\* The storage is emptied.
<1>FifoDrops.
     ASSUME TypeInv, NEW ch \in Channel, Drain(ch)
     PROVE  FifoSteps
  <2> USE <1>FifoDrops
  <2>1. storage \in [Channel -> Seq(Value)]
    BY Zenon DEF TypeInv
  <2>2. /\ storage'[ch] = << >> /\ \A d \in Channel \ {ch} : storage'[d] = storage[d]
        /\ received' = received
    BY <2>1, Zenon DEF Drain
  <2>3. Fifo(ch)!Drop
    BY <2>2 DEF Fifo!Drop
  <2> QED
    BY <2>2, <2>3 DEF FifoSteps, FifoStep, Fifo!FifoNext

\* push(), when it does not wait.
<1>FifoPushNow.
     ASSUME Inv, NEW c, NEW ch \in Channel, NEW v \in Value, Take(v), PushNow(c, ch, v)
     PROVE  FifoSteps
  <2> USE <1>FifoPushNow
  <2>1. TypeInv /\ pushes \in 0..MaxPush /\ v = pushes + 1
    BY Zenon DEF Inv, TypeInv, Take
  <2>2. v > pushes
    BY <2>1, MaxPushAssumption
  <2>3. v \notin Everywhere
    BY <2>2, Zenon DEF Inv, ValueInv, ValueOK
  <2>4. CASE IsUnbuffered(ch)
    BY <2>4, <1>FifoSame DEF PushNow
  <2>5. CASE ~ IsUnbuffered(ch)
    <3>1. /\ ~ IsFull(ch) /\ storage' = [storage EXCEPT ![ch] = Append(storage[ch], v)]
          /\ received' = received
      BY <2>5 DEF PushNow
    <3> QED
      BY <2>1, <2>3, <3>1, <1>FifoPuts, ZenonT(30)
  <2> QED
    BY <2>4, <2>5

\* pop(), when it does not wait.
<1>FifoPopNow.
     ASSUME TypeInv, NEW c, NEW ch \in Channel, PopNow(c, ch)
     PROVE  FifoSteps
  <2> USE <1>FifoPopNow
  <2>1. CASE IsUnbuffered(ch)
    BY <2>1, <1>FifoSame DEF PopNow
  <2>2. CASE ~ IsUnbuffered(ch)
    <3>1. /\ ~ IsEmpty(ch) /\ Deliver(ch, Head(storage[ch]))
          /\ storage' = [storage EXCEPT ![ch] = Tail(storage[ch])]
      BY <2>2, Zenon DEF PopNow
    <3> QED
      BY <3>1, <1>FifoGets, Zenon
  <2> QED
    BY <2>1, <2>2, Zenon

\* push_data() of a producer that has been woken.
<1>FifoPushData.
     ASSUME Inv, NEW c \in Coroutine, pc[c] \in {"push", "select"}, op[c].value # 0,
            NEW ch \in Channel, ~ IsUnbuffered(ch) => ~ IsFull(ch), PushData(c, ch, op[c].value)
     PROVE  FifoSteps
  <2> USE <1>FifoPushData
  <2>1. TypeInv /\ op[c].value \in 0..MaxPush
    BY Zenon DEF Inv, TypeInv, OpType
  <2>2. op[c].value \in Value
    BY <2>1, MaxPushAssumption DEF Value
  <2>3. op[c].value \notin Everywhere
    BY Zenon DEF Inv, ValueInv, ValueOK
  <2>4. CASE IsUnbuffered(ch)
    <3>1. Deliver(ch, op[c].value) /\ storage' = storage
      BY <2>4, Zenon DEF PushData
    <3> QED
      BY <2>1, <2>2, <2>3, <2>4, <3>1, <1>FifoHands, Zenon
  <2>5. CASE ~ IsUnbuffered(ch)
    <3>1. /\ storage' = [storage EXCEPT ![ch] = Append(storage[ch], op[c].value)]
          /\ received' = received
      BY <2>5 DEF PushData
    <3> QED
      BY <2>1, <2>2, <2>3, <2>5, <3>1, <1>FifoPuts, Zenon
  <2> QED
    BY <2>4, <2>5

\* pop_data() of a consumer that has been woken.
<1>FifoPopData.
     ASSUME Inv, NEW c \in Coroutine, NEW ch \in Channel, Pushed(c, ch), PopData(c, ch)
     PROVE  FifoSteps
  <2> USE <1>FifoPopData
  <2>1. TypeInv /\ pushes \in 0..MaxPush /\ storage[ch] \in Seq(Value)
    BY Zenon DEF Inv, TypeInv
  <2>2. CASE IsUnbuffered(ch)
    <3>1. Deliver(ch, slot[ch]) /\ storage' = storage
      BY <2>2 DEF PopData
    <3>2. slot[ch] \in 1..pushes
      BY <2>2, ZenonT(30) DEF Pushed
    <3>3. slot[ch] \in Value
      BY <2>1, <3>2, MaxPushAssumption DEF Value
    <3>4. InSlot(slot[ch])
      BY <2>2, Zenon DEF InSlot
    <3>5. slot[ch] \notin Everywhere
      BY <3>3, <3>4, Zenon DEF Inv, ValueInv, ValueOK
    <3> QED
      BY <2>1, <2>2, <3>1, <3>3, <3>5, <1>FifoHands, Zenon
  <2>3. CASE ~ IsUnbuffered(ch)
    <3>1. Deliver(ch, Head(storage[ch])) /\ storage' = [storage EXCEPT ![ch] = Tail(storage[ch])]
      BY <2>3, Zenon DEF PopData
    <3>2. Len(storage[ch]) = 1
      BY <2>3 DEF Pushed
    <3>3. Len(storage[ch]) # 0
      BY <3>2
    <3>4. ~ IsEmpty(ch)
      BY <2>1, <3>3, EmptyLength DEF IsEmpty
    <3> QED
      BY <2>1, <3>1, <3>4, <1>FifoGets, Zenon
  <2> QED
    BY <2>2, <2>3

\* A pop that was woken.
<1>FifoPopWoken.
     ASSUME Inv, NEW c \in Coroutine, PopWoken(c)
     PROVE  FifoSteps
  <2> USE <1>FifoPopWoken
  <2>1. TypeInv /\ QueueInv /\ Running(chain) = c /\ pc[c] = "pop"
    BY Zenon DEF Inv, PopWoken, At
  <2>2. PICK ch \in Channel : ch = op[c].channel
    BY <2>1 DEF TypeInv, OpType
  <2>3. \/ UNCHANGED data
        \/ (IF IsUnbuffered(ch) THEN able[ch] ELSE ~ IsEmpty(ch)) /\ PopData(c, ch)
    BY <2>2, Zenon DEF PopWoken
  <2>4. HasConsumers(ch)
    BY <2>1, <2>2, WaiterQueued, Zenon
  <2>5. ASSUME NEW d \in Channel PROVE ~ Popped(c, d) /\ (Pushed(c, d) => d = ch)
    BY <2>1, <2>2, Zenon DEF Pushed, Popped, Resumed
  <2>6. Quiet \/ Pushed(c, ch)
    BY <2>1, <2>5, WokenMode, Zenon
  <2>7. CASE (IF IsUnbuffered(ch) THEN able[ch] ELSE ~ IsEmpty(ch)) /\ PopData(c, ch)
    <3>1. Pushed(c, ch)
      BY <2>4, <2>6, <2>7 DEF Quiet, QuietOn
    <3> QED
      BY <2>7, <3>1, <1>FifoPopData, Zenon
  <2>8. CASE UNCHANGED data
    BY <2>8, <1>FifoSame DEF data
  <2> QED
    BY <2>3, <2>7, <2>8

\* A push that was woken.
<1>FifoPushWoken.
     ASSUME Inv, NEW c \in Coroutine, PushWoken(c)
     PROVE  FifoSteps
  <2> USE <1>FifoPushWoken
  <2>1. TypeInv /\ pc[c] = "push"
    BY Zenon DEF Inv, PushWoken, At
  <2>2. PICK ch \in Channel : ch = op[c].channel
    BY <2>1 DEF TypeInv, OpType
  <2>3. \/ UNCHANGED data
        \/ /\ IF IsUnbuffered(ch) THEN able[ch] ELSE ~ IsFull(ch)
           /\ PushData(c, ch, op[c].value)
    BY <2>2, ZenonT(30) DEF PushWoken
  <2>4. op[c].value # 0
    BY <2>1, Zenon DEF Inv, ValueInv, ValueOK
  <2>5. CASE /\ IF IsUnbuffered(ch) THEN able[ch] ELSE ~ IsFull(ch)
             /\ PushData(c, ch, op[c].value)
    BY <2>1, <2>4, <2>5, <1>FifoPushData, Zenon
  <2>6. CASE UNCHANGED data
    BY <2>6, <1>FifoSame DEF data
  <2> QED
    BY <2>3, <2>5, <2>6

\* A select() that was woken.
<1>FifoSelectWoken.
     ASSUME Inv, NEW c \in Coroutine, SelectWoken(c)
     PROVE  FifoSteps
  <2> USE <1>FifoSelectWoken
  <2>1. TypeInv /\ Running(chain) = c /\ pc[c] = "select"
    BY Zenon DEF Inv, SelectWoken, At
  <2>2. CASE UNCHANGED data
    BY <2>2, <1>FifoSame, Zenon DEF data
  <2>3. ASSUME NEW i \in Fired(c),
               \/ /\ op[c].requests[i].opcode = "PUSH"
                  /\ PushData(c, op[c].requests[i].channel, op[c].value)
               \/ /\ op[c].requests[i].opcode = "POP"
                  /\ PopData(c, op[c].requests[i].channel)
        PROVE  FifoSteps
    <3>1. PICK r : r = op[c].requests[i]
      OBVIOUS
    <3>2. PICK ch \in Channel : /\ i \in DOMAIN op[c].requests
                                /\ \/ r = [channel |-> ch, opcode |-> "POP"] /\ Pushed(c, ch)
                                   \/ r = [channel |-> ch, opcode |-> "PUSH"] /\ Popped(c, ch)
      BY <2>1, <2>3, <3>1, FiredIs, Zenon
    <3>3. CASE r = [channel |-> ch, opcode |-> "POP"] /\ Pushed(c, ch)
      <4>1. r.opcode = "POP" /\ r.channel = ch
        BY <3>3, Zenon
      <4>2. PopData(c, ch)
        BY <2>3, <3>1, <4>1, Zenon
      <4> QED
        BY <3>3, <4>2, <1>FifoPopData, Zenon
    <3>4. CASE r = [channel |-> ch, opcode |-> "PUSH"] /\ Popped(c, ch)
      <4>1. r.opcode = "PUSH" /\ r.channel = ch
        BY <3>4, Zenon
      <4>2. PushData(c, ch, op[c].value)
        BY <2>3, <3>1, <4>1
      <4>3. op[c].value # 0
        BY <2>1, <3>1, <3>2, <4>1, Zenon DEF TypeInv, Pushes
      <4>4. ~ IsUnbuffered(ch) => ~ IsFull(ch)
        BY <3>4, Zenon DEF Popped
      <4> QED
        BY <2>1, <4>2, <4>3, <4>4, <1>FifoPushData, Zenon
    <3> QED
      BY <3>2, <3>3, <3>4
  <2>4. \/ UNCHANGED data
        \/ \E i \in Fired(c) :
             \/ /\ op[c].requests[i].opcode = "PUSH"
                /\ PushData(c, op[c].requests[i].channel, op[c].value)
             \/ /\ op[c].requests[i].opcode = "POP"
                /\ PopData(c, op[c].requests[i].channel)
    BY Zenon DEF SelectWoken
  <2> QED
    BY <2>2, <2>3, <2>4, Zenon

<1>0. TypeInv
  BY DEF Inv
<1>1. ASSUME UNCHANGED data PROVE FifoSteps
  BY <1>1, <1>FifoSame DEF data
<1>2. CASE UNCHANGED vars
  BY <1>1, <1>2 DEF vars
<1>3. CASE Next
  <2>1. PICK c \in Coroutine :
          \/ \E ch \in Channel : ChannelStep(c, ch)
          \/ \E requests \in Selects : SelectStep(c, requests)
          \/ Continue(c)
          \/ Sleep(c) \/ (\E target \in Coroutine : Resume(c, target)) \/ Wakeup(c) \/ Timeout(c)
    BY <1>3, Zenon DEF Next
  <2>2. ASSUME NEW ch \in Channel, ChannelStep(c, ch) PROVE FifoSteps
    <3>1. CASE Push(c, ch) \/ Pop(c, ch)
      BY <1>0, <3>1, <1>FifoPushNow, <1>FifoPopNow, Zenon DEF Push, Pop
    <3>2. CASE \E timed \in BOOLEAN : PushWait(c, ch, timed) \/ PopWait(c, ch, timed)
      BY <1>1, <3>2, Zenon DEF PushWait, PopWait
    <3>3. CASE \E cleanup \in BOOLEAN : Close(c, ch, cleanup)
      BY <1>1, <3>3, Zenon DEF Close
    <3>4. CASE Cleanup(c, ch)
      BY <1>0, <3>4, <1>FifoDrops, Zenon DEF Cleanup
    <3> QED
      BY <2>2, <3>1, <3>2, <3>3, <3>4, ZenonT(30) DEF ChannelStep
  <2>3. ASSUME NEW requests \in Selects, SelectStep(c, requests) PROVE FifoSteps
    <3>1. CASE SelectNow(c, requests)
      <4>1. PICK i \in DOMAIN requests :
              \/ \E v \in Value : Take(v) /\ PushNow(c, requests[i].channel, v)
              \/ PopNow(c, requests[i].channel)
        BY <3>1, Zenon DEF SelectNow
      <4>2. requests[i].channel \in Channel
        <5>1. requests[i] \in Request
          BY SelectsAssumption
        <5> QED
          BY <5>1 DEF Request
      <4> QED
        BY <1>0, <4>1, <4>2, <1>FifoPushNow, <1>FifoPopNow, Zenon
    <3>2. CASE \E timed \in BOOLEAN : SelectWait(c, requests, timed)
      BY <1>1, <3>2, Zenon DEF SelectWait
    <3> QED
      BY <2>3, <3>1, <3>2, Zenon DEF SelectStep
  <2>4. CASE Continue(c)
    <3>1. op[c].channel \in Channel
      BY <1>0 DEF TypeInv, OpType
    <3>2. CASE PushReturn(c) \/ PopReturn(c) \/ CloseProducers(c) \/ CloseConsumers(c)
      BY <1>1, <3>2, Zenon DEF PushReturn, PopReturn, CloseProducers, CloseConsumers
    <3>3. CASE CloseReturn(c)
      <4>1. Drain(op[c].channel) \/ UNCHANGED data
        BY <3>3, Zenon DEF CloseReturn
      <4> QED
        BY <1>0, <1>1, <3>1, <4>1, <1>FifoDrops, Zenon
    <3> QED
      BY <2>4, <3>2, <3>3, <1>FifoPushWoken, <1>FifoPopWoken, <1>FifoSelectWoken, ZenonT(30)
         DEF Continue
  <2>5. CASE Sleep(c) \/ (\E target \in Coroutine : Resume(c, target)) \/ Wakeup(c) \/ Timeout(c)
    BY <1>1, <2>5, Zenon DEF Sleep, Resume, Wakeup, Timeout
  <2> QED
    BY <2>1, <2>2, <2>3, <2>4, <2>5, Zenon
<1> QED
  BY <1>2, <1>3, Zenon

=============================================================================
