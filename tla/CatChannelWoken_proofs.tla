----------------------- MODULE CatChannelWoken_proofs -----------------------
(***************************************************************************)
(* Proofs about CatChannel, continued: a push, a pop or a select that was  *)
(* woken goes on, takes its nodes out of the queues and takes, hands over  *)
(* or stores what it was notified of.                                      *)
(***************************************************************************)
EXTENDS CatChannelNotify_proofs

-----------------------------------------------------------------------------
\* A waiter goes on.

\* r is q without the nodes of c.
Rest(r, q, c) ==
  /\ r \in Seq(WaiterType) /\ Distinct(r)
  /\ \A i \in DOMAIN r : r[i].owner # c /\ \E j \in DOMAIN q : r[i] = q[j]
  /\ \A j \in DOMAIN q : q[j].owner # c => \E i \in DOMAIN r : r[i] = q[j]

\* c, which waited and runs, has taken its nodes out of the queues and returns.
Leaves(c) ==
  /\ Running(chain) = c /\ pc[c] \in InWait /\ Return(c)
  /\ op' \in [Coroutine -> OpType]
  /\ Others(c, pc, pc', op, op')
  /\ \A d \in Channel : Rest(producers'[d], producers[d], c) /\ Rest(consumers'[d], consumers[d], c)
  /\ producers' \in [Channel -> Seq(WaiterType)] /\ consumers' \in [Channel -> Seq(WaiterType)]
  /\ closed' = closed /\ pushes' = pushes /\ use' = use

\* c hands its value v over to s, and returns.
Handed(c, s, v) == op' = [op EXCEPT ![s].value = v, ![c] = NoOp]

\* c takes its nodes out of the queues and returns.
Departs(c) ==
  /\ Running(chain) = c /\ Return(c)
  /\ producers' \in [Channel -> Seq(WaiterType)] /\ consumers' \in [Channel -> Seq(WaiterType)]
  /\ \A d \in Channel : Rest(producers'[d], producers[d], c) /\ Rest(consumers'[d], consumers[d], c)
  /\ UNCHANGED << closed, pushes, use >>

\* It was notified of nothing and returns with nothing done.
FailEnds(c) ==
  /\ Departs(c) /\ pc[c] \in InWait /\ Quiet /\ Returned(c) /\ UNCHANGED data
  /\ \/ status' = status /\ pc[c] = "pop"
     \/ Finished(c, "false") /\ pc[c] \in Pending

\* It was told that ch takes a value, or finds room in a channel being closed, and hands over
\* its value.
PushEnds(c, ch) ==
  /\ Departs(c) /\ pc[c] \in {"push", "select"} /\ op[c].value # 0 /\ Finished(c, "true")
  /\ PushData(c, ch, op[c].value)
  /\ \/ Popped(c, ch)
     \/ ~ IsUnbuffered(ch) /\ Quiet /\ closed[ch] /\ HasProducers(ch) /\ ~ IsFull(ch)

\* It was told that ch holds a value and takes it.
PopEnds(c, ch) ==
  /\ Departs(c) /\ PopData(c, ch) /\ Pushed(c, ch)
  /\ \/ status' = status /\ pc[c] = "pop"
     \/ Finished(c, "false") /\ pc[c] = "select"

\* A waiter that leaves its queue with nothing, with its value handed over, or with a value it
\* takes keeps the invariant.
LEMMA DataKept ==
  ASSUME Inv
  PROVE  \A c \in Coroutine :
           /\ FailEnds(c) => Inv'
           /\ \A ch \in Channel : PushEnds(c, ch) \/ PopEnds(c, ch) => Inv'
\* c leaves the queue.
<1>LeaveQueue.
     ASSUME NEW q \in Seq(WaiterType), NEW r, NEW ch, NEW where \in {"push", "pop"}, NEW opcode,
            NEW p, NEW o, NEW p2, NEW o2, NEW run, NEW c \in Coroutine,
            QueueOK(q, ch, where, opcode, p, o, run), Rest(r, q, c),
            Others(c, p, p2, o, o2), p2[c] \notin InWait
     PROVE  QueueOK(r, ch, where, opcode, p2, o2, run)
  <2> USE <1>LeaveQueue
  <2>1. \A i \in DOMAIN q : q[i].owner \in Coroutine
    BY NodeType
  <2>2. ASSUME NEW i \in DOMAIN r
        PROVE  /\ ~ r[i].freed /\ (r[i].fired => r[i].owner = run)
               /\ Accounted(r[i], ch, where, opcode, p2, o2)
    <3>1. PICK j \in DOMAIN q : r[i] = q[j] /\ q[j].owner # c
      BY DEF Rest
    <3>2. q[j].owner \in Coroutine \ {c} /\ Accounted(q[j], ch, where, opcode, p, o)
      BY <2>1, <3>1, Zenon DEF QueueOK
    <3>3. Accounted(q[j], ch, where, opcode, p2, o2)
      BY <3>2 DEF Accounted, Others
    <3> QED
      BY <3>1, <3>3 DEF QueueOK
  <2>3. ASSUME NEW d \in Coroutine \ {c}, NEW k, HasNode(q, d, k) PROVE HasNode(r, d, k)
    BY <2>3 DEF HasNode, Rest
  <2>4. ASSUME NEW d \in Coroutine
        PROVE  /\ p2[d] = where /\ o2[d].channel = ch => HasNode(r, d, 0)
               /\ p2[d] = "select" =>
                    \A k \in DOMAIN o2[d].requests :
                      o2[d].requests[k] = [channel |-> ch, opcode |-> opcode] => HasNode(r, d, k)
    <3>1. CASE d = c
      BY <3>1 DEF InWait
    <3>2. CASE d # c
      BY <2>3, <3>2 DEF QueueOK, Others
    <3> QED
      BY <3>1, <3>2
  <2> QED
    BY <2>2, <2>4 DEF QueueOK, Rest

\* The value of an operation is set.
<1>SetValueType.
     ASSUME NEW o \in OpType, NEW v \in Value
     PROVE  /\ [o EXCEPT !.value = v] \in OpType /\ [o EXCEPT !.value = v].value = v
            /\ [o EXCEPT !.value = v].channel = o.channel
            /\ [o EXCEPT !.value = v].requests = o.requests
  <2> USE <1>SetValueType
  <2>1. v \in 0..MaxPush
    BY MaxPushAssumption DEF Value
  <2> QED
    BY <2>1 DEF OpType

\* What a coroutine that leaves its queues leaves as it was.
<1>LeaveFrame.
     ASSUME Inv, NEW c \in Coroutine, Leaves(c)
     PROVE  /\ TimerInv' /\ QueueInv' /\ CloseInv' /\ NoneFired'
            /\ \A d \in Channel : /\ HasProducers(d)' => HasProducers(d)
                                  /\ HasConsumers(d)' => HasConsumers(d)
  <2> USE <1>LeaveFrame
  <2>1. TypeInv /\ TimerInv /\ QueueInv /\ CloseInv
    BY DEF Inv
  <2>2. pc'[c] = "user" /\ (\A d \in Coroutine \ {c} : pc'[d] = pc[d]) /\ chain' = chain
    BY <2>1 DEF Leaves, Return, TypeInv
  <2>3. TimerInv'
    BY <2>1 DEF TimerInv, Leaves, Return
  <2>4. ASSUME NEW d \in Channel
        PROVE  /\ producers[d] \in Seq(WaiterType) /\ consumers[d] \in Seq(WaiterType)
               /\ QueueOK(producers[d], d, "push", "PUSH", pc, op, Running(chain))
               /\ QueueOK(consumers[d], d, "pop", "POP", pc, op, Running(chain))
               /\ Rest(producers'[d], producers[d], c) /\ Rest(consumers'[d], consumers[d], c)
    BY <2>1, QueueTypes DEF QueueInv, Leaves
  <2>5. QueueInv'
    <3> SUFFICES ASSUME NEW d \in Channel
                 PROVE  /\ QueueOK(producers'[d], d, "push", "PUSH", pc', op', Running(chain))
                        /\ QueueOK(consumers'[d], d, "pop", "POP", pc', op', Running(chain))
      BY <2>2 DEF QueueInv
    <3>1. Others(c, pc, pc', op, op') /\ pc'[c] \notin InWait
      BY <2>2 DEF Leaves, InWait
    <3>2. QueueOK(producers'[d], d, "push", "PUSH", pc', op', Running(chain))
      BY <2>4, <3>1, <1>LeaveQueue, Zenon
    <3>3. QueueOK(consumers'[d], d, "pop", "POP", pc', op', Running(chain))
      BY <2>4, <3>1, <1>LeaveQueue, Zenon
    <3> QED
      BY <3>2, <3>3
  <2>6. ASSUME NEW d \in Channel
        PROVE  /\ HasProducers(d)' => HasProducers(d)
               /\ HasConsumers(d)' => HasConsumers(d)
    <3>1. ASSUME NEW q \in Seq(WaiterType), NEW r \in Seq(WaiterType), Rest(r, q, c), r # << >>
          PROVE  q # << >>
      <4>1. 1 \in DOMAIN r
        BY <3>1
      <4>2. PICK j \in DOMAIN q : r[1] = q[j]
        BY <3>1, <4>1 DEF Rest
      <4> QED
        BY <4>2
    <3>2. producers'[d] \in Seq(WaiterType) /\ consumers'[d] \in Seq(WaiterType)
      BY DEF Leaves
    <3> QED
      BY <2>4, <3>1, <3>2 DEF HasProducers, HasConsumers
  <2>7. NoneFired'
    <3> SUFFICES ASSUME NEW d \in Channel PROVE AllIdle(producers'[d]) /\ AllIdle(consumers'[d])
      BY DEF NoneFired, AllIdle
    <3>1. ASSUME NEW q, NEW r, Rest(r, q, c), \A i \in DOMAIN q : q[i].fired => q[i].owner = c
          PROVE  AllIdle(r)
      BY <3>1 DEF AllIdle, Rest
    <3>2. /\ \A i \in DOMAIN producers[d] : producers[d][i].fired => producers[d][i].owner = c
          /\ \A i \in DOMAIN consumers[d] : consumers[d][i].fired => consumers[d][i].owner = c
      BY <2>4, Zenon DEF QueueOK, Leaves
    <3>3. AllIdle(producers'[d])
      BY <2>4, <3>1, <3>2
    <3>4. AllIdle(consumers'[d])
      BY <2>4, <3>1, <3>2
    <3> QED
      BY <3>3, <3>4
  <2>8. CloseInv'
    <3>1. \A x \in Coroutine : pc[x] \in {"close_p", "close_c"} =>
            pc'[x] = pc[x] /\ op'[x].channel = op[x].channel
      BY <2>2 DEF Leaves, Others, InWait
    <3> SUFFICES ASSUME NEW d \in Channel, closed[d]
                 PROVE  /\ HasProducers(d)' => \E x \in Coroutine :
                             pc'[x] = "close_p" /\ op'[x].channel = d
                        /\ HasConsumers(d)' => \E x \in Coroutine :
                             pc'[x] \in {"close_p", "close_c"} /\ op'[x].channel = d
      BY DEF CloseInv, Leaves
    <3>2. /\ HasProducers(d) => \E x \in Coroutine : pc[x] = "close_p" /\ op[x].channel = d
          /\ HasConsumers(d) => \E x \in Coroutine : pc[x] \in {"close_p", "close_c"}
                                                      /\ op[x].channel = d
      BY <2>1 DEF CloseInv
    <3> QED
      BY <2>6, <3>1, <3>2
  <2> QED
    BY <2>3, <2>5, <2>6, <2>7, <2>8

\* The value v of the operation of c, which ends: it has been stored or delivered, or
\* not.  The values W that were on their way have been delivered.
<1>ValuesEnd.
     ASSUME TypeInv, NEW W, ValueOK(W), NEW c \in Coroutine, Leaves(c),
            \A d \in Coroutine \ {c} : pc[d] \in Pending => op'[d].value = op[d].value,
            NEW D, Everywhere' = (Everywhere \cup W) \cup D,
            \/ D = {} /\ status' = status /\ pc[c] = "pop"
            \/ D = {} /\ Finished(c, "false") /\ pc[c] \in Pending
            \/ D = {op[c].value} /\ op[c].value # 0 /\ Finished(c, "true") /\ pc[c] \in Pending
     PROVE  ValueOK({})' /\ status' \in [Value -> {"none", "pending", "true", "false"}]
  <2> USE <1>ValuesEnd
  <2>1. PICK v \in 0..MaxPush : v = op[c].value
    BY DEF TypeInv, OpType
  <2>2. /\ pc'[c] = "user" /\ (\A d \in Coroutine \ {c} : pc'[d] = pc[d])
        /\ closed' = closed /\ pushes' = pushes /\ pushes \in Nat
        /\ status \in [Value -> {"none", "pending", "true", "false"}]
    BY MaxPushAssumption DEF TypeInv, Leaves, Return
  <2>3. v # 0 => v \in Value
    BY <2>1, MaxPushAssumption DEF Value
  <2>4. ASSUME pc[c] \in Pending, v # 0
        PROVE  /\ v <= pushes /\ status[v] = "pending"
               /\ (pc[c] # "pushed" => v \notin Everywhere /\ v \notin W)
               /\ \A d \in Coroutine \ {c} : pc[d] \in Pending => op[d].value # v
    BY <2>1, <2>4, Zenon DEF ValueOK, Pending
  <2>5. pc[c] # "pushed" /\ (pc[c] = "pop" => pc[c] \notin Pending)
    BY DEF Leaves, InWait, Pending
  <2>6. /\ status' \in [Value -> {"none", "pending", "true", "false"}]
        /\ \A x \in Value : \/ status'[x] = status[x]
                            \/ x = v /\ v # 0 /\ pc[c] \in Pending /\ status'[x] # "pending"
                               /\ (status'[x] = "false" => D = {})
                               /\ (status'[x] = "true" => D = {v})
                               /\ status'[x] # "none"
    <3>1. CASE status' = status
      BY <2>2, <3>1
    <3>2. CASE v # 0 /\ D = {} /\ status' = [status EXCEPT ![v] = "false"] /\ pc[c] \in Pending
      BY <2>2, <2>3, <3>2, Zenon
    <3>3. CASE v # 0 /\ D = {v} /\ status' = [status EXCEPT ![v] = "true"] /\ pc[c] \in Pending
      BY <2>2, <2>3, <3>3
    <3> QED
      BY <2>1, <3>1, <3>2, <3>3, Zenon DEF Finished
  <2>7. D = {} \/ (D = {v} /\ v # 0 /\ pc[c] \in Pending)
    BY <2>1
  <2>8. \A d \in Coroutine : pc'[d] \in Pending \cup {"push", "pushed"} =>
          d # c /\ pc[d] = pc'[d] /\ pc[d] \in Pending /\ op'[d].value = op[d].value
    BY <2>2 DEF Pending
  <2>9. \A d \in Coroutine : pc'[d] \in {"push", "pushed"} => op'[d].value # 0
    BY <2>8 DEF ValueOK
  <2>10. ASSUME NEW d \in Coroutine, pc'[d] \in Pending, op'[d].value # 0
         PROVE  op'[d].value <= pushes' /\ status'[op'[d].value] = "pending"
    <3>1. d # c /\ pc[d] \in Pending /\ op'[d].value = op[d].value
      BY <2>8, <2>10, Zenon
    <3>2. op[d].value <= pushes /\ status[op[d].value] = "pending" /\ op[d].value \in 0..MaxPush
      BY <2>10, <3>1 DEF ValueOK, TypeInv, OpType
    <3>3. op[d].value \in Value
      BY <2>10, <3>1, <3>2, MaxPushAssumption DEF Value
    <3> QED
      BY <2>2, <2>4, <2>6, <3>1, <3>2, <3>3, Zenon
  <2>11. \A x, d \in Coroutine :
           /\ pc'[x] \in Pending /\ pc'[d] \in Pending
           /\ op'[x].value = op'[d].value /\ op'[x].value # 0
           => x = d
    BY <2>8 DEF ValueOK
  <2>12. \A d \in Coroutine : pc'[d] \in {"push", "select"} /\ op'[d].value # 0 =>
           op'[d].value \notin Everywhere'
    <3> SUFFICES ASSUME NEW d \in Coroutine, pc'[d] \in {"push", "select"}, op'[d].value # 0
                 PROVE  op'[d].value \notin Everywhere'
      OBVIOUS
    <3>1. d # c /\ pc[d] = pc'[d] /\ pc[d] \in Pending /\ op'[d].value = op[d].value
      BY <2>8, Zenon DEF Pending
    <3>2. op[d].value \notin Everywhere /\ op[d].value \notin W
      BY <3>1, Zenon DEF ValueOK
    <3> QED
      BY <2>4, <2>7, <3>1, <3>2, Zenon
  <2>13. \A x \in W : \E d \in Coroutine : pc[d] = "pushed" /\ op[d].value = x
                                           /\ x <= pushes /\ status[x] = "pending" /\ x # 0
    BY DEF ValueOK, Pending
  <2>14. \A x \in Value : x > pushes' => status'[x] = "none" /\ x \notin Everywhere'
    <3> SUFFICES ASSUME NEW x \in Value, x > pushes PROVE status'[x] = "none" /\ x \notin Everywhere'
      BY <2>2
    <3>1. status[x] = "none" /\ x \notin Everywhere
      BY DEF ValueOK
    <3>2. x \notin W
      BY <2>2, <2>13 DEF Value
    <3>3. x = v /\ v # 0 => pc[c] \notin Pending
      BY <2>2, <2>4 DEF Value
    <3> QED
      BY <2>6, <2>7, <3>1, <3>2, <3>3, Zenon
  <2>15. \A x \in Value : status'[x] = "false" => x \notin Everywhere'
    <3> SUFFICES ASSUME NEW x \in Value, status'[x] = "false" PROVE x \notin Everywhere'
      BY Zenon
    <3>1. CASE status'[x] = status[x]
      <4>1. x \notin Everywhere /\ x \notin W
        BY <2>13, <3>1, ZenonT(30) DEF ValueOK
      <4>2. x \notin D
        BY <2>4, <2>7, <3>1, Zenon
      <4> QED
        BY <4>1, <4>2, Zenon
    <3>2. CASE x = v /\ v # 0 /\ pc[c] \in Pending /\ D = {}
      BY <2>4, <2>5, <3>2, Zenon
    <3> QED
      BY <2>6, <3>1, <3>2, Zenon
  <2>16. (\A d \in Channel : ~ closed'[d]) =>
           /\ \A x \in Value : status'[x] = "true" => x \in Everywhere'
           /\ \A x \in Coroutine : pc'[x] = "pushed" => op'[x].value \in Everywhere'
    <3> SUFFICES ASSUME \A d \in Channel : ~ closed[d]
                 PROVE  /\ \A x \in Value : status'[x] = "true" => x \in Everywhere'
                        /\ \A x \in Coroutine : pc'[x] = "pushed" => op'[x].value \in Everywhere'
      BY <2>2, Zenon
    <3>1. /\ \A x \in Value : status[x] = "true" => x \in Everywhere
          /\ \A x \in Coroutine : pc[x] = "pushed" => op[x].value \in Everywhere \/ op[x].value \in W
      BY DEF ValueOK
    <3>2. \A x \in Value : status'[x] = "true" => x \in Everywhere'
      BY <2>6, <3>1, Zenon
    <3> QED
      BY <2>8, <3>1, <3>2, Zenon
  <2>17. ValueOK({})'
    BY <2>9, <2>10, <2>11, <2>12, <2>14, <2>15, <2>16, Zenon DEF ValueOK
  <2> QED
    BY <2>6, <2>17, Zenon

\* What is on its way, when a push has notified r ...
<1>PushedForms.
     ASSUME Inv, NEW r \in Coroutine, NEW ch \in Channel, Pushed(r, ch)
     PROVE  /\ ValueOK(IF IsUnbuffered(ch) THEN {slot[ch]} ELSE {})
            /\ \A c \in Coroutine : IsUnbuffered(op[c].channel) =>
                 /\ pc[c] = "pushed" =>
                      \/ op[c].value \in Range(received[op[c].channel])
                      \/ op[c].channel = ch /\ slot[ch] = op[c].value
                 /\ pc[c] = "popped" => op[c].value # 0
  <2> USE <1>PushedForms
  <2>1. TypeInv /\ PassInv /\ ValueInv
    BY DEF Inv
  <2>2. { v \in Value : InSlot(v) } = IF IsUnbuffered(ch) THEN {slot[ch]} ELSE {}
    <3>1. \A v : InSlot(v) <=> IsUnbuffered(ch) /\ v = slot[ch]
      BY OneNotice DEF InSlot
    <3>2. IsUnbuffered(ch) => slot[ch] \in Value
      <4>1. pushes \in 0..MaxPush
        BY <2>1 DEF TypeInv
      <4> QED
        BY <4>1, MaxPushAssumption DEF Pushed, Value
    <3> QED
      BY <3>1, <3>2
  <2>3. \A c \in Coroutine : op[c].channel \in Channel
    BY <2>1, Zenon DEF TypeInv, OpType
  <2>4. \A s \in Coroutine, d \in Channel : IsUnbuffered(d) => ~ Popped(s, d) /\ (Pushed(s, d) => d = ch)
    BY OneNotice, Zenon
  <2> QED
    BY <2>1, <2>2, <2>3, <2>4, ZenonT(30) DEF ValueInv, PassInv

\* ... and when a pop has.
<1>PoppedForms.
     ASSUME Inv, NEW r \in Coroutine, NEW ch \in Channel, Popped(r, ch)
     PROVE  /\ ValueOK({})
            /\ \A c \in Coroutine : IsUnbuffered(op[c].channel) =>
                 /\ pc[c] = "pushed" => op[c].value \in Range(received[op[c].channel])
                 /\ pc[c] = "popped" =>
                      \/ op[c].value # 0
                      \/ op[c].channel = ch /\ slot[ch] = c
  <2> USE <1>PoppedForms
  <2>1. TypeInv /\ PassInv /\ ValueInv
    BY DEF Inv
  <2>2. \A s \in Coroutine, d \in Channel : IsUnbuffered(d) => ~ Pushed(s, d) /\ (Popped(s, d) => d = ch)
    BY OneNotice
  <2>3. { v \in Value : InSlot(v) } = {}
    BY <2>2, Zenon DEF InSlot
  <2>4. \A c \in Coroutine : op[c].channel \in Channel
    BY <2>1, Zenon DEF TypeInv, OpType
  <2> QED
    BY <2>1, <2>2, <2>3, <2>4, ZenonT(30) DEF ValueInv, PassInv

\* The pieces together.
<1>LeaveKept.
     ASSUME Inv, NEW c \in Coroutine, Leaves(c),
            \A d \in Coroutine \ {c} : pc[d] \in Pending => op'[d].value = op[d].value,
            storage' \in [Channel -> Seq(Value)], received' \in [Channel -> Seq(Value)],
            \A d \in Channel : Len(storage'[d]) <= capacity[d],
            able' \in [Channel -> BOOLEAN], slot' \in [Channel -> Coroutine \cup 0..MaxPush],
            status' \in [Value -> {"none", "pending", "true", "false"}],
            \A d \in Channel : QuietOn(d)', PassQuiet', ValueOK({})'
     PROVE  Inv'
  <2> USE <1>LeaveKept
  <2>1. TypeInv /\ TimerInv' /\ QueueInv' /\ CloseInv' /\ NoneFired'
    BY <1>LeaveFrame DEF Inv
  <2>2. /\ pc' \in [Coroutine -> Where] /\ pc'[c] = "user"
        /\ \A d \in Coroutine \ {c} : /\ pc'[d] = pc[d] /\ op'[d].channel = op[d].channel
                                      /\ op'[d].requests = op[d].requests
        /\ op' \in [Coroutine -> OpType] /\ chain' = chain
        /\ closed' = closed /\ pushes' = pushes /\ use' = use
        /\ producers' \in [Channel -> Seq(WaiterType)] /\ consumers' \in [Channel -> Seq(WaiterType)]
    BY <2>1, Zenon DEF Leaves, Return, TypeInv, Where, Others
  <2>3. \A d \in Coroutine : pc'[d] = "select" =>
          "select" \in use /\ (Pushes(op'[d].requests) => op'[d].value # 0)
    BY <2>1, <2>2, ZenonT(30) DEF TypeInv, Pending
  <2>4. \A d \in Coroutine : pc'[d] \in {"close_p", "close_c"} => closed[op'[d].channel]
    BY <2>1, <2>2, Zenon DEF TypeInv
  <2>5. TypeInv'
    BY <2>1, <2>2, <2>3, <2>4, Zenon DEF TypeInv
  <2>6. Quiet'
    BY <2>1 DEF Quiet
  <2> QED
    BY <2>1, <2>5, <2>6, QuietStep, Zenon

\* A channel stays quiet.
<1>LeaveQuietOn.
     ASSUME Inv, NEW c \in Coroutine, Leaves(c), NEW d \in Channel, QuietOn(d),
            ~ able'[d], storage'[d] = storage[d]
     PROVE  QuietOn(d)'
  <2> USE <1>LeaveQuietOn
  <2>1. (HasProducers(d)' => HasProducers(d)) /\ (HasConsumers(d)' => HasConsumers(d))
    BY <1>LeaveFrame, Zenon
  <2>2. (IsUnbuffered(d)' <=> IsUnbuffered(d)) /\ closed' = closed
    BY Zenon DEF IsUnbuffered, Leaves
  <2> QED
    BY <2>1, <2>2, Zenon DEF QuietOn, IsEmpty, IsFull

\* An operation fails, or was cancelled.
<1>FailsKept.
     ASSUME Inv, NEW c \in Coroutine, Leaves(c), Quiet, Returned(c), UNCHANGED data,
            \/ status' = status /\ pc[c] = "pop"
            \/ Finished(c, "false") /\ pc[c] \in Pending
     PROVE  Inv'
  <2> USE <1>FailsKept
  <2>0. UNCHANGED << storage, able, slot, received >>
    BY DEF data
  <2>1. TypeInv /\ ValueOK({}) /\ PassQuiet
    BY QuietForms, Zenon DEF Inv
  <2>2. op'[c] = NoOp /\ \A d \in Coroutine \ {c} : op'[d] = op[d]
    BY <2>1, Zenon DEF Returned, TypeInv
  <2>3. pc'[c] = "user" /\ \A d \in Coroutine \ {c} : pc'[d] = pc[d]
    BY <2>1, Zenon DEF Leaves, Return, TypeInv
  <2>4. ASSUME NEW d \in Channel PROVE QuietOn(d)'
    <3>1. QuietOn(d)
      BY DEF Quiet
    <3>2. ~ able'[d] /\ storage'[d] = storage[d]
      BY <2>0, <3>1, Zenon DEF QuietOn
    <3> QED
      BY <3>1, <3>2, <1>LeaveQuietOn
  <2>5. PassQuiet'
    BY <2>0, <2>1, <2>2, <2>3, Zenon DEF PassQuiet, IsUnbuffered
  <2>6. ValueOK({})' /\ status' \in [Value -> {"none", "pending", "true", "false"}]
    <3>1. Everywhere' = (Everywhere \cup {}) \cup {}
      BY <2>0 DEF Everywhere
    <3> QED
      BY <2>1, <2>2, <3>1, <1>ValuesEnd, ZenonT(30)
  <2>7. /\ storage' \in [Channel -> Seq(Value)] /\ received' \in [Channel -> Seq(Value)]
        /\ \A d \in Channel : Len(storage'[d]) <= capacity[d]
        /\ able' \in [Channel -> BOOLEAN] /\ slot' \in [Channel -> Coroutine \cup 0..MaxPush]
    BY <2>0, <2>1, Zenon DEF TypeInv
  <2> QED
    BY <2>2, <2>4, <2>5, <2>6, <2>7, <1>LeaveKept, Zenon

\* A producer stores its value: a pop has made room for it, or a close() has woken it.
<1>StoresKept.
     ASSUME Inv, NEW c \in Coroutine, Leaves(c), NEW ch \in Channel, ~ IsUnbuffered(ch),
            pc[c] \in Pending, op[c].value # 0, Finished(c, "true"), PushData(c, ch, op[c].value),
            Popped(c, ch) \/ (Quiet /\ closed[ch] /\ HasProducers(ch) /\ ~ IsFull(ch))
     PROVE  Inv'
  <2> USE <1>StoresKept
  <2>1. TypeInv
    BY DEF Inv
  <2>2. PICK v \in Value : v = op[c].value
    BY <2>1, MaxPushAssumption DEF TypeInv, OpType, Value
  <2>3. /\ storage' = [storage EXCEPT ![ch] = Append(storage[ch], v)]
        /\ Returned(c) /\ UNCHANGED << able, slot, received >>
    BY <2>2 DEF PushData
  <2>4. op'[c] = NoOp /\ \A d \in Coroutine \ {c} : op'[d] = op[d]
    BY <2>1, <2>3, Zenon DEF Returned, TypeInv
  <2>5. pc'[c] = "user" /\ (\A d \in Coroutine \ {c} : pc'[d] = pc[d]) /\ closed' = closed
    BY <2>1, Zenon DEF Leaves, Return, TypeInv
  <2>6. /\ ValueOK({})
        /\ \A d \in Coroutine : IsUnbuffered(op[d].channel) =>
             /\ pc[d] = "pushed" => op[d].value \in Range(received[op[d].channel])
             /\ pc[d] = "popped" => op[d].value # 0 \/ op[d].channel = ch
        /\ ~ able[ch] /\ ~ IsFull(ch) /\ ~ HasConsumers(ch)
        /\ closed[ch] \/ Len(storage[ch]) + 1 = capacity[ch]
        /\ \A d \in Channel \ {ch} : QuietOn(d)
    <3>1. CASE Popped(c, ch)
      BY <3>1, <1>PoppedForms, Zenon DEF Popped
    <3>2. CASE Quiet /\ closed[ch] /\ HasProducers(ch) /\ ~ IsFull(ch)
      <4>1. ValueOK({}) /\ PassQuiet
        BY <2>1, <3>2, QuietForms, ZenonT(30) DEF Inv
      <4>2. QuietOn(ch) /\ \A d \in Channel \ {ch} : QuietOn(d)
        BY <3>2, Zenon DEF Quiet
      <4> QED
        BY <3>2, <4>1, <4>2, Zenon DEF PassQuiet, QuietOn
    <3> QED
      BY <3>1, <3>2, Zenon
  <2>7. /\ storage[ch] \in Seq(Value) /\ Len(storage[ch]) <= capacity[ch] /\ capacity[ch] \in Nat
        /\ Append(storage[ch], v) \in Seq(Value) /\ Len(storage[ch]) \in Nat
        /\ Len(Append(storage[ch], v)) = Len(storage[ch]) + 1
    <3>1. /\ storage[ch] \in Seq(Value) /\ Len(storage[ch]) <= capacity[ch] /\ capacity[ch] \in Nat
      BY <2>1, CapacityAssumption DEF TypeInv
    <3> QED
      BY <3>1, AppendRange, Zenon
  <2>8. /\ storage' \in [Channel -> Seq(Value)] /\ storage'[ch] = Append(storage[ch], v)
        /\ \A d \in Channel \ {ch} : storage'[d] = storage[d]
    BY <2>1, <2>3, <2>7, Zenon DEF TypeInv
  <2>9. \A d \in Channel : Len(storage'[d]) <= capacity[d]
    <3>1. Len(storage'[ch]) <= capacity[ch]
      BY <2>6, <2>7, <2>8 DEF IsFull
    <3> QED
      BY <2>1, <2>8, <3>1, ZenonT(30) DEF TypeInv
  <2>10. ASSUME NEW d \in Channel PROVE QuietOn(d)'
    <3>1. CASE d = ch
      <4>1. ~ HasConsumers(ch)' /\ ~ able'[ch]
        BY <2>3, <2>6, <1>LeaveFrame, Zenon
      <4>2. ~ closed[ch] => IsFull(ch)'
        BY <2>6, <2>7, <2>8, ZenonT(30) DEF IsFull
      <4> QED
        BY <2>5, <3>1, <4>1, <4>2, Zenon DEF QuietOn
    <3>2. CASE d # ch
      <4>1. QuietOn(d) /\ ~ able'[d] /\ storage'[d] = storage[d]
        BY <2>3, <2>6, <2>8, <3>2, Zenon DEF QuietOn
      <4> QED
        BY <4>1, <1>LeaveQuietOn
    <3> QED
      BY <3>1, <3>2, ZenonT(30)
  <2>11. PassQuiet'
    BY <2>3, <2>4, <2>5, <2>6, Zenon DEF PassQuiet, IsUnbuffered
  <2>12. ValueOK({})' /\ status' \in [Value -> {"none", "pending", "true", "false"}]
    <3>1. Everywhere' = Everywhere \cup {v}
      BY <2>1, <2>3, EverywhereStored, ZenonT(30)
    <3>2. Everywhere' = (Everywhere \cup {}) \cup {op[c].value}
      BY <2>2, <3>1, Zenon
    <3> QED
      BY <2>1, <2>4, <2>6, <3>2, <1>ValuesEnd, Zenon
  <2>13. /\ received' \in [Channel -> Seq(Value)]
         /\ able' \in [Channel -> BOOLEAN] /\ slot' \in [Channel -> Coroutine \cup 0..MaxPush]
    BY <2>1, <2>3 DEF TypeInv
  <2> QED
    BY <2>4, <2>8, <2>9, <2>10, <2>11, <2>12, <2>13, <1>LeaveKept, ZenonT(30)

\* The operations then.
<1>HandedOps.
     ASSUME TypeInv, NEW c \in Coroutine, NEW s \in Coroutine, s # c, NEW v \in Value,
            Handed(c, s, v)
     PROVE  /\ op' \in [Coroutine -> OpType] /\ op'[c] = NoOp /\ op'[s].value = v
            /\ op'[s].channel = op[s].channel /\ op'[s].requests = op[s].requests
            /\ \A d \in Coroutine \ {c, s} : op'[d] = op[d]
  <2> USE <1>HandedOps
  <2>1. PICK o \in OpType : o = op[s]
    BY DEF TypeInv
  <2>2. PICK n \in OpType : n = [o EXCEPT !.value = v] /\ n.value = v /\ n.channel = o.channel
                            /\ n.requests = o.requests
    BY <1>SetValueType, Zenon
  <2>3. PICK z \in OpType : z = NoOp
    BY NoOpType, Zenon
  <2>4. op \in [Coroutine -> OpType]
    BY DEF TypeInv
  <2>5. op' = [op EXCEPT ![s] = n, ![c] = z]
    BY <2>1, <2>2, <2>3, <2>4, Zenon DEF Handed
  <2>6. /\ op' \in [Coroutine -> OpType] /\ op'[c] = z /\ op'[s] = n
        /\ \A d \in Coroutine \ {c, s} : op'[d] = op[d]
    BY <2>4, <2>5
  <2> QED
    BY <2>1, <2>2, <2>3, <2>6, Zenon

\* A value is added at the end of what a channel has delivered.
<1>ReceivedGrows.
     ASSUME TypeInv, NEW ch \in Channel, NEW v \in Value
     PROVE  /\ Append(received[ch], v) \in Seq(Value)
            /\ Range(Append(received[ch], v)) = Range(received[ch]) \cup {v}
  <2>1. received[ch] \in Seq(Value)
    BY <1>ReceivedGrows, Zenon DEF TypeInv
  <2> QED
    BY <1>ReceivedGrows, <2>1, AppendRange

\* A producer hands its value over to the pop that has notified it.
<1>HandsKept.
     ASSUME Inv, NEW c \in Coroutine, Leaves(c), NEW ch \in Channel, IsUnbuffered(ch),
            pc[c] \in Pending, op[c].value # 0, Finished(c, "true"), PushData(c, ch, op[c].value),
            Popped(c, ch)
     PROVE  Inv'
  <2> USE <1>HandsKept
  <2>1. TypeInv
    BY DEF Inv
  <2>2. PICK v \in Value : v = op[c].value
    BY <2>1, MaxPushAssumption DEF TypeInv, OpType, Value
  <2>3. /\ op' = [op EXCEPT ![slot[ch]].value = v, ![c] = NoOp]
        /\ received' = [received EXCEPT ![ch] = Append(received[ch], v)]
        /\ slot' = [slot EXCEPT ![ch] = 0] /\ able' = [able EXCEPT ![ch] = FALSE]
        /\ storage' = storage
    BY <2>2 DEF PushData, Deliver
  <2>4. PICK s \in Coroutine : s = slot[ch] /\ pc[s] = "popped" /\ s # c
    BY ZenonT(30) DEF Popped, Leaves, InWait
  <2>5. /\ op'[c] = NoOp /\ op'[s].value = v /\ op'[s].channel = op[s].channel
        /\ \A d \in Coroutine \ {c, s} : op'[d] = op[d]
    <3>1. Handed(c, s, v)
      BY <2>3, <2>4 DEF Handed
    <3> QED
      BY <2>1, <2>4, <3>1, <1>HandedOps
  <2>6. pc'[c] = "user" /\ (\A d \in Coroutine \ {c} : pc'[d] = pc[d]) /\ closed' = closed
    BY <2>1, Zenon DEF Leaves, Return, TypeInv
  <2>7. /\ ValueOK({})
        /\ \A d \in Coroutine : IsUnbuffered(op[d].channel) =>
             /\ pc[d] = "pushed" => op[d].value \in Range(received[op[d].channel])
             /\ pc[d] = "popped" => op[d].value # 0 \/ d = s
        /\ \A d \in Channel \ {ch} : QuietOn(d)
    BY <2>4, <1>PoppedForms, ZenonT(30) DEF Popped
  <2>8. /\ Append(received[ch], v) \in Seq(Value)
        /\ Range(Append(received[ch], v)) = Range(received[ch]) \cup {v}
    BY <2>1, <1>ReceivedGrows, Zenon
  <2>9. /\ received' \in [Channel -> Seq(Value)]
        /\ \A d \in Channel : Range(received[d]) \subseteq Range(received'[d])
    BY <2>1, <2>3, <2>8, Zenon DEF TypeInv
  <2>10. /\ able' \in [Channel -> BOOLEAN] /\ slot' \in [Channel -> Coroutine \cup 0..MaxPush]
         /\ ~ able'[ch] /\ \A d \in Channel \ {ch} : able'[d] = able[d]
    <3>1. 0 \in 0..MaxPush
      BY MaxPushAssumption
    <3> QED
      BY <2>1, <2>3, <3>1, Zenon DEF TypeInv
  <2>11. ASSUME NEW d \in Channel PROVE QuietOn(d)'
    <3>1. CASE d = ch
      BY <2>10, <3>1 DEF QuietOn, IsUnbuffered
    <3>2. CASE d # ch
      <4>1. QuietOn(d) /\ ~ able'[d] /\ storage'[d] = storage[d]
        BY <2>3, <2>7, <2>10, <3>2, Zenon DEF QuietOn
      <4> QED
        BY <4>1, <1>LeaveQuietOn, Zenon
    <3> QED
      BY <3>1, <3>2, Zenon
  <2>12. PassQuiet'
    <3> SUFFICES ASSUME NEW d \in Coroutine, IsUnbuffered(op'[d].channel)
                 PROVE  /\ pc'[d] = "pushed" => op'[d].value \in Range(received'[op'[d].channel])
                        /\ pc'[d] = "popped" => op'[d].value # 0
      BY Zenon DEF PassQuiet, IsUnbuffered
    <3>1. v # 0 /\ op[d].channel \in Channel
      BY <2>1, <2>2 DEF TypeInv, OpType
    <3>2. CASE d = c
      BY <2>6, <3>2, Zenon
    <3>3. CASE d = s
      BY <2>4, <2>5, <2>6, <3>1, <3>3, ZenonT(30)
    <3>4. CASE d \notin {c, s}
      BY <2>5, <2>6, <2>7, <2>9, <3>1, <3>4, ZenonT(30)
    <3> QED
      BY <3>2, <3>3, <3>4, Zenon
  <2>13. \A d \in Coroutine \ {c} : pc[d] \in Pending => op'[d].value = op[d].value
    BY <2>4, <2>5, Zenon DEF Pending
  <2>14. ValueOK({})' /\ status' \in [Value -> {"none", "pending", "true", "false"}]
    <3>1. Everywhere' = Everywhere \cup {v}
      BY <2>1, <2>3, EverywhereDelivered, Zenon
    <3>2. Everywhere' = (Everywhere \cup {}) \cup {op[c].value}
      BY <2>2, <3>1, Zenon
    <3> QED
      BY <2>1, <2>7, <2>13, <3>2, <1>ValuesEnd, ZenonT(30)
  <2>15. storage' \in [Channel -> Seq(Value)] /\ \A d \in Channel : Len(storage'[d]) <= capacity[d]
    BY <2>1, <2>3 DEF TypeInv
  <2> QED
    BY <2>9, <2>10, <2>11, <2>12, <2>13, <2>14, <2>15, <1>LeaveKept, ZenonT(30)

\* A consumer takes the value in the slot.
<1>TakesSlotKept.
     ASSUME Inv, NEW c \in Coroutine, Leaves(c), NEW ch \in Channel, IsUnbuffered(ch),
            PopData(c, ch), Pushed(c, ch),
            \/ status' = status /\ pc[c] = "pop"
            \/ Finished(c, "false") /\ pc[c] \in Pending
     PROVE  Inv'
  <2> USE <1>TakesSlotKept
  <2>1. TypeInv
    BY DEF Inv
  <2>2. PICK v \in Value : v = slot[ch]
    <3>1. pushes \in 0..MaxPush
      BY <2>1, Zenon DEF TypeInv
    <3> QED
      BY <3>1, MaxPushAssumption DEF Pushed, Value
  <2>3. /\ Returned(c)
        /\ received' = [received EXCEPT ![ch] = Append(received[ch], v)]
        /\ slot' = [slot EXCEPT ![ch] = 0] /\ able' = [able EXCEPT ![ch] = FALSE]
        /\ storage' = storage
    BY <2>2 DEF PopData, Deliver
  <2>4. op'[c] = NoOp /\ \A d \in Coroutine \ {c} : op'[d] = op[d]
    BY <2>1, <2>3, Zenon DEF Returned, TypeInv
  <2>5. pc'[c] = "user" /\ (\A d \in Coroutine \ {c} : pc'[d] = pc[d]) /\ closed' = closed
    BY <2>1, Zenon DEF Leaves, Return, TypeInv
  <2>6. /\ ValueOK({v})
        /\ \A d \in Coroutine : IsUnbuffered(op[d].channel) =>
             /\ pc[d] = "pushed" => \/ op[d].value \in Range(received[op[d].channel])
                                    \/ op[d].channel = ch /\ op[d].value = v
             /\ pc[d] = "popped" => op[d].value # 0
        /\ \A d \in Channel \ {ch} : QuietOn(d)
    BY <2>2, <1>PushedForms, Zenon DEF Pushed
  <2>7. /\ Append(received[ch], v) \in Seq(Value)
        /\ Range(Append(received[ch], v)) = Range(received[ch]) \cup {v}
    BY <2>1, <1>ReceivedGrows, Zenon
  <2>8. /\ received' \in [Channel -> Seq(Value)] /\ v \in Range(received'[ch])
        /\ \A d \in Channel : Range(received[d]) \subseteq Range(received'[d])
    BY <2>1, <2>3, <2>7, Zenon DEF TypeInv
  <2>9. /\ able' \in [Channel -> BOOLEAN] /\ slot' \in [Channel -> Coroutine \cup 0..MaxPush]
        /\ ~ able'[ch] /\ \A d \in Channel \ {ch} : able'[d] = able[d]
    <3>1. 0 \in 0..MaxPush
      BY MaxPushAssumption
    <3> QED
      BY <2>1, <2>3, <3>1, Zenon DEF TypeInv
  <2>10. ASSUME NEW d \in Channel PROVE QuietOn(d)'
    <3>1. CASE d = ch
      BY <2>9, <3>1, Zenon DEF QuietOn, IsUnbuffered
    <3>2. CASE d # ch
      <4>1. QuietOn(d) /\ ~ able'[d] /\ storage'[d] = storage[d]
        BY <2>3, <2>6, <2>9, <3>2, Zenon DEF QuietOn
      <4> QED
        BY <4>1, <1>LeaveQuietOn, Zenon
    <3> QED
      BY <3>1, <3>2
  <2>11. PassQuiet'
    <3> SUFFICES ASSUME NEW d \in Coroutine, IsUnbuffered(op'[d].channel)
                 PROVE  /\ pc'[d] = "pushed" => op'[d].value \in Range(received'[op'[d].channel])
                        /\ pc'[d] = "popped" => op'[d].value # 0
      BY Zenon DEF PassQuiet, IsUnbuffered
    <3>1. op[d].channel \in Channel
      BY <2>1, Zenon DEF TypeInv, OpType
    <3>2. CASE d = c
      BY <2>5, <3>2, Zenon
    <3>3. CASE d # c
      BY <2>4, <2>5, <2>6, <2>8, <3>1, <3>3
    <3> QED
      BY <3>2, <3>3, Zenon
  <2>12. \A d \in Coroutine \ {c} : pc[d] \in Pending => op'[d].value = op[d].value
    BY <2>4, Zenon
  <2>13. ValueOK({})' /\ status' \in [Value -> {"none", "pending", "true", "false"}]
    <3>1. Everywhere' = Everywhere \cup {v}
      BY <2>1, <2>3, EverywhereDelivered, Zenon
    <3>2. Everywhere' = (Everywhere \cup {v}) \cup {}
      BY <3>1
    <3> QED
      BY <2>1, <2>6, <2>12, <3>2, <1>ValuesEnd, ZenonT(30)
  <2>14. storage' \in [Channel -> Seq(Value)] /\ \A d \in Channel : Len(storage'[d]) <= capacity[d]
    BY <2>1, <2>3, Zenon DEF TypeInv
  <2> QED
    BY <2>8, <2>9, <2>10, <2>11, <2>12, <2>13, <2>14, <1>LeaveKept, ZenonT(30)

\* A consumer takes the only value stored.
<1>TakesStoredKept.
     ASSUME Inv, NEW c \in Coroutine, Leaves(c), NEW ch \in Channel, ~ IsUnbuffered(ch),
            PopData(c, ch), Pushed(c, ch),
            \/ status' = status /\ pc[c] = "pop"
            \/ Finished(c, "false") /\ pc[c] \in Pending
     PROVE  Inv'
  <2> USE <1>TakesStoredKept
  <2>1. TypeInv
    BY DEF Inv
  <2>2. /\ Returned(c) /\ able' = able /\ slot' = slot
        /\ received' = [received EXCEPT ![ch] = Append(received[ch], Head(storage[ch]))]
        /\ storage' = [storage EXCEPT ![ch] = Tail(storage[ch])]
    BY DEF PopData, Deliver
  <2>3. op'[c] = NoOp /\ \A d \in Coroutine \ {c} : op'[d] = op[d]
    BY <2>1, <2>2, Zenon DEF Returned, TypeInv
  <2>4. pc'[c] = "user" /\ (\A d \in Coroutine \ {c} : pc'[d] = pc[d]) /\ closed' = closed
    BY <2>1, Zenon DEF Leaves, Return, TypeInv
  <2>5. /\ ValueOK({})
        /\ \A d \in Coroutine : IsUnbuffered(op[d].channel) =>
             /\ pc[d] = "pushed" => \/ op[d].value \in Range(received[op[d].channel])
                                    \/ op[d].channel = ch
             /\ pc[d] = "popped" => op[d].value # 0
    BY <1>PushedForms, Zenon
  <2>6. PICK s \in Seq(Value) : s = storage[ch] /\ Len(s) = 1
    BY <2>1, Zenon DEF TypeInv, Pushed
  <2>7. /\ s # << >> /\ Head(s) \in Value /\ Tail(s) \in Seq(Value)
        /\ Len(Tail(s)) + 1 = Len(s) /\ Len(Tail(s)) \in Nat
    <3>1. s # << >>
      <4>1. Len(s) # 0
        BY <2>6
      <4> QED
        BY <4>1, EmptyLength, Zenon
    <3> QED
      BY <3>1, TailRange
  <2>8. Len(Tail(s)) = 0 /\ Tail(s) = << >>
    <3>1. Len(Tail(s)) = 0
      BY <2>6, <2>7
    <3> QED
      BY <2>7, <3>1, EmptyLength, Zenon
  <2>9. PICK t \in Seq(Value) : t = received[ch]
    BY <2>1, Zenon DEF TypeInv
  <2>10. /\ Append(t, Head(s)) \in Seq(Value)
         /\ Range(t) \subseteq Range(Append(t, Head(s)))
    BY <2>7, <2>9, AppendRange
  <2>11. /\ received' \in [Channel -> Seq(Value)]
         /\ \A d \in Channel : Range(received[d]) \subseteq Range(received'[d])
    BY <2>1, <2>2, <2>6, <2>9, <2>10, Zenon DEF TypeInv
  <2>12. /\ storage' \in [Channel -> Seq(Value)] /\ storage'[ch] = << >>
         /\ \A d \in Channel \ {ch} : storage'[d] = storage[d]
    BY <2>1, <2>2, <2>6, <2>7, <2>8, ZenonT(30) DEF TypeInv
  <2>13. \A d \in Channel : Len(storage'[d]) <= capacity[d]
    <3>1. 0 <= capacity[ch] /\ Len(storage'[ch]) = 0
      BY <2>8, <2>12, CapacityAssumption
    <3> QED
      BY <2>1, <2>12, <3>1, ZenonT(30) DEF TypeInv
  <2>14. ASSUME NEW d \in Channel PROVE QuietOn(d)'
    <3>1. CASE d = ch
      <4>1. ~ able[ch] /\ ~ HasProducers(ch)
        BY Zenon DEF Pushed
      <4>2. ~ HasProducers(ch)'
        BY <4>1, <1>LeaveFrame
      <4> QED
        BY <2>2, <2>12, <3>1, <4>1, <4>2, ZenonT(30) DEF QuietOn, IsEmpty, IsUnbuffered
    <3>2. CASE d # ch
      <4>1. QuietOn(d)
        BY <3>2 DEF Pushed
      <4>2. ~ able'[d] /\ storage'[d] = storage[d]
        BY <2>2, <2>12, <3>2, <4>1, Zenon DEF QuietOn
      <4> QED
        BY <4>1, <4>2, <1>LeaveQuietOn, ZenonT(30)
    <3> QED
      BY <3>1, <3>2
  <2>15. PassQuiet'
    <3> SUFFICES ASSUME NEW d \in Coroutine, IsUnbuffered(op'[d].channel)
                 PROVE  /\ pc'[d] = "pushed" => op'[d].value \in Range(received'[op'[d].channel])
                        /\ pc'[d] = "popped" => op'[d].value # 0
      BY Zenon DEF PassQuiet, IsUnbuffered
    <3>1. op[d].channel \in Channel
      BY <2>1 DEF TypeInv, OpType
    <3>2. CASE d = c
      BY <2>4, <3>2, Zenon
    <3>3. CASE d # c
      <4>1. op'[d] = op[d] /\ pc'[d] = pc[d] /\ op[d].channel # ch
        BY <2>3, <2>4, <3>3, ZenonT(30)
      <4> QED
        BY <2>5, <2>11, <3>1, <4>1, Zenon
    <3> QED
      BY <3>2, <3>3, ZenonT(30)
  <2>16. \A d \in Coroutine \ {c} : pc[d] \in Pending => op'[d].value = op[d].value
    BY <2>3
  <2>17. ValueOK({})' /\ status' \in [Value -> {"none", "pending", "true", "false"}]
    <3>1. Everywhere' = Everywhere
      BY <2>1, <2>2, <2>6, <2>7, EverywhereMoved, ZenonT(30)
    <3>2. Everywhere' = (Everywhere \cup {}) \cup {}
      BY <3>1
    <3> QED
      BY <2>1, <2>5, <2>16, <3>2, <1>ValuesEnd, ZenonT(30)
  <2>18. able' \in [Channel -> BOOLEAN] /\ slot' \in [Channel -> Coroutine \cup 0..MaxPush]
    BY <2>1, <2>2, Zenon DEF TypeInv
  <2> QED
    BY <2>11, <2>12, <2>13, <2>14, <2>15, <2>16, <2>17, <2>18, <1>LeaveKept, Zenon

\* c leaves a wait, and its own operation is the only one that changes.
<1>LeavesAlone.
     ASSUME Inv, NEW c \in Coroutine, Running(chain) = c, pc[c] \in InWait, Return(c), Returned(c),
            producers' \in [Channel -> Seq(WaiterType)], consumers' \in [Channel -> Seq(WaiterType)],
            \A d \in Channel : Rest(producers'[d], producers[d], c)
                               /\ Rest(consumers'[d], consumers[d], c),
            UNCHANGED << closed, pushes, use >>
     PROVE  Leaves(c)
  <2> USE <1>LeavesAlone
  <2>1. TypeInv
    BY Zenon DEF Inv
  <2>2. op' \in [Coroutine -> OpType] /\ \A d \in Coroutine \ {c} : op'[d] = op[d]
    BY <2>1, NoOpType DEF Returned, TypeInv
  <2>3. \A d \in Coroutine \ {c} : pc'[d] = pc[d]
    BY <2>1, Zenon DEF Return, TypeInv
  <2>4. Others(c, pc, pc', op, op')
    BY <2>2, <2>3, Zenon DEF Others
  <2> QED
    BY <2>2, <2>4, ZenonT(30) DEF Leaves

\* It leaves the wait, and hands its value over to the pop that has notified it.
<1>LeavesHanding.
     ASSUME Inv, NEW c \in Coroutine, Running(chain) = c, pc[c] \in InWait, Return(c),
            NEW ch \in Channel, IsUnbuffered(ch), Popped(c, ch), op[c].value # 0,
            PushData(c, ch, op[c].value),
            producers' \in [Channel -> Seq(WaiterType)], consumers' \in [Channel -> Seq(WaiterType)],
            \A d \in Channel : Rest(producers'[d], producers[d], c)
                               /\ Rest(consumers'[d], consumers[d], c),
            UNCHANGED << closed, pushes, use >>
     PROVE  Leaves(c)
  <2> USE <1>LeavesHanding
  <2>1. TypeInv
    BY Zenon DEF Inv
  <2>2. PICK v \in Value : v = op[c].value
    BY <2>1, MaxPushAssumption DEF TypeInv, OpType, Value
  <2>3. PICK s \in Coroutine : s = slot[ch] /\ pc[s] = "popped" /\ s # c
    BY Zenon DEF Popped, InWait
  <2>4. Handed(c, s, v)
    BY <2>2, <2>3 DEF PushData, Handed
  <2>5. /\ op' \in [Coroutine -> OpType] /\ op'[s].channel = op[s].channel
        /\ op'[s].requests = op[s].requests /\ \A d \in Coroutine \ {c, s} : op'[d] = op[d]
    BY <2>1, <2>3, <2>4, <1>HandedOps, Zenon
  <2>6. \A d \in Coroutine \ {c} : pc'[d] = pc[d]
    BY <2>1, Zenon DEF Return, TypeInv
  <2>7. Others(c, pc, pc', op, op')
    BY <2>5, <2>6, Zenon DEF Others
  <2> QED
    BY <2>5, <2>7, Zenon DEF Leaves

\* push_data() of a producer that has been woken for ch, and returns.
<1>PushDataKept.
     ASSUME Inv, NEW c \in Coroutine, Running(chain) = c, pc[c] \in {"push", "select"}, Return(c),
            NEW ch \in Channel, op[c].value # 0, Finished(c, "true"),
            PushData(c, ch, op[c].value),
            \/ Popped(c, ch)
            \/ ~ IsUnbuffered(ch) /\ Quiet /\ closed[ch] /\ HasProducers(ch) /\ ~ IsFull(ch),
            producers' \in [Channel -> Seq(WaiterType)], consumers' \in [Channel -> Seq(WaiterType)],
            \A d \in Channel : Rest(producers'[d], producers[d], c)
                               /\ Rest(consumers'[d], consumers[d], c),
            UNCHANGED << closed, pushes, use >>
     PROVE  Inv'
  <2> USE <1>PushDataKept
  <2>1. pc[c] \in InWait /\ pc[c] \in Pending
    BY Zenon DEF InWait, Pending
  <2>2. CASE IsUnbuffered(ch)
    <3>1. Leaves(c)
      BY <2>1, <2>2, <1>LeavesHanding, Zenon
    <3> QED
      BY <2>1, <2>2, <3>1, <1>HandsKept, Zenon
  <2>3. CASE ~ IsUnbuffered(ch)
    <3>1. Returned(c)
      BY <2>3 DEF PushData
    <3>2. Leaves(c)
      BY <2>1, <3>1, <1>LeavesAlone, Zenon
    <3> QED
      BY <2>1, <2>3, <3>2, <1>StoresKept, Zenon
  <2> QED
    BY <2>2, <2>3, Zenon

\* pop_data() of a consumer that has been woken for ch, and returns.
<1>PopDataKept.
     ASSUME Inv, NEW c \in Coroutine, Running(chain) = c, Return(c),
            NEW ch \in Channel, PopData(c, ch), Pushed(c, ch),
            \/ status' = status /\ pc[c] = "pop"
            \/ Finished(c, "false") /\ pc[c] = "select",
            producers' \in [Channel -> Seq(WaiterType)], consumers' \in [Channel -> Seq(WaiterType)],
            \A d \in Channel : Rest(producers'[d], producers[d], c)
                               /\ Rest(consumers'[d], consumers[d], c),
            UNCHANGED << closed, pushes, use >>
     PROVE  Inv'
  <2> USE <1>PopDataKept
  <2>1. /\ pc[c] \in InWait
        /\ \/ status' = status /\ pc[c] = "pop"
           \/ Finished(c, "false") /\ pc[c] \in Pending
    BY DEF InWait, Pending
  <2>2. Returned(c)
    BY Zenon DEF PopData
  <2>3. Leaves(c)
    BY <2>1, <2>2, <1>LeavesAlone, Zenon
  <2>4. CASE IsUnbuffered(ch)
    BY <2>1, <2>3, <2>4, <1>TakesSlotKept, Zenon
  <2>5. CASE ~ IsUnbuffered(ch)
    BY <2>1, <2>3, <2>5, <1>TakesStoredKept, Zenon
  <2> QED
    BY <2>4, <2>5, ZenonT(30)

<1>1. ASSUME NEW c \in Coroutine, FailEnds(c) PROVE Inv'
  <2>1. Leaves(c)
    BY <1>1, <1>LeavesAlone, Zenon DEF FailEnds, Departs
  <2> QED
    BY <1>1, <2>1, <1>FailsKept, Zenon DEF FailEnds
<1>2. ASSUME NEW c \in Coroutine, NEW ch \in Channel, PushEnds(c, ch) PROVE Inv'
  BY <1>2, <1>PushDataKept, Zenon DEF PushEnds, Departs
<1>3. ASSUME NEW c \in Coroutine, NEW ch \in Channel, PopEnds(c, ch) PROVE Inv'
  BY <1>3, <1>PopDataKept, Zenon DEF PopEnds, Departs
<1> QED
  BY <1>1, <1>2, <1>3

\* A push, a pop or a select that was woken keeps the invariant as it goes on.
LEMMA WokenKept ==
  ASSUME Listing, CloseApart, Inv, UNCHANGED use
  PROVE  \A c \in Coroutine : PushWoken(c) \/ PopWoken(c) \/ SelectWoken(c) => Inv'
\* cat_queue_remove() of all the nodes that c has in q.
<1>RemoveRest.
     ASSUME Listing, NEW q \in Seq(WaiterType), NEW c, NEW last \in Nat, Distinct(q),
            \A i \in DOMAIN q : ~ q[i].freed /\ (q[i].owner = c => q[i].index <= last)
     PROVE  Rest(Remove(q, c, last), q, c)
  <2> USE <1>RemoveRest
  <2> DEFINE S == { i \in DOMAIN q : ~ (Owns(c, q[i]) /\ q[i].index <= last) }
             kept == Ascending(S, Len(q))
             Left(e) == IF Owns(c, e) THEN [e EXCEPT !.freed = TRUE] ELSE e
  <2>1. S \in SUBSET (1..Len(q)) /\ Len(q) \in Nat
    OBVIOUS
  <2>2. \A i \in DOMAIN q : i \in S <=> q[i].owner # c
    BY Zenon DEF Owns
  <2>3. /\ kept \in Seq(S)
        /\ \A x \in S : \E i \in DOMAIN kept : kept[i] = x
        /\ \A i, j \in DOMAIN kept : kept[i] = kept[j] => i = j
    <3> HIDE DEF S
    <3> QED
      BY <2>1 DEF Listing
  <2>4. Remove(q, c, last) = [k \in DOMAIN kept |-> Left(q[kept[k]])]
    BY DEF Remove
  <2> HIDE DEF S, kept
  <2>5. \A k \in DOMAIN kept : kept[k] \in DOMAIN q /\ q[kept[k]].owner # c
    <3>1. \A k \in DOMAIN kept : kept[k] \in S
      BY <2>3
    <3>2. \A i \in S : i \in DOMAIN q
      BY DEF S
    <3> QED
      BY <2>2, <3>1, <3>2, Zenon
  <2>6. PICK r : r = Remove(q, c, last)
    OBVIOUS
  <2>7. DOMAIN r = DOMAIN kept /\ \A k \in DOMAIN kept : r[k] = q[kept[k]]
    BY <2>4, <2>5, <2>6 DEF Owns
  <2>8. r \in Seq(WaiterType)
    <3>1. r = [k \in DOMAIN kept |-> Left(q[kept[k]])] /\ DOMAIN kept = 1..Len(kept) /\ Len(kept) \in Nat
      BY <2>3, <2>4, <2>6
    <3>2. \A k \in DOMAIN kept : r[k] \in WaiterType
      BY <2>5, <2>7
    <3>3. r \in [1..Len(kept) -> WaiterType]
      BY <3>1, <3>2, Zenon
    <3> QED
      BY <3>1, <3>3
  <2>9. Distinct(r)
    <3> SUFFICES ASSUME NEW i \in DOMAIN kept, NEW j \in DOMAIN kept,
                        r[i].owner = r[j].owner, r[i].index = r[j].index
                 PROVE  i = j
      BY <2>7 DEF Distinct
    <3>1. kept[i] = kept[j]
      BY <2>5, <2>7 DEF Distinct
    <3> QED
      BY <2>3, <3>1, Zenon
  <2>10. \A j \in DOMAIN q : q[j].owner # c => \E i \in DOMAIN r : r[i] = q[j]
    BY <2>2, <2>3, <2>7
  <2> QED
    BY <2>5, <2>6, <2>7, <2>8, <2>9, <2>10 DEF Rest

\* A queue in which c has no node.
<1>RestSame.
     ASSUME NEW q \in Seq(WaiterType), NEW c, Distinct(q), \A i \in DOMAIN q : q[i].owner # c
     PROVE  Rest(q, q, c)
  BY <1>RestSame, Zenon DEF Rest

\* A push or a pop takes its node out of its queue.
<1>WaitQueues.
     ASSUME Listing, Inv, NEW c \in Coroutine, NEW ch \in Channel, op[c].channel = ch,
            \/ /\ pc[c] = "push" /\ consumers' = consumers
               /\ producers' = [producers EXCEPT ![ch] = Remove(producers[ch], c, 0)]
            \/ /\ pc[c] = "pop" /\ producers' = producers
               /\ consumers' = [consumers EXCEPT ![ch] = Remove(consumers[ch], c, 0)]
     PROVE  /\ producers' \in [Channel -> Seq(WaiterType)]
            /\ consumers' \in [Channel -> Seq(WaiterType)]
            /\ \A d \in Channel : /\ Rest(producers'[d], producers[d], c)
                                  /\ Rest(consumers'[d], consumers[d], c)
  <2> USE <1>WaitQueues
  <2>1. TypeInv /\ QueueInv
    BY Zenon DEF Inv
  <2>2. ASSUME NEW d \in Channel, \/ pc[c] # "select" /\ pc[c] # "push"
                                  \/ pc[c] # "select" /\ d # ch
        PROVE  Rest(producers[d], producers[d], c)
    <3>1. producers[d] \in Seq(WaiterType) /\ Distinct(producers[d])
      BY <2>1, QueueTypes, OwnNodes, ZenonT(30)
    <3>2. \A i \in DOMAIN producers[d] : producers[d][i].owner # c
      BY <2>1, <2>2, OwnNodes, ZenonT(30)
    <3> QED
      BY <3>1, <3>2, <1>RestSame
  <2>3. ASSUME NEW d \in Channel, \/ pc[c] # "select" /\ pc[c] # "pop"
                                  \/ pc[c] # "select" /\ d # ch
        PROVE  Rest(consumers[d], consumers[d], c)
    <3>1. consumers[d] \in Seq(WaiterType) /\ Distinct(consumers[d])
      BY <2>1, QueueTypes, OwnNodes, Zenon
    <3>2. \A i \in DOMAIN consumers[d] : consumers[d][i].owner # c
      BY <2>1, <2>3, OwnNodes, ZenonT(30)
    <3> QED
      BY <3>1, <3>2, <1>RestSame, Zenon
  <2>4. CASE pc[c] = "push"
    <3>1. /\ consumers' = consumers
          /\ producers' = [producers EXCEPT ![ch] = Remove(producers[ch], c, 0)]
      BY <2>4, Zenon
    <3>2. Rest(Remove(producers[ch], c, 0), producers[ch], c)
      <4>1. producers[ch] \in Seq(WaiterType) /\ Distinct(producers[ch]) /\ 0 \in Nat
        BY <2>1, QueueTypes, OwnNodes, Zenon
      <4>2. \A i \in DOMAIN producers[ch] :
              /\ ~ producers[ch][i].freed
              /\ producers[ch][i].owner = c => producers[ch][i].index = 0
        BY <2>1, <2>4, OwnNodes
      <4>3. \A i \in DOMAIN producers[ch] :
              /\ ~ producers[ch][i].freed
              /\ producers[ch][i].owner = c => producers[ch][i].index <= 0
        BY <4>2
      <4> QED
        BY <4>1, <4>3, <1>RemoveRest, Zenon
    <3>3. Remove(producers[ch], c, 0) \in Seq(WaiterType)
      BY <3>2 DEF Rest
    <3>4. /\ producers' \in [Channel -> Seq(WaiterType)]
          /\ producers'[ch] = Remove(producers[ch], c, 0)
          /\ \A d \in Channel \ {ch} : producers'[d] = producers[d]
      BY <2>1, <3>1, <3>3, Zenon DEF TypeInv
    <3>5. consumers' \in [Channel -> Seq(WaiterType)]
      BY <2>1, <3>1, Zenon DEF TypeInv
    <3>6. \A d \in Channel : Rest(producers'[d], producers[d], c)
      BY <2>2, <2>4, <3>2, <3>4, Zenon
    <3>7. \A d \in Channel : Rest(consumers'[d], consumers[d], c)
      BY <2>3, <2>4, <3>1, ZenonT(30)
    <3> QED
      BY <3>4, <3>5, <3>6, <3>7, Zenon
  <2>5. CASE pc[c] = "pop"
    <3>1. /\ producers' = producers
          /\ consumers' = [consumers EXCEPT ![ch] = Remove(consumers[ch], c, 0)]
      BY <2>5, Zenon
    <3>2. Rest(Remove(consumers[ch], c, 0), consumers[ch], c)
      <4>1. consumers[ch] \in Seq(WaiterType) /\ Distinct(consumers[ch]) /\ 0 \in Nat
        BY <2>1, QueueTypes, OwnNodes, Zenon
      <4>2. \A i \in DOMAIN consumers[ch] :
              /\ ~ consumers[ch][i].freed
              /\ consumers[ch][i].owner = c => consumers[ch][i].index = 0
        BY <2>1, <2>5, OwnNodes
      <4>3. \A i \in DOMAIN consumers[ch] :
              /\ ~ consumers[ch][i].freed
              /\ consumers[ch][i].owner = c => consumers[ch][i].index <= 0
        BY <4>2
      <4> QED
        BY <4>1, <4>3, <1>RemoveRest, Zenon
    <3>3. Remove(consumers[ch], c, 0) \in Seq(WaiterType)
      BY <3>2 DEF Rest
    <3>4. /\ consumers' \in [Channel -> Seq(WaiterType)]
          /\ consumers'[ch] = Remove(consumers[ch], c, 0)
          /\ \A d \in Channel \ {ch} : consumers'[d] = consumers[d]
      BY <2>1, <3>1, <3>3, ZenonT(30) DEF TypeInv
    <3>5. producers' \in [Channel -> Seq(WaiterType)]
      BY <2>1, <3>1 DEF TypeInv
    <3>6. \A d \in Channel : Rest(consumers'[d], consumers[d], c)
      BY <2>3, <2>5, <3>2, <3>4, Zenon
    <3>7. \A d \in Channel : Rest(producers'[d], producers[d], c)
      BY <2>2, <2>5, <3>1, Zenon
    <3> QED
      BY <3>4, <3>5, <3>6, <3>7, Zenon
  <2> QED
    BY <2>4, <2>5, Zenon

\* The end of a push that had to wait.
<1>PushWokenKept.
     ASSUME Listing, Inv, NEW c \in Coroutine, PushWoken(c), UNCHANGED use
     PROVE  Inv'
  <2> USE <1>PushWokenKept
  <2>1. TypeInv /\ QueueInv /\ Running(chain) = c /\ pc[c] = "push" /\ Return(c)
    BY Zenon DEF Inv, PushWoken, At
  <2>2. PICK ch \in Channel : ch = op[c].channel
    BY <2>1 DEF TypeInv, OpType
  <2>3. /\ producers' = [producers EXCEPT ![ch] = Remove(producers[ch], c, 0)]
        /\ consumers' = consumers /\ closed' = closed /\ pushes' = pushes
        /\ \/ /\ c \in timedout \/ (IF IsUnbuffered(ch) THEN ~ able[ch] ELSE IsFull(ch))
              /\ Finished(c, "false") /\ Returned(c) /\ UNCHANGED data
           \/ /\ c \notin timedout /\ IF IsUnbuffered(ch) THEN able[ch] ELSE ~ IsFull(ch)
              /\ Finished(c, "true") /\ PushData(c, ch, op[c].value)
    BY <2>2, Zenon DEF PushWoken
  <2>4. /\ producers' \in [Channel -> Seq(WaiterType)]
        /\ consumers' \in [Channel -> Seq(WaiterType)]
        /\ \A d \in Channel : Rest(producers'[d], producers[d], c)
                              /\ Rest(consumers'[d], consumers[d], c)
    BY <2>1, <2>2, <2>3, <1>WaitQueues, Zenon
  <2>5. Quiet \/ (c \notin timedout /\ Popped(c, ch))
    <3>1. ASSUME NEW d \in Channel PROVE ~ Pushed(c, d) /\ (Popped(c, d) => d = ch)
      BY <2>1, <2>2, Zenon DEF Pushed, Popped, Resumed
    <3> QED
      BY <2>1, <3>1, WokenMode
  <2>6. HasProducers(ch) /\ op[c].value # 0
    <3>1. HasProducers(ch)
      BY <2>1, <2>2, WaiterQueued, Zenon
    <3>2. op[c].value # 0
      BY <2>1, Zenon DEF Inv, ValueInv, ValueOK
    <3> QED
      BY <3>1, <3>2
  <2>7. pc[c] \in InWait /\ pc[c] \in Pending /\ pc[c] \in {"push", "select"}
    BY <2>1 DEF InWait, Pending
  <2>8. CASE /\ c \in timedout \/ (IF IsUnbuffered(ch) THEN ~ able[ch] ELSE IsFull(ch))
             /\ Finished(c, "false") /\ Returned(c) /\ UNCHANGED data
    <3>1. Quiet
      BY <2>5, <2>8 DEF Popped
    <3>2. FailEnds(c)
      BY <2>1, <2>3, <2>4, <2>7, <2>8, <3>1, Zenon
      DEF FailEnds, Departs
    <3> QED
      BY <3>2, DataKept, ZenonT(30)
  <2>9. CASE /\ c \notin timedout /\ IF IsUnbuffered(ch) THEN able[ch] ELSE ~ IsFull(ch)
             /\ Finished(c, "true") /\ PushData(c, ch, op[c].value)
    <3>1. \/ Popped(c, ch)
          \/ ~ IsUnbuffered(ch) /\ Quiet /\ closed[ch] /\ HasProducers(ch) /\ ~ IsFull(ch)
      BY <2>5, <2>6, <2>9, Zenon DEF Quiet, QuietOn
    <3>2. PushEnds(c, ch)
      BY <2>1, <2>3, <2>4, <2>6, <2>7, <2>9, <3>1, Zenon
      DEF PushEnds, Departs
    <3> QED
      BY <3>1, <3>2, DataKept, Zenon
  <2> QED
    BY <2>3, <2>8, <2>9

\* The end of a pop that had to wait.
<1>PopWokenKept.
     ASSUME Listing, Inv, NEW c \in Coroutine, PopWoken(c), UNCHANGED use
     PROVE  Inv'
  <2> USE <1>PopWokenKept
  <2>1. TypeInv /\ QueueInv /\ Running(chain) = c /\ pc[c] = "pop" /\ Return(c)
    BY Zenon DEF Inv, PopWoken, At
  <2>2. PICK ch \in Channel : ch = op[c].channel
    BY <2>1 DEF TypeInv, OpType
  <2>3. /\ consumers' = [consumers EXCEPT ![ch] = Remove(consumers[ch], c, 0)]
        /\ producers' = producers /\ closed' = closed /\ pushes' = pushes /\ status' = status
        /\ \/ /\ c \in timedout \/ (IF IsUnbuffered(ch) THEN ~ able[ch] ELSE IsEmpty(ch))
              /\ Returned(c) /\ UNCHANGED data
           \/ /\ c \notin timedout /\ IF IsUnbuffered(ch) THEN able[ch] ELSE ~ IsEmpty(ch)
              /\ PopData(c, ch)
    BY <2>2, Zenon DEF PopWoken
  <2>4. /\ producers' \in [Channel -> Seq(WaiterType)]
        /\ consumers' \in [Channel -> Seq(WaiterType)]
        /\ \A d \in Channel : Rest(producers'[d], producers[d], c)
                              /\ Rest(consumers'[d], consumers[d], c)
    BY <2>1, <2>2, <2>3, <1>WaitQueues, Zenon
  <2>5. Quiet \/ (c \notin timedout /\ Pushed(c, ch))
    <3>1. ASSUME NEW d \in Channel PROVE ~ Popped(c, d) /\ (Pushed(c, d) => d = ch)
      BY <2>1, <2>2, Zenon DEF Pushed, Popped, Resumed
    <3> QED
      BY <2>1, <3>1, WokenMode
  <2>6. HasConsumers(ch)
    BY <2>1, <2>2, WaiterQueued, Zenon
  <2>7. pc[c] \in InWait
    BY <2>1, Zenon DEF InWait
  <2>8. CASE /\ c \in timedout \/ (IF IsUnbuffered(ch) THEN ~ able[ch] ELSE IsEmpty(ch))
             /\ Returned(c) /\ UNCHANGED data
    <3>1. Quiet
      <4>1. Pushed(c, ch) => IF IsUnbuffered(ch) THEN able[ch] ELSE ~ IsEmpty(ch)
        <5>1. storage[ch] \in Seq(Value)
          BY <2>1 DEF TypeInv
        <5>2. Len(storage[ch]) = 1 => Len(storage[ch]) # 0
          OBVIOUS
        <5>3. Len(storage[ch]) = 1 => ~ IsEmpty(ch)
          BY <5>1, <5>2, EmptyLength, Zenon DEF IsEmpty
        <5> QED
          BY <5>3, Zenon DEF Pushed
      <4> QED
        BY <2>5, <2>8, <4>1, Zenon
    <3>2. FailEnds(c)
      BY <2>1, <2>3, <2>4, <2>7, <2>8, <3>1, ZenonT(30)
      DEF FailEnds, Departs
    <3> QED
      BY <3>2, DataKept, Zenon
  <2>9. CASE /\ c \notin timedout /\ IF IsUnbuffered(ch) THEN able[ch] ELSE ~ IsEmpty(ch)
             /\ PopData(c, ch)
    <3>1. Pushed(c, ch)
      BY <2>5, <2>6, <2>9 DEF Quiet, QuietOn
    <3>2. PopEnds(c, ch)
      BY <2>1, <2>3, <2>4, <2>9, <3>1, ZenonT(30)
      DEF PopEnds, Departs
    <3> QED
      BY <3>1, <3>2, DataKept, ZenonT(30)
  <2> QED
    BY <2>3, <2>8, <2>9, Zenon

\* A select() that is woken takes all its dummies out of the queues.
<1>SelectQueues.
     ASSUME Listing, Inv, NEW c \in Coroutine, pc[c] = "select", NEW last \in Nat,
            DOMAIN op[c].requests = 1..last,
            producers' = [d \in Channel |-> Remove(producers[d], c, last)],
            consumers' = [d \in Channel |-> Remove(consumers[d], c, last)]
     PROVE  /\ producers' \in [Channel -> Seq(WaiterType)]
            /\ consumers' \in [Channel -> Seq(WaiterType)]
            /\ \A d \in Channel : /\ Rest(producers'[d], producers[d], c)
                                  /\ Rest(consumers'[d], consumers[d], c)
  <2> USE <1>SelectQueues
  <2>1. TypeInv /\ QueueInv
    BY Zenon DEF Inv
  <2>2. ASSUME NEW d \in Channel
        PROVE  /\ Rest(Remove(producers[d], c, last), producers[d], c)
               /\ Rest(Remove(consumers[d], c, last), consumers[d], c)
    <3>1. /\ producers[d] \in Seq(WaiterType) /\ Distinct(producers[d])
          /\ consumers[d] \in Seq(WaiterType) /\ Distinct(consumers[d])
      BY <2>1, QueueTypes, OwnNodes
    <3>2. /\ \A i \in DOMAIN producers[d] :
               /\ ~ producers[d][i].freed
               /\ producers[d][i].owner = c => producers[d][i].index \in 1..last
          /\ \A i \in DOMAIN consumers[d] :
               /\ ~ consumers[d][i].freed
               /\ consumers[d][i].owner = c => consumers[d][i].index \in 1..last
      BY <2>1, OwnNodes, ZenonT(30)
    <3>3. /\ \A i \in DOMAIN producers[d] :
               /\ ~ producers[d][i].freed
               /\ producers[d][i].owner = c => producers[d][i].index <= last
          /\ \A i \in DOMAIN consumers[d] :
               /\ ~ consumers[d][i].freed
               /\ consumers[d][i].owner = c => consumers[d][i].index <= last
      BY <3>2
    <3>4. Rest(Remove(producers[d], c, last), producers[d], c)
      BY <3>1, <3>3, <1>RemoveRest, Zenon
    <3>5. Rest(Remove(consumers[d], c, last), consumers[d], c)
      BY <3>1, <3>3, <1>RemoveRest, Zenon
    <3> QED
      BY <3>4, <3>5, Zenon
  <2>3. \A d \in Channel : /\ Remove(producers[d], c, last) \in Seq(WaiterType)
                           /\ Remove(consumers[d], c, last) \in Seq(WaiterType)
    BY <2>2, Zenon DEF Rest
  <2>4. producers' \in [Channel -> Seq(WaiterType)] /\ consumers' \in [Channel -> Seq(WaiterType)]
    BY <2>3, Zenon
  <2>5. \A d \in Channel : /\ Rest(producers'[d], producers[d], c)
                           /\ Rest(consumers'[d], consumers[d], c)
    BY <2>2
  <2> QED
    BY <2>4, <2>5, Zenon

\* The end of a select() that had to wait.
<1>SelectWokenKept.
     ASSUME Listing, CloseApart, Inv, NEW c \in Coroutine, SelectWoken(c), UNCHANGED use
     PROVE  Inv'
  <2> USE <1>SelectWokenKept
  <2>1. TypeInv /\ QueueInv /\ Running(chain) = c /\ pc[c] = "select" /\ Return(c)
    BY Zenon DEF Inv, SelectWoken, At
  <2>2. "select" \in use /\ \A d \in Channel : ~ closed[d]
    BY <2>1, SelectOpen, Zenon DEF TypeInv
  <2>3. PICK requests \in Seq(Request) : requests = op[c].requests
    <3>1. op[c].requests \in Selects \cup {<< >>}
      BY <2>1 DEF TypeInv, OpType
    <3>2. << >> \in Seq(Request)
      OBVIOUS
    <3> QED
      BY <3>1, <3>2, SelectsAssumption, Zenon
  <2>4. Len(requests) \in Nat /\ DOMAIN requests = 1..Len(requests)
    OBVIOUS
  <2>5. \A i \in DOMAIN requests : requests[i].channel \in Channel
    <3>1. \A i \in DOMAIN requests : requests[i] \in Request
      OBVIOUS
    <3>2. \A r \in Request : r.channel \in Channel
      BY DEF Request
    <3> QED
      BY <3>1, <3>2, Zenon
  <2>6. Fired(c) \subseteq DOMAIN requests
    BY <2>1, <2>3, FiredIs, Zenon
  <2>7. LastRemoved(c) = Len(requests)
    <3>1. { i \in Fired(c) : closed[op[c].requests[i].channel] } = {}
      BY <2>2, <2>3, <2>5, <2>6, Zenon
    <3> QED
      BY <2>3, <3>1, Zenon DEF LastRemoved
  <2>8. /\ producers' = [d \in Channel |-> Remove(producers[d], c, Len(requests))]
        /\ consumers' = [d \in Channel |-> Remove(consumers[d], c, Len(requests))]
        /\ closed' = closed /\ pushes' = pushes
        /\ \/ /\ \A i \in Fired(c) : closed[requests[i].channel]
              /\ Finished(c, "false") /\ Returned(c) /\ UNCHANGED data
           \/ \E i \in Fired(c) :
                \/ /\ requests[i].opcode = "PUSH" /\ Finished(c, "true")
                   /\ PushData(c, requests[i].channel, op[c].value)
                \/ /\ requests[i].opcode = "POP" /\ Finished(c, "false")
                   /\ PopData(c, requests[i].channel)
    BY <2>3, <2>7, Zenon DEF SelectWoken
  <2>9. /\ producers' \in [Channel -> Seq(WaiterType)]
        /\ consumers' \in [Channel -> Seq(WaiterType)]
        /\ \A d \in Channel : Rest(producers'[d], producers[d], c)
                              /\ Rest(consumers'[d], consumers[d], c)
    BY <2>1, <2>3, <2>4, <2>8, <1>SelectQueues, ZenonT(30)
  <2>10. pc[c] \in InWait /\ pc[c] \in Pending /\ pc[c] \in {"push", "select"}
    BY <2>1 DEF InWait, Pending
  <2>11. CASE /\ \A i \in Fired(c) : closed[requests[i].channel]
              /\ Finished(c, "false") /\ Returned(c) /\ UNCHANGED data
    <3>1. Fired(c) = {}
      BY <2>2, <2>5, <2>6, <2>11, Zenon
    <3>2. Quiet
      BY <2>1, <3>1, FiredIs, Zenon
    <3>3. FailEnds(c)
      BY <2>1, <2>8, <2>9, <2>10, <2>11, <3>2, ZenonT(30)
      DEF FailEnds, Departs
    <3> QED
      BY <3>3, DataKept, ZenonT(30)
  <2>12. ASSUME NEW i \in Fired(c)
         PROVE  /\ requests[i].opcode = "PUSH" => /\ Popped(c, requests[i].channel)
                                                  /\ op[c].value # 0
                /\ requests[i].opcode = "POP" => Pushed(c, requests[i].channel)
    <3>1. PICK ch \in Channel :
            \/ requests[i] = [channel |-> ch, opcode |-> "POP"] /\ Pushed(c, ch)
            \/ requests[i] = [channel |-> ch, opcode |-> "PUSH"] /\ Popped(c, ch)
      BY <2>1, <2>3, FiredIs, Zenon
    <3>2. requests[i].opcode = "PUSH" => op[c].value # 0
      BY <2>1, <2>3, <2>6, ZenonT(30) DEF TypeInv, Pushes
    <3>3. requests[i] = [channel |-> ch, opcode |-> "POP"] =>
            requests[i].opcode = "POP" /\ requests[i].channel = ch
      OBVIOUS
    <3>4. requests[i] = [channel |-> ch, opcode |-> "PUSH"] =>
            requests[i].opcode = "PUSH" /\ requests[i].channel = ch
      OBVIOUS
    <3> QED
      BY <3>1, <3>2, <3>3, <3>4, Zenon
  <2>13. ASSUME NEW i \in Fired(c), requests[i].opcode = "PUSH", Finished(c, "true"),
                PushData(c, requests[i].channel, op[c].value)
         PROVE  Inv'
    <3>1. Popped(c, requests[i].channel) /\ op[c].value # 0 /\ requests[i].channel \in Channel
      BY <2>5, <2>6, <2>12, <2>13, Zenon
    <3>2. PushEnds(c, requests[i].channel)
      BY <2>1, <2>8, <2>9, <2>10, <2>13, <3>1, ZenonT(30)
      DEF PushEnds, Departs
    <3> QED
      BY <3>1, <3>2, DataKept, Zenon
  <2>14. ASSUME NEW i \in Fired(c), requests[i].opcode = "POP", Finished(c, "false"),
                PopData(c, requests[i].channel)
         PROVE  Inv'
    <3>1. Pushed(c, requests[i].channel) /\ requests[i].channel \in Channel
      BY <2>5, <2>6, <2>12, <2>14, Zenon
    <3>2. PopEnds(c, requests[i].channel)
      BY <2>1, <2>8, <2>9, <2>14, <3>1, Zenon
      DEF PopEnds, Departs
    <3> QED
      BY <3>1, <3>2, DataKept, Zenon
  <2> QED
    BY <2>8, <2>11, <2>13, <2>14, Zenon

<1> QED
  BY <1>PushWokenKept, <1>PopWokenKept, <1>SelectWokenKept, Zenon

=============================================================================
