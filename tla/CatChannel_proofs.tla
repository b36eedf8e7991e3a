------------------------- MODULE CatChannel_proofs -------------------------
(***************************************************************************)
(* Proofs about CatChannel: the queues of waiters are exact, the           *)
(* assertions of push and pop hold, a close leaves nobody waiting, a push  *)
(* tells the truth, and every channel implements ChannelSpec.              *)
(*                                                                         *)
(* All of it rests on who runs.  A waiter that is notified runs at once    *)
(* and takes what it was notified of before anybody else does anything:    *)
(* at any time the channels are quiet, or one notification is on its way.  *)
(***************************************************************************)
EXTENDS CatChannel, CoroutineChain_proofs

\* No program both closes channels and selects on them (it would run into the
\* assertion of cat_channel_resume_waiter(), see ResumeWaiterAssert).
CloseApart == \A u \in Uses : ~ ({"close", "select"} \subseteq u)

\* No select() both pushes to and pops from one unbuffered channel.
OneWay ==
  \A r \in Selects : \A i, j \in DOMAIN r :
    r[i].channel = r[j].channel /\ IsUnbuffered(r[i].channel) => r[i].opcode = r[j].opcode

-----------------------------------------------------------------------------
\* The invariant.

InWait == {"push", "pop", "select"}

OpType == [channel : Channel, value : 0..MaxPush, timed : BOOLEAN, cleanup : BOOLEAN,
           requests : Selects \cup {<< >>}]

\* A select() with such requests may push.
Pushes(requests) == \E i \in DOMAIN requests : requests[i].opcode = "PUSH"

TypeInv ==
  /\ RunChain(chain)
  /\ pc \in [Coroutine -> Where]
  /\ op \in [Coroutine -> OpType]
  /\ closed \in [Channel -> BOOLEAN]
  /\ able \in [Channel -> BOOLEAN]
  /\ producers \in [Channel -> Seq(WaiterType)]
  /\ consumers \in [Channel -> Seq(WaiterType)]
  /\ storage \in [Channel -> Seq(Value)]
  /\ received \in [Channel -> Seq(Value)]
  /\ slot \in [Channel -> Coroutine \cup 0..MaxPush]
  /\ pushes \in 0..MaxPush
  /\ status \in [Value -> {"none", "pending", "true", "false"}]
  /\ use \in Uses
  /\ \A ch \in Channel : closed[ch] => "close" \in use
  /\ \A c \in Coroutine : pc[c] = "select" => "select" \in use
  /\ \A c \in Coroutine : pc[c] = "select" /\ Pushes(op[c].requests) => op[c].value # 0
  /\ \A c \in Coroutine : pc[c] \in {"close_p", "close_c"} => closed[op[c].channel]
  /\ \A ch \in Channel : Len(storage[ch]) <= capacity[ch]

\* Only a waiter that runs has a timer that has fired.
TimerInv ==
  \A c \in timedout : c \in Coroutine /\ Running(chain) = c /\ pc[c] \in InWait

\* The node e of a queue of ch: that of a push (or pop), or of a request of a select.
\* (p stands for pc and o for op.)
Accounted(e, ch, where, opcode, p, o) ==
  \/ e.index = 0 /\ ~ e.fired /\ p[e.owner] = where /\ o[e.owner].channel = ch
  \/ /\ p[e.owner] = "select" /\ e.index \in DOMAIN o[e.owner].requests
     /\ o[e.owner].requests[e.index] = [channel |-> ch, opcode |-> opcode]

Distinct(q) ==
  \A i, j \in DOMAIN q : q[i].owner = q[j].owner /\ q[i].index = q[j].index => i = j

HasNode(q, c, k) == \E i \in DOMAIN q : q[i].owner = c /\ q[i].index = k

\* The queue q of ch has a node for each waiter, and no other.
QueueOK(q, ch, where, opcode, p, o, run) ==
  /\ Distinct(q)
  /\ \A i \in DOMAIN q :
       /\ ~ q[i].freed /\ (q[i].fired => q[i].owner = run)
       /\ Accounted(q[i], ch, where, opcode, p, o)
  /\ \A c \in Coroutine :
       /\ p[c] = where /\ o[c].channel = ch => HasNode(q, c, 0)
       /\ p[c] = "select" =>
            \A k \in DOMAIN o[c].requests :
              o[c].requests[k] = [channel |-> ch, opcode |-> opcode] => HasNode(q, c, k)

QueueInv ==
  \A ch \in Channel :
    /\ QueueOK(producers[ch], ch, "push", "PUSH", pc, op, Running(chain))
    /\ QueueOK(consumers[ch], ch, "pop", "POP", pc, op, Running(chain))

\* The waiters of a channel that has been closed are those of a close() under way.
CloseInv ==
  \A ch \in Channel : closed[ch] =>
    /\ HasProducers(ch) => \E c \in Coroutine : pc[c] = "close_p" /\ op[c].channel = ch
    /\ HasConsumers(ch) => \E c \in Coroutine : pc[c] \in {"close_p", "close_c"}
                                                /\ op[c].channel = ch

-----------------------------------------------------------------------------
\* The notifications.

\* No notification is on its way about ch.
QuietOn(ch) ==
  /\ ~ able[ch]
  /\ ~ IsUnbuffered(ch) =>
       /\ HasConsumers(ch) => IsEmpty(ch) /\ ~ HasProducers(ch)
       /\ HasProducers(ch) /\ ~ closed[ch] => IsFull(ch)

\* No dummy has been resumed.
AllIdle(q) == \A i \in DOMAIN q : ~ q[i].fired

NoneFired == \A ch \in Channel : AllIdle(producers[ch]) /\ AllIdle(consumers[ch])

\* The only dummies that have been resumed are for the request i, and r has one in q.
OnlyIndex(q, i) == \A k \in DOMAIN q : q[k].fired => q[k].index = i

OnlyFired(q, r, i) ==
  /\ \A ch \in Channel : OnlyIndex(producers[ch], i) /\ OnlyIndex(consumers[ch], i)
  /\ \E k \in DOMAIN q : q[k].fired /\ q[k].owner = r /\ q[k].index = i

Quiet == NoneFired /\ \A ch \in Channel : QuietOn(ch)

\* r has been resumed as a waiter of the queue q of ch.
Resumed(r, q, ch, where, opcode) ==
  /\ Running(chain) = r /\ r \notin timedout
  /\ \/ pc[r] = where /\ op[r].channel = ch /\ NoneFired
     \/ /\ pc[r] = "select"
        /\ \E i \in DOMAIN op[r].requests :
             op[r].requests[i] = [channel |-> ch, opcode |-> opcode] /\ OnlyFired(q, r, i)

\* A push has notified the consumer r: of the value in the slot of an unbuffered
\* channel, or of the only one stored.
Pushed(r, ch) ==
  /\ Resumed(r, consumers[ch], ch, "pop", "POP") /\ HasConsumers(ch)
  /\ ~ IsUnbuffered(ch) => ~ able[ch] /\ Len(storage[ch]) = 1 /\ ~ HasProducers(ch)
  /\ IsUnbuffered(ch) => able[ch] /\ slot[ch] \in 1..pushes
  /\ \A d \in Channel \ {ch} : QuietOn(d)

\* A pop has notified the producer r: of where its value goes, or of the room it
\* has made.
Popped(r, ch) ==
  /\ Resumed(r, producers[ch], ch, "push", "PUSH") /\ HasProducers(ch)
  /\ ~ IsUnbuffered(ch) =>
       /\ ~ able[ch] /\ ~ IsFull(ch) /\ ~ HasConsumers(ch)
       /\ closed[ch] \/ Len(storage[ch]) + 1 = capacity[ch]
  /\ IsUnbuffered(ch) =>
       /\ able[ch] /\ slot[ch] \in Coroutine
       /\ pc[slot[ch]] = "popped" /\ op[slot[ch]].channel = ch
  /\ \A d \in Channel \ {ch} : QuietOn(d)

ModeInv ==
  \/ Quiet
  \/ \E r \in Coroutine, ch \in Channel : Pushed(r, ch) \/ Popped(r, ch)

\* The data of an unbuffered channel have passed through its slot.
PassQuiet ==
  \A c \in Coroutine : IsUnbuffered(op[c].channel) =>
    /\ pc[c] = "pushed" => op[c].value \in Range(received[op[c].channel])
    /\ pc[c] = "popped" => op[c].value # 0

\* They have, or the notification is on its way.
PassInv ==
  \A c \in Coroutine :
    LET ch == op[c].channel IN
    IsUnbuffered(ch) =>
      /\ pc[c] = "pushed" =>
           \/ op[c].value \in Range(received[ch])
           \/ \E r \in Coroutine : Pushed(r, ch) /\ slot[ch] = op[c].value
      /\ pc[c] = "popped" =>
           \/ op[c].value # 0
           \/ \E r \in Coroutine : Popped(r, ch) /\ slot[ch] = c

-----------------------------------------------------------------------------
\* The values.

\* The value v is on its way from a push to the consumer that was notified.
InSlot(v) ==
  \E r \in Coroutine, ch \in Channel : Pushed(r, ch) /\ IsUnbuffered(ch) /\ slot[ch] = v

Pending == {"push", "select", "pushed"}

\* W are the values on their way.
ValueOK(W) ==
  /\ \A c \in Coroutine : pc[c] \in {"push", "pushed"} => op[c].value # 0
  /\ \A c \in Coroutine : pc[c] \in Pending /\ op[c].value # 0 =>
       op[c].value <= pushes /\ status[op[c].value] = "pending"
  /\ \A c, d \in Coroutine :
       /\ pc[c] \in Pending /\ pc[d] \in Pending
       /\ op[c].value = op[d].value /\ op[c].value # 0
       => c = d
  /\ \A c \in Coroutine : pc[c] \in {"push", "select"} /\ op[c].value # 0 =>
       op[c].value \notin Everywhere /\ op[c].value \notin W
  /\ \A v \in W : /\ v \notin Everywhere
                 /\ \E c \in Coroutine : pc[c] = "pushed" /\ op[c].value = v
  /\ \A v \in Value : v > pushes => status[v] = "none" /\ v \notin Everywhere
  /\ \A v \in Value : status[v] = "false" => v \notin Everywhere
  /\ (\A ch \in Channel : ~ closed[ch]) =>
       /\ \A v \in Value : status[v] = "true" => v \in Everywhere
       /\ \A c \in Coroutine : pc[c] = "pushed" =>
            op[c].value \in Everywhere \/ op[c].value \in W

ValueInv == ValueOK({ v \in Value : InSlot(v) })

Inv == TypeInv /\ TimerInv /\ QueueInv /\ CloseInv /\ ModeInv /\ PassInv /\ ValueInv

-----------------------------------------------------------------------------
\* Sequences.

\* Ascending() lists the elements of a set of positions, each once.  That takes an
\* induction; CatChannelCorrect_proofs has it (AscendingLists).
Listing ==
  \A n \in Nat : \A S \in SUBSET (1..n) :
    /\ Ascending(S, n) \in Seq(S)
    /\ \A x \in S : \E i \in DOMAIN Ascending(S, n) : Ascending(S, n)[i] = x
    /\ \A i, j \in DOMAIN Ascending(S, n) : Ascending(S, n)[i] = Ascending(S, n)[j] => i = j

\* The nodes of a queue.
LEMMA NodeType ==
  ASSUME NEW q \in Seq(WaiterType)
  PROVE  \A i \in DOMAIN q : /\ q[i] \in WaiterType /\ q[i].owner \in Coroutine
                             /\ q[i].index \in Nat
<1>1. \A i \in DOMAIN q : q[i] \in WaiterType
  OBVIOUS
<1>2. \A e \in WaiterType : e.owner \in Coroutine /\ e.index \in Nat
  BY DEF WaiterType
<1> QED
  BY <1>1, <1>2

\* A step of c leaves the operations of the others alone.
Others(c, p, p2, o, o2) ==
  \A d \in Coroutine \ {c} :
    p2[d] = p[d] /\ o2[d].channel = o[d].channel /\ o2[d].requests = o[d].requests

\* The arguments of a coroutine that is in no operation.
LEMMA NoOpType ==
  /\ NoOp \in OpType /\ NoOp.channel \in Channel /\ NoOp.value = 0 /\ NoOp.requests = << >>
  /\ ~ NoOp.timed
BY ChannelAssumption, MaxPushAssumption DEF NoOp, OpType

\* The arguments of a push.
LEMMA PushArgsType ==
  ASSUME NEW ch \in Channel, NEW v \in Value, NEW timed \in BOOLEAN
  PROVE  /\ PushArgs(ch, v, timed) \in OpType /\ PushArgs(ch, v, timed).channel = ch
         /\ PushArgs(ch, v, timed).value = v /\ PushArgs(ch, v, timed).requests = << >>
<1>1. v \in 0..MaxPush
  BY MaxPushAssumption DEF Value
<1> QED
  BY <1>1, Zenon DEF NoOp, OpType, PushArgs

\* The arguments of a pop.
LEMMA PopArgsType ==
  ASSUME NEW ch \in Channel, NEW timed \in BOOLEAN
  PROVE  /\ PopArgs(ch, timed) \in OpType /\ PopArgs(ch, timed).channel = ch
         /\ PopArgs(ch, timed).value = 0 /\ PopArgs(ch, timed).requests = << >>
<1>1. 0 \in 0..MaxPush
  BY MaxPushAssumption
<1> QED
  BY <1>1, Zenon DEF NoOp, OpType, PopArgs

\* Nothing is on its way unless a waiter runs.
LEMMA QuietNow ==
  ASSUME ModeInv, \A c \in Coroutine : Running(chain) = c => pc[c] \notin InWait
  PROVE  Quiet
BY Zenon DEF ModeInv, Pushed, Popped, Resumed, InWait

\* Nor has a timer fired.
LEMMA NoTimeout ==
  ASSUME TimerInv, \A c \in Coroutine : Running(chain) = c => pc[c] \notin InWait
  PROVE  timedout = {}
BY DEF TimerInv

\* Where nothing is on its way the slots are empty.
LEMMA QuietForms == TypeInv /\ Quiet => (PassInv <=> PassQuiet) /\ (ValueInv <=> ValueOK({}))
<1> SUFFICES ASSUME TypeInv, Quiet PROVE (PassInv <=> PassQuiet) /\ (ValueInv <=> ValueOK({}))
  OBVIOUS
<1>1. \A r, ch : ch \in Channel /\ IsUnbuffered(ch) => ~ Pushed(r, ch) /\ ~ Popped(r, ch)
  BY DEF Quiet, QuietOn, Pushed, Popped
<1>2. { v \in Value : InSlot(v) } = {}
  BY <1>1 DEF InSlot
<1>3. \A c \in Coroutine : op[c].channel \in Channel
  BY Zenon DEF TypeInv, OpType
<1>4. PassInv <=> PassQuiet
  BY <1>1, <1>3 DEF PassInv, PassQuiet
<1> QED
  BY <1>2, <1>4, Zenon DEF ValueInv

\* The same in the next state.
LEMMA QuietFormsNext ==
  TypeInv' /\ Quiet' => (PassInv' <=> PassQuiet') /\ (ValueInv' <=> ValueOK({})')
BY QuietForms, PTL

\* A quiet step.
LEMMA QuietStep ==
  ASSUME TypeInv', TimerInv', QueueInv', CloseInv', Quiet', PassQuiet', ValueOK({})'
  PROVE  Inv'
BY QuietFormsNext DEF Inv, ModeInv

\* What holds while somebody runs who does not wait.
LEMMA QuietInv ==
  ASSUME Inv, \A c \in Coroutine : Running(chain) = c => pc[c] \notin InWait
  PROVE  /\ TypeInv /\ TimerInv /\ QueueInv /\ CloseInv /\ Quiet /\ PassQuiet /\ ValueOK({})
         /\ timedout = {}
BY QuietNow, NoTimeout, QuietForms DEF Inv

-----------------------------------------------------------------------------
\* A coroutine begins to wait.

\* The nodes that c, which begins to wait, has in the queue are those of `new'.
NewNodes(new, ch, where, opcode, p, o, c) ==
  /\ new \in Seq(WaiterType) /\ Distinct(new)
  /\ \A i \in DOMAIN new : /\ new[i].owner = c /\ ~ new[i].freed /\ ~ new[i].fired
                           /\ Accounted(new[i], ch, where, opcode, p, o)
  /\ p[c] = where /\ o[c].channel = ch => HasNode(new, c, 0)
  /\ p[c] = "select" =>
       \A k \in DOMAIN o[c].requests :
         o[c].requests[k] = [channel |-> ch, opcode |-> opcode] => HasNode(new, c, k)

SelectArgs(requests, v, timed) ==
  [NoOp EXCEPT !.requests = requests, !.value = v, !.timed = timed]

\* c takes a new value for a push, or none.
Takes(v, st) ==
  \/ v = 0 /\ pushes' = pushes /\ status' = status
  \/ v \in Value /\ v = pushes + 1 /\ pushes' = v /\ status' = [status EXCEPT ![v] = st]

\* A node is appended.
LEMMA AppendConcat ==
  ASSUME NEW S, NEW q \in Seq(S), NEW w \in S
  PROVE  Append(q, w) = q \o << w >>
OBVIOUS

\* A step that switches between coroutines keeps the invariant, and so does a push, a pop or a
\* select that begins to wait.
LEMMA WaitsKept ==
  ASSUME Listing, Inv, UNCHANGED use
  PROVE  \A c \in Coroutine :
           /\ Sleep(c) \/ (\E target \in Coroutine : Resume(c, target)) \/ Wakeup(c) \/ Timeout(c)
                => Inv'
           /\ \A ch \in Channel, timed \in BOOLEAN :
                PushWait(c, ch, timed) \/ PopWait(c, ch, timed) => Inv'
           /\ "select" \in use =>
                \A requests \in Selects, timed \in BOOLEAN : SelectWait(c, requests, timed) => Inv'
\* The concatenation of two queues.
<1>Concat.
     ASSUME NEW q \in Seq(WaiterType), NEW new \in Seq(WaiterType)
     PROVE  /\ q \o new \in Seq(WaiterType)
            /\ \A i \in DOMAIN (q \o new) :
                 \/ i \in DOMAIN q /\ (q \o new)[i] = q[i]
                 \/ i - Len(q) \in DOMAIN new /\ i > Len(q) /\ (q \o new)[i] = new[i - Len(q)]
            /\ \A i \in DOMAIN q : i \in DOMAIN (q \o new) /\ (q \o new)[i] = q[i]
            /\ \A i \in DOMAIN new : /\ i + Len(q) \in DOMAIN (q \o new)
                                     /\ (q \o new)[i + Len(q)] = new[i]
  <2> USE <1>Concat
  <2>1. /\ q \o new \in Seq(WaiterType) /\ Len(q) \in Nat /\ Len(new) \in Nat
        /\ DOMAIN q = 1..Len(q) /\ DOMAIN new = 1..Len(new)
        /\ Len(q \o new) = Len(q) + Len(new) /\ DOMAIN (q \o new) = 1..(Len(q) + Len(new))
    OBVIOUS
  <2>2. \A i \in 1..(Len(q) + Len(new)) :
          (q \o new)[i] = IF i <= Len(q) THEN q[i] ELSE new[i - Len(q)]
    BY <2>1
  <2>3. PICK m \in Nat, n \in Nat : m = Len(q) /\ n = Len(new)
    BY <2>1, Zenon
  <2>4. /\ \A i \in 1..(m + n) : i \in 1..m \/ (i - m \in 1..n /\ i > m /\ ~ (i <= m))
        /\ \A i \in 1..m : i \in 1..(m + n) /\ i <= m
        /\ \A i \in 1..n : i + m \in 1..(m + n) /\ ~ (i + m <= m) /\ (i + m) - m = i
    OBVIOUS
  <2>5. \A i \in 1..(m + n) :
          \/ i \in 1..m /\ (q \o new)[i] = q[i]
          \/ i - m \in 1..n /\ i > m /\ (q \o new)[i] = new[i - m]
    BY <2>2, <2>3, <2>4
  <2>6. \A i \in 1..m : i \in 1..(m + n) /\ (q \o new)[i] = q[i]
    BY <2>2, <2>3, <2>4
  <2>7. \A i \in 1..n : i + m \in 1..(m + n) /\ (q \o new)[i + m] = new[i]
    BY <2>2, <2>3, <2>4
  <2> QED
    BY <2>1, <2>3, <2>5, <2>6, <2>7

\* Nodes added to a queue that nobody has been notified of.
<1>ConcatIdle.
     ASSUME NEW q \in Seq(WaiterType), NEW new \in Seq(WaiterType)
     PROVE  /\ AllIdle(q) /\ AllIdle(new) => AllIdle(q \o new)
            /\ q \o new # << >> => q # << >> \/ new # << >>
            /\ q \o << >> = q
  <2> USE <1>ConcatIdle
  <2>1. AllIdle(q) /\ AllIdle(new) => AllIdle(q \o new)
    <3> SUFFICES ASSUME AllIdle(q), AllIdle(new), NEW i \in DOMAIN (q \o new)
                 PROVE  ~ (q \o new)[i].fired
      BY DEF AllIdle
    <3>1. CASE i \in DOMAIN q /\ (q \o new)[i] = q[i]
      BY <3>1 DEF AllIdle
    <3>2. CASE i - Len(q) \in DOMAIN new /\ (q \o new)[i] = new[i - Len(q)]
      BY <3>2 DEF AllIdle
    <3> QED
      BY <3>1, <3>2, <1>Concat
  <2>2. q \o << >> = q
    OBVIOUS
  <2> QED
    BY <2>1, <2>2

\* c joins the queue, or does not.
<1>JoinQueue.
     ASSUME NEW q \in Seq(WaiterType), NEW new, NEW ch, NEW where \in {"push", "pop"}, NEW opcode,
            NEW p, NEW o, NEW p2, NEW o2, NEW run, NEW run2, NEW c \in Coroutine,
            QueueOK(q, ch, where, opcode, p, o, run), \A i \in DOMAIN q : ~ q[i].fired,
            NewNodes(new, ch, where, opcode, p2, o2, c),
            Others(c, p, p2, o, o2), p[c] \notin InWait
     PROVE  QueueOK(q \o new, ch, where, opcode, p2, o2, run2)
  <2> USE <1>JoinQueue
  <2>1. PICK r \in Seq(WaiterType) : r = q \o new
    BY <1>Concat, Zenon DEF NewNodes
  <2>2. /\ \A i \in DOMAIN r : \/ i \in DOMAIN q /\ r[i] = q[i]
                               \/ i - Len(q) \in DOMAIN new /\ i > Len(q) /\ r[i] = new[i - Len(q)]
        /\ \A i \in DOMAIN q : i \in DOMAIN r /\ r[i] = q[i]
        /\ \A i \in DOMAIN new : i + Len(q) \in DOMAIN r /\ r[i + Len(q)] = new[i]
    BY <2>1, <1>Concat DEF NewNodes
  <2>3. ASSUME NEW i \in DOMAIN q
        PROVE  /\ q[i].owner # c /\ ~ q[i].freed /\ ~ q[i].fired
               /\ Accounted(q[i], ch, where, opcode, p2, o2)
    <3>1. q[i].owner \in Coroutine /\ Accounted(q[i], ch, where, opcode, p, o) /\ ~ q[i].freed
      BY NodeType DEF QueueOK
    <3>2. q[i].owner # c
      BY <3>1 DEF Accounted, InWait
    <3>3. Accounted(q[i], ch, where, opcode, p2, o2)
      BY <3>1, <3>2 DEF Accounted, Others
    <3> QED
      BY <3>1, <3>2, <3>3
  <2>4. \A i \in DOMAIN new : /\ new[i].owner = c /\ ~ new[i].freed /\ ~ new[i].fired
                              /\ Accounted(new[i], ch, where, opcode, p2, o2)
    BY DEF NewNodes
  <2>5. \A i \in DOMAIN r : /\ ~ r[i].freed /\ (r[i].fired => r[i].owner = run2)
                            /\ Accounted(r[i], ch, where, opcode, p2, o2)
    BY <2>2, <2>3, <2>4
  <2>6. Distinct(r)
    <3> SUFFICES ASSUME NEW i \in DOMAIN r, NEW j \in DOMAIN r,
                        r[i].owner = r[j].owner, r[i].index = r[j].index
                 PROVE  i = j
      BY DEF Distinct
    <3>1. CASE i \in DOMAIN q /\ r[i] = q[i] /\ j \in DOMAIN q /\ r[j] = q[j]
      BY <3>1 DEF QueueOK, Distinct
    <3>2. CASE /\ i - Len(q) \in DOMAIN new /\ r[i] = new[i - Len(q)]
               /\ j - Len(q) \in DOMAIN new /\ r[j] = new[j - Len(q)]
      <4>1. i - Len(q) = j - Len(q)
        BY <3>2 DEF NewNodes, Distinct
      <4>2. i \in Nat /\ j \in Nat /\ Len(q) \in Nat
        OBVIOUS
      <4> QED
        BY <4>1, <4>2
    <3> QED
      BY <2>2, <2>3, <2>4, <3>1, <3>2
  <2>7. \A d, k : HasNode(q, d, k) => HasNode(r, d, k)
    BY <2>2 DEF HasNode
  <2>8. \A k : HasNode(new, c, k) => HasNode(r, c, k)
    BY <2>2 DEF HasNode
  <2>9. ASSUME NEW d \in Coroutine
        PROVE  /\ p2[d] = where /\ o2[d].channel = ch => HasNode(r, d, 0)
               /\ p2[d] = "select" =>
                    \A k \in DOMAIN o2[d].requests :
                      o2[d].requests[k] = [channel |-> ch, opcode |-> opcode] => HasNode(r, d, k)
    <3>1. CASE d = c
      BY <2>8, <3>1 DEF NewNodes
    <3>2. CASE d # c
      BY <2>7, <3>2 DEF QueueOK, Others
    <3> QED
      BY <3>1, <3>2
  <2>10. QueueOK(r, ch, where, opcode, p2, o2, run2)
    BY <2>5, <2>6, <2>9 DEF QueueOK
  <2> QED
    BY <2>1, <2>10

\* The node of a push, or of a pop.
<1>WaiterNode.
     ASSUME NEW c \in Coroutine, NEW k \in Nat
     PROVE  /\ Waiter(c, k) \in WaiterType /\ Waiter(c, k).owner = c /\ Waiter(c, k).index = k
            /\ ~ Waiter(c, k).fired /\ ~ Waiter(c, k).freed
  BY <1>WaiterNode DEF Waiter, WaiterType

\* The node of a push or a pop.
<1>OneNode.
     ASSUME NEW c \in Coroutine, NEW ch, NEW where \in {"push", "pop"}, NEW opcode, NEW p, NEW o,
            p[c] = where, o[c].channel = ch
     PROVE  NewNodes(<< Waiter(c, 0) >>, ch, where, opcode, p, o, c)
  <2> USE <1>OneNode
  <2>1. PICK e \in WaiterType : /\ e = Waiter(c, 0) /\ e.owner = c /\ e.index = 0
                                /\ ~ e.fired /\ ~ e.freed
    BY <1>WaiterNode
  <2>2. /\ << e >> \in Seq(WaiterType) /\ DOMAIN << e >> = {1} /\ << e >>[1] = e
    OBVIOUS
  <2>3. Accounted(e, ch, where, opcode, p, o)
    BY <2>1 DEF Accounted
  <2>4. HasNode(<< e >>, c, 0)
    BY <2>1, <2>2 DEF HasNode
  <2>5. Distinct(<< e >>)
    BY <2>2 DEF Distinct
  <2>6. where # "select"
    OBVIOUS
  <2>7. NewNodes(<< e >>, ch, where, opcode, p, o, c)
    BY <2>1, <2>2, <2>3, <2>4, <2>5, <2>6, Zenon DEF NewNodes
  <2> QED
    BY <2>1, <2>7

\* c waits elsewhere.
<1>NoNode.
     ASSUME NEW c \in Coroutine, NEW ch, NEW where, NEW opcode, NEW p, NEW o,
            p[c] # "select", ~ (p[c] = where /\ o[c].channel = ch)
     PROVE  NewNodes(<< >>, ch, where, opcode, p, o, c)
  BY <1>NoNode DEF NewNodes, Distinct

\* The dummies of a select.
<1>DummyNodes.
     ASSUME Listing, NEW c \in Coroutine, NEW requests \in Selects, NEW ch,
            NEW where \in {"push", "pop"}, NEW opcode, NEW p, NEW o, p[c] = "select", o[c].requests = requests
     PROVE  NewNodes(Dummies(c, requests, ch, opcode), ch, where, opcode, p, o, c)
  <2> USE <1>DummyNodes
  <2> DEFINE asks == { i \in DOMAIN requests :
                         requests[i] = [channel |-> ch, opcode |-> opcode] }
             wanted == Ascending(asks, Len(requests))
  <2>1. /\ requests \in Seq(Request) /\ Len(requests) \in Nat
        /\ DOMAIN requests = 1..Len(requests) /\ asks \in SUBSET (1..Len(requests))
    BY SelectsAssumption
  <2>2. /\ wanted \in Seq(asks)
        /\ \A x \in asks : \E i \in DOMAIN wanted : wanted[i] = x
        /\ \A i, j \in DOMAIN wanted : wanted[i] = wanted[j] => i = j
    <3> HIDE DEF asks
    <3> QED
      BY <2>1, Zenon DEF Listing
  <2>3. Dummies(c, requests, ch, opcode) = [k \in DOMAIN wanted |-> Waiter(c, wanted[k])]
    BY DEF Dummies
  <2>4. \A x : x \in asks <=> /\ x \in DOMAIN requests
                              /\ requests[x] = [channel |-> ch, opcode |-> opcode]
    OBVIOUS
  <2> HIDE DEF asks, wanted
  <2>5. \A k \in DOMAIN wanted : wanted[k] \in asks /\ wanted[k] \in Nat
    <3>1. wanted \in Seq(asks)
      BY <2>2
    <3>2. \A k \in DOMAIN wanted : wanted[k] \in asks
      BY <3>1
    <3>3. asks \subseteq Nat
      BY <2>1
    <3> QED
      BY <3>2, <3>3, Zenon
  <2>6. PICK r : r = [k \in DOMAIN wanted |-> Waiter(c, wanted[k])]
    BY Zenon
  <2>7. DOMAIN r = DOMAIN wanted /\ \A k \in DOMAIN wanted : r[k] = Waiter(c, wanted[k])
    BY <2>6
  <2>8. \A k \in DOMAIN wanted :
          /\ r[k] \in WaiterType /\ r[k].owner = c /\ r[k].index = wanted[k]
          /\ ~ r[k].fired /\ ~ r[k].freed
    BY <2>5, <2>7, <1>WaiterNode
  <2>9. r \in Seq(WaiterType)
    <3>1. DOMAIN wanted = 1..Len(wanted) /\ Len(wanted) \in Nat
      BY <2>2
    <3>2. r \in [1..Len(wanted) -> WaiterType]
      BY <2>6, <2>8, <3>1
    <3> QED
      BY <3>1, <3>2
  <2>10. Distinct(r)
    BY <2>2, <2>7, <2>8 DEF Distinct
  <2>11. \A k \in DOMAIN r : Accounted(r[k], ch, where, opcode, p, o)
    BY <2>4, <2>5, <2>7, <2>8 DEF Accounted
  <2>12. \A k \in DOMAIN o[c].requests :
           o[c].requests[k] = [channel |-> ch, opcode |-> opcode] => HasNode(r, c, k)
    BY <2>2, <2>4, <2>7, <2>8 DEF HasNode
  <2>13. NewNodes(r, ch, where, opcode, p, o, c)
    BY <2>7, <2>8, <2>9, <2>10, <2>11, <2>12 DEF NewNodes
  <2> QED
    BY <2>3, <2>6, <2>13

\* The arguments of a select.
<1>SelectArgsType.
     ASSUME NEW requests \in Selects, NEW v \in 0..MaxPush, NEW timed \in BOOLEAN
     PROVE  /\ SelectArgs(requests, v, timed) \in OpType
            /\ SelectArgs(requests, v, timed).value = v
            /\ SelectArgs(requests, v, timed).requests = requests
  <2> USE <1>SelectArgsType
  <2>1. NoOp.channel \in Channel
    BY NoOpType
  <2> QED
    BY <2>1, Zenon DEF NoOp, OpType, SelectArgs

\* The steps that only switch.
<1>SwitchKept.
     ASSUME Inv, \A c \in Coroutine : Running(chain) = c => pc[c] \notin InWait,
            RunChain(chain'), UNCHANGED << pc, op, closed, queues, data, pushes, status, use >>,
            \/ timedout' = timedout
            \/ \E c \in Coroutine : /\ Running(chain') = c /\ pc[c] \in InWait
                                    /\ timedout' = timedout \cup {c}
     PROVE  Inv'
  <2> USE <1>SwitchKept
  <2> USE DEF queues, data
  <2>0. /\ TypeInv /\ TimerInv /\ QueueInv /\ CloseInv /\ Quiet /\ PassQuiet /\ ValueOK({})
        /\ timedout = {}
    BY QuietInv
  <2>1. TypeInv'
    BY <2>0, Zenon DEF TypeInv
  <2>2. TimerInv'
    BY <2>0 DEF TimerInv
  <2>3. QueueInv'
    <3> SUFFICES ASSUME NEW ch \in Channel
                 PROVE  /\ QueueOK(producers[ch], ch, "push", "PUSH", pc, op, Running(chain'))
                        /\ QueueOK(consumers[ch], ch, "pop", "POP", pc, op, Running(chain'))
      BY Zenon DEF QueueInv
    <3>1. AllIdle(producers[ch]) /\ AllIdle(consumers[ch])
      BY <2>0 DEF Quiet, NoneFired
    <3> QED
      BY <2>0, <3>1, Zenon DEF QueueInv, QueueOK, AllIdle
  <2>4. CloseInv'
    BY <2>0 DEF CloseInv, HasProducers, HasConsumers
  <2>5. Quiet'
    BY <2>0, Zenon DEF Quiet, NoneFired, QuietOn, HasProducers, HasConsumers, IsEmpty, IsFull
  <2>6. PassQuiet' /\ ValueOK({})'
    BY <2>0 DEF PassQuiet, ValueOK, Everywhere
  <2> QED
    BY <2>1, <2>2, <2>3, <2>4, <2>5, <2>6, QuietStep, Zenon

\* A switch between coroutines that no channel is the reason of.
<1>SwitchesKept.
     ASSUME Inv, NEW c \in Coroutine, UNCHANGED use,
            Sleep(c) \/ (\E target \in Coroutine : Resume(c, target)) \/ Wakeup(c) \/ Timeout(c)
     PROVE  Inv'
  <2> USE <1>SwitchesKept
  <2>1. RunChain(chain) /\ pc \in [Coroutine -> Where]
    BY Zenon DEF Inv, TypeInv
  <2>2. \A d \in Coroutine : Running(chain) = d => pc[d] \notin InWait
    BY SchedulerAssumption, Zenon DEF Sleep, Resume, Wakeup, Timeout, At, InWait
  <2>3. CASE Sleep(c)
    <3>1. RunChain(chain')
      BY <2>1, <2>3, YieldChain DEF Sleep, At
    <3> QED
      BY <2>2, <2>3, <3>1, <1>SwitchKept DEF Sleep
  <2>4. CASE \E target \in Coroutine : Resume(c, target)
    <3>1. RunChain(chain')
      BY <2>1, <2>4, ResumeChain DEF Resume
    <3> QED
      BY <2>2, <2>4, <3>1, <1>SwitchKept DEF Resume
  <2>5. CASE Wakeup(c)
    <3>1. RunChain(chain')
      BY <2>1, <2>5, ResumeChain, Zenon DEF Wakeup
    <3> QED
      BY <2>2, <2>5, <3>1, <1>SwitchKept DEF Wakeup
  <2>6. CASE Timeout(c)
    <3>1. RunChain(chain') /\ Running(chain') = c
      BY <2>1, <2>6, ResumeChain DEF Timeout
    <3> QED
      BY <2>2, <2>6, <3>1, <1>SwitchKept DEF Timeout, InWait
  <2> QED
    BY <2>3, <2>4, <2>5, <2>6

\* A push takes a new value, whatever becomes of it.
<1>TakesType.
     ASSUME TypeInv, NEW v, NEW st \in {"none", "pending", "true", "false"}, Takes(v, st)
     PROVE  /\ pushes' \in 0..MaxPush /\ status' \in [Value -> {"none", "pending", "true", "false"}]
            /\ v \in 0..MaxPush
  <2> USE <1>TakesType
  <2>1. pushes \in 0..MaxPush /\ status \in [Value -> {"none", "pending", "true", "false"}]
    BY DEF TypeInv
  <2>2. \A x \in Value : x \in 0..MaxPush
    BY MaxPushAssumption DEF Value
  <2>3. 0 \in 0..MaxPush
    BY MaxPushAssumption
  <2> QED
    BY <2>1, <2>2, <2>3, Zenon DEF Takes

\* What the step of a coroutine with value v, which was in its own code, means to the
\* values: they are where they were.
<1>ValuesTaken.
     ASSUME TypeInv, ValueOK({}), NEW c \in Coroutine, pc[c] \notin Pending,
            NEW w, pc' = [pc EXCEPT ![c] = w], op' \in [Coroutine -> OpType],
            \A d \in Coroutine \ {c} : op'[d] = op[d],
            Takes(op'[c].value, "pending"), w \in {"push", "select"} \/ op'[c].value = 0,
            w \notin {"push", "pushed"} \/ op'[c].value # 0, w # "pushed",
            closed' = closed, storage' = storage, received' = received
     PROVE  ValueOK({})'
  <2> USE <1>ValuesTaken
  <2> DEFINE v == op'[c].value
  <2>1. pc'[c] = w /\ \A d \in Coroutine \ {c} : pc'[d] = pc[d]
    BY DEF TypeInv
  <2>2. Everywhere' = Everywhere
    BY DEF Everywhere
  <2>3. \A d \in Coroutine : op[d].value \in 0..MaxPush /\ op'[d].value \in 0..MaxPush
    BY Zenon DEF TypeInv, OpType
  <2>4. CASE v = 0 /\ pushes' = pushes /\ status' = status
    BY <2>1, <2>2, <2>4 DEF ValueOK, Pending
  <2>5. CASE v \in Value /\ v = pushes + 1 /\ pushes' = v /\ status' = [status EXCEPT ![v] = "pending"]
    <3>0. pushes \in Nat /\ v > pushes /\ v # 0 /\ v \in Nat
      BY <2>5, MaxPushAssumption DEF TypeInv
    <3>1. /\ status'[v] = "pending" /\ \A x \in Value \ {v} : status'[x] = status[x]
          /\ v \notin Everywhere /\ status[v] = "none"
      BY <2>5, <3>0, ZenonT(30) DEF TypeInv, ValueOK
    <3>2. \A d \in Coroutine : pc[d] \in Pending /\ op[d].value # 0 =>
            /\ op[d].value \in Value /\ op[d].value <= pushes /\ op[d].value # v
            /\ status[op[d].value] = "pending"
      BY <2>3, <3>0, MaxPushAssumption DEF ValueOK, Value
    <3>3. \A d \in Coroutine : pc'[d] \in Pending /\ op'[d].value # 0 =>
            \/ d = c /\ op'[d].value = v
            \/ d # c /\ pc[d] \in Pending /\ op'[d] = op[d]
      BY <2>1
    <3>4. \A d \in Coroutine : pc'[d] \in Pending /\ op'[d].value # 0 =>
            op'[d].value <= pushes' /\ status'[op'[d].value] = "pending"
      BY <2>3, <2>5, <3>0, <3>1, <3>2, <3>3
    <3>5. \A x \in Value : x > pushes' => status'[x] = "none" /\ x \notin Everywhere
      <4> SUFFICES ASSUME NEW x \in Value, x > pushes'
                   PROVE  status'[x] = "none" /\ x \notin Everywhere
        OBVIOUS
      <4>1. x > pushes /\ x # v
        BY <2>5, <3>0 DEF Value
      <4> QED
        BY <3>1, <4>1, Zenon DEF ValueOK
    <3>6. \A x \in Value : status'[x] \in {"false", "true"} => x # v /\ status[x] = status'[x]
      BY <3>1, Zenon
    <3>7. \A d \in Coroutine : pc'[d] \in {"push", "pushed"} => op'[d].value # 0
      BY <2>1 DEF ValueOK
    <3>8. \A d \in Coroutine : pc'[d] \in {"push", "select"} /\ op'[d].value # 0 =>
            op'[d].value \notin Everywhere
      BY <2>1, <3>1 DEF ValueOK
    <3>9. \A d, e \in Coroutine :
            /\ pc'[d] \in Pending /\ pc'[e] \in Pending
            /\ op'[d].value = op'[e].value /\ op'[d].value # 0
            => d = e
      BY <3>2, <3>3 DEF ValueOK
    <3>10. \A d \in Coroutine : pc'[d] = "pushed" => pc[d] = "pushed" /\ op'[d] = op[d]
      BY <2>1
    <3> QED
      BY <2>2, <3>4, <3>5, <3>6, <3>7, <3>8, <3>9, <3>10, ZenonT(30) DEF ValueOK
  <2> QED
    BY <2>4, <2>5, Zenon DEF Takes

\* The channels stay quiet.
<1>FullNotEmpty.
     ASSUME TypeInv, NEW ch \in Channel, ~ IsUnbuffered(ch)
     PROVE  ~ (IsFull(ch) /\ IsEmpty(ch))
  <2> USE <1>FullNotEmpty
  <2>1. capacity[ch] \in Nat /\ storage[ch] \in Seq(Value)
    BY CapacityAssumption DEF TypeInv
  <2> QED
    BY <2>1 DEF IsUnbuffered, IsFull, IsEmpty

\* c begins to wait, with new nodes in the queues of channels that are not closed.
<1>ParkKept.
     ASSUME Inv, NEW c \in Coroutine, At(c, "user"), NEW w \in InWait, NEW args \in OpType,
            Wait(c, w, args), w = "select" => "select" \in use,
            w = "select" /\ Pushes(args.requests) => args.value # 0,
            NEW newP, NEW newC,
            producers' \in [Channel -> Seq(WaiterType)], consumers' \in [Channel -> Seq(WaiterType)],
            \A d \in Channel : /\ producers'[d] = producers[d] \o newP[d]
                               /\ consumers'[d] = consumers[d] \o newC[d]
                               /\ NewNodes(newP[d], d, "push", "PUSH", pc', op', c)
                               /\ NewNodes(newC[d], d, "pop", "POP", pc', op', c),
            \A d \in Channel : newP[d] # << >> => ~ closed[d] /\ (IsUnbuffered(d) \/ IsFull(d)),
            \A d \in Channel : newC[d] # << >> => ~ closed[d] /\ (IsUnbuffered(d) \/ IsEmpty(d)),
            Takes(args.value, "pending"), w # "push" \/ args.value # 0, w # "pop" \/ args.value = 0,
            UNCHANGED << closed, data, use >>
     PROVE  Inv'
  <2> USE <1>ParkKept
  <2> USE DEF data
  <2>1. Running(chain) = c /\ pc[c] = "user"
    BY Zenon DEF At
  <2>2. /\ TypeInv /\ TimerInv /\ QueueInv /\ CloseInv /\ Quiet /\ PassQuiet /\ ValueOK({})
        /\ timedout = {}
    BY <2>1, QuietInv, Zenon DEF InWait
  <2>3. /\ pc' = [pc EXCEPT ![c] = w] /\ op' = [op EXCEPT ![c] = args]
        /\ chain' = YieldOn(chain) /\ timedout' = timedout
    BY Zenon DEF Wait
  <2>4. /\ pc'[c] = w /\ op'[c] = args /\ op' \in [Coroutine -> OpType] /\ pc' \in [Coroutine -> Where]
        /\ \A d \in Coroutine \ {c} : pc'[d] = pc[d] /\ op'[d] = op[d]
    BY <2>2, <2>3, Zenon DEF TypeInv, InWait, Where
  <2>5. TypeInv'
    <3>1. RunChain(chain')
      BY <2>1, <2>2, <2>3, YieldChain, Zenon DEF TypeInv
    <3>2. /\ pushes' \in 0..MaxPush /\ status' \in [Value -> {"none", "pending", "true", "false"}]
      BY <2>2, <1>TakesType, Zenon
    <3>3. \A d \in Coroutine : pc'[d] = "select" => "select" \in use'
      BY <2>2, <2>4, Zenon DEF TypeInv
    <3>4. \A d \in Coroutine : pc'[d] \in {"close_p", "close_c"} => closed'[op'[d].channel]
      <4>1. w \notin {"close_p", "close_c"}
        BY Zenon DEF InWait
      <4> QED
        BY <2>2, <2>4, <4>1, Zenon DEF TypeInv
    <3>5. \A d \in Coroutine : pc'[d] = "select" /\ Pushes(op'[d].requests) => op'[d].value # 0
      BY <2>2, <2>4, Zenon DEF TypeInv
    <3> QED
      BY <2>2, <2>4, <3>1, <3>2, <3>3, <3>4, <3>5, Zenon DEF TypeInv
  <2>6. TimerInv'
    BY <2>2, <2>3, Zenon DEF TimerInv
  <2>7. ASSUME NEW d \in Channel
        PROVE  /\ producers[d] \in Seq(WaiterType) /\ consumers[d] \in Seq(WaiterType)
               /\ AllIdle(producers[d]) /\ AllIdle(consumers[d])
               /\ newP[d] \in Seq(WaiterType) /\ newC[d] \in Seq(WaiterType)
               /\ AllIdle(newP[d]) /\ AllIdle(newC[d])
    BY <2>2, Zenon DEF TypeInv, Quiet, NoneFired, NewNodes, AllIdle
  <2>8. QueueInv'
    <3>1. Others(c, pc, pc', op, op')
      BY <2>4, Zenon DEF Others
    <3> SUFFICES ASSUME NEW d \in Channel
                 PROVE  /\ QueueOK(producers'[d], d, "push", "PUSH", pc', op', Running(chain'))
                        /\ QueueOK(consumers'[d], d, "pop", "POP", pc', op', Running(chain'))
      BY Zenon DEF QueueInv
    <3>2. /\ QueueOK(producers[d], d, "push", "PUSH", pc, op, Running(chain))
          /\ QueueOK(consumers[d], d, "pop", "POP", pc, op, Running(chain))
      BY <2>2, Zenon DEF QueueInv
    <3>3. pc[c] \notin InWait
      BY <2>1, Zenon DEF InWait
    <3>4. QueueOK(producers[d] \o newP[d], d, "push", "PUSH", pc', op', Running(chain'))
      BY <2>7, <3>1, <3>2, <3>3, <1>JoinQueue, Zenon DEF AllIdle
    <3>5. QueueOK(consumers[d] \o newC[d], d, "pop", "POP", pc', op', Running(chain'))
      BY <2>7, <3>1, <3>2, <3>3, <1>JoinQueue, Zenon DEF AllIdle
    <3> QED
      BY <3>4, <3>5, Zenon
  <2>9. ASSUME NEW d \in Channel
        PROVE  /\ HasProducers(d)' => HasProducers(d) \/ newP[d] # << >>
               /\ HasConsumers(d)' => HasConsumers(d) \/ newC[d] # << >>
    BY <2>7, <1>ConcatIdle, Zenon DEF HasProducers, HasConsumers
  <2>10. CloseInv'
    <3> SUFFICES ASSUME NEW d \in Channel, closed[d]
                 PROVE  /\ HasProducers(d)' => \E x \in Coroutine :
                             pc'[x] = "close_p" /\ op'[x].channel = d
                        /\ HasConsumers(d)' => \E x \in Coroutine :
                             pc'[x] \in {"close_p", "close_c"} /\ op'[x].channel = d
      BY Zenon DEF CloseInv
    <3>1. (HasProducers(d)' => HasProducers(d)) /\ (HasConsumers(d)' => HasConsumers(d))
      BY <2>9, Zenon
    <3>2. \A x \in Coroutine : pc[x] \in {"close_p", "close_c"} => pc'[x] = pc[x] /\ op'[x] = op[x]
      BY <2>1, <2>4, Zenon
    <3>3. /\ HasProducers(d) => \E x \in Coroutine : pc[x] = "close_p" /\ op[x].channel = d
          /\ HasConsumers(d) => \E x \in Coroutine : pc[x] \in {"close_p", "close_c"}
                                                      /\ op[x].channel = d
      BY <2>2, Zenon DEF CloseInv
    <3> QED
      BY <3>1, <3>2, <3>3, Zenon
  <2>11. NoneFired'
    <3> SUFFICES ASSUME NEW d \in Channel PROVE AllIdle(producers'[d]) /\ AllIdle(consumers'[d])
      BY Zenon DEF NoneFired, AllIdle
    <3>1. AllIdle(producers[d] \o newP[d])
      BY <2>7, <1>ConcatIdle, Zenon
    <3>2. AllIdle(consumers[d] \o newC[d])
      BY <2>7, <1>ConcatIdle, Zenon
    <3> QED
      BY <3>1, <3>2, Zenon
  <2>12. ASSUME NEW d \in Channel PROVE QuietOn(d)'
    <3>1. QuietOn(d)
      BY <2>2, Zenon DEF Quiet
    <3>2. ~ able'[d] /\ (IsUnbuffered(d)' <=> IsUnbuffered(d)) /\ closed'[d] = closed[d]
      BY <3>1, Zenon DEF QuietOn, IsUnbuffered
    <3>3. (IsEmpty(d)' <=> IsEmpty(d)) /\ (IsFull(d)' <=> IsFull(d))
      BY Zenon DEF IsEmpty, IsFull
    <3>4. CASE ~ IsUnbuffered(d)
      <4>1. ~ (IsFull(d) /\ IsEmpty(d))
        BY <2>2, <3>4, <1>FullNotEmpty, Zenon
      <4>2. HasProducers(d)' /\ ~ closed[d] => IsFull(d)
        BY <2>9, <3>1, <3>4, Zenon DEF QuietOn
      <4>3. HasConsumers(d)' => IsEmpty(d)
        BY <2>9, <3>1, <3>4, Zenon DEF QuietOn
      <4>4. HasConsumers(d)' => ~ HasProducers(d)'
        BY <2>9, <3>1, <3>4, <4>1, <4>2, <4>3, Zenon DEF QuietOn
      <4> QED
        BY <3>2, <3>3, <4>2, <4>3, <4>4, Zenon DEF QuietOn
    <3> QED
      BY <3>2, <3>4, Zenon DEF QuietOn
  <2>13. Quiet'
    BY <2>11, <2>12, Zenon DEF Quiet
  <2>14. PassQuiet'
    BY <2>2, <2>4, Zenon DEF PassQuiet, InWait, IsUnbuffered
  <2>15. ValueOK({})'
    <3>1. pc[c] \notin Pending /\ w \in {"push", "pop", "select"}
      BY <2>1, Zenon DEF Pending, InWait
    <3>2. w \in {"push", "select"} \/ args.value = 0
      BY <3>1, Zenon
    <3> QED
      BY <2>2, <2>3, <2>4, <3>1, <3>2, <1>ValuesTaken, Zenon
  <2> QED
    BY <2>5, <2>6, <2>8, <2>10, <2>13, <2>14, <2>15, QuietStep, Zenon

\* A push finds the buffer full, or no consumer, and waits.
<1>PushWaitKept.
     ASSUME Inv, NEW c \in Coroutine, NEW ch \in Channel, NEW timed \in BOOLEAN,
            PushWait(c, ch, timed), UNCHANGED use
     PROVE  Inv'
  <2> USE <1>PushWaitKept
  <2>0. TypeInv
    BY DEF Inv
  <2>1. PICK v \in Value : /\ Take(v) /\ status' = [status EXCEPT ![v] = "pending"]
                           /\ Wait(c, "push", PushArgs(ch, v, timed))
    BY Zenon DEF PushWait
  <2>2. PICK args \in OpType : /\ args = PushArgs(ch, v, timed) /\ args.channel = ch
                               /\ args.value = v /\ v # 0
    BY PushArgsType DEF Value
  <2>3. Takes(args.value, "pending")
    BY <2>1, <2>2, Zenon DEF Takes, Take
  <2>4. pc'[c] = "push" /\ op'[c] = args
    BY <2>0, <2>1, <2>2, Zenon DEF Wait, TypeInv
  <2>11. PICK newP, newC :
           /\ newP = [d \in Channel |-> IF d = ch THEN << Waiter(c, 0) >> ELSE << >>]
           /\ newC = [d \in Channel |-> << >>]
    BY Zenon
  <2>5. /\ producers' = [producers EXCEPT ![ch] = Append(producers[ch], Waiter(c, 0))]
        /\ consumers' = consumers /\ Waiter(c, 0) \in WaiterType
    BY <1>WaiterNode, Zenon DEF PushWait
  <2>6. /\ producers' \in [Channel -> Seq(WaiterType)] /\ consumers' \in [Channel -> Seq(WaiterType)]
    BY <2>0, <2>5 DEF TypeInv
  <2>7. ASSUME NEW d \in Channel
        PROVE  producers'[d] = producers[d] \o newP[d] /\ consumers'[d] = consumers[d] \o newC[d]
    <3>1. producers[d] \in Seq(WaiterType) /\ consumers[d] \in Seq(WaiterType)
      BY <2>0, Zenon DEF TypeInv
    <3>2. producers[d] \o << >> = producers[d] /\ consumers[d] \o << >> = consumers[d]
      BY <3>1
    <3>3. Append(producers[d], Waiter(c, 0)) = producers[d] \o << Waiter(c, 0) >>
      BY <2>5, <3>1, AppendConcat, Zenon
    <3> QED
      BY <2>0, <2>5, <2>11, <3>2, <3>3, Zenon DEF TypeInv
  <2>8. ASSUME NEW d \in Channel
        PROVE  /\ NewNodes(newP[d], d, "push", "PUSH", pc', op', c)
               /\ NewNodes(newC[d], d, "pop", "POP", pc', op', c)
    <3>1. d = ch => NewNodes(<< Waiter(c, 0) >>, d, "push", "PUSH", pc', op', c)
      BY <2>2, <2>4, <1>OneNode, Zenon
    <3>2. d # ch => NewNodes(<< >>, d, "push", "PUSH", pc', op', c)
      BY <2>2, <2>4, <1>NoNode, Zenon
    <3>3. NewNodes(<< >>, d, "pop", "POP", pc', op', c)
      BY <2>4, <1>NoNode
    <3> QED
      BY <2>11, <3>1, <3>2, <3>3, Zenon
  <2>9. /\ \A d \in Channel : newP[d] # << >> => ~ closed[d] /\ (IsUnbuffered(d) \/ IsFull(d))
        /\ \A d \in Channel : newC[d] = << >>
    BY <2>11 DEF PushWait
  <2>10. /\ At(c, "user") /\ Wait(c, "push", args) /\ UNCHANGED << closed, data, use >>
         /\ "push" \in InWait
    BY <2>1, <2>2, Zenon DEF PushWait, InWait
  <2>12. \A d \in Channel : /\ producers'[d] = producers[d] \o newP[d]
                            /\ consumers'[d] = consumers[d] \o newC[d]
                            /\ NewNodes(newP[d], d, "push", "PUSH", pc', op', c)
                            /\ NewNodes(newC[d], d, "pop", "POP", pc', op', c)
    BY <2>7, <2>8, Zenon
  <2>13. /\ \A d \in Channel : newP[d] # << >> => ~ closed[d] /\ (IsUnbuffered(d) \/ IsFull(d))
         /\ \A d \in Channel : newC[d] # << >> => ~ closed[d] /\ (IsUnbuffered(d) \/ IsEmpty(d))
    BY <2>9, Zenon
  <2>14. PICK w \in InWait : w = "push"
    BY <2>10
  <2>15. /\ Wait(c, w, args) /\ (w = "select" => "select" \in use)
         /\ (w # "push" \/ args.value # 0) /\ (w # "pop" \/ args.value = 0)
         /\ (w = "select" /\ Pushes(args.requests) => args.value # 0)
    BY <2>2, <2>10, <2>14
  <2> QED
    BY <2>3, <2>6, <2>10, <2>12, <2>13, <2>15, <1>ParkKept, Zenon

\* A pop finds nothing and waits.
<1>PopWaitKept.
     ASSUME Inv, NEW c \in Coroutine, NEW ch \in Channel, NEW timed \in BOOLEAN,
            PopWait(c, ch, timed), UNCHANGED use
     PROVE  Inv'
  <2> USE <1>PopWaitKept
  <2>0. TypeInv
    BY DEF Inv
  <2>2. PICK args \in OpType : args = PopArgs(ch, timed) /\ args.channel = ch /\ args.value = 0
    BY PopArgsType
  <2>3. Takes(args.value, "pending")
    BY <2>2, Zenon DEF Takes, PopWait
  <2>4. pc'[c] = "pop" /\ op'[c] = args
    BY <2>0, <2>2, Zenon DEF PopWait, Wait, TypeInv
  <2>11. PICK newP, newC :
           /\ newC = [d \in Channel |-> IF d = ch THEN << Waiter(c, 0) >> ELSE << >>]
           /\ newP = [d \in Channel |-> << >>]
    BY Zenon
  <2>5. /\ consumers' = [consumers EXCEPT ![ch] = Append(consumers[ch], Waiter(c, 0))]
        /\ producers' = producers /\ Waiter(c, 0) \in WaiterType
    BY <1>WaiterNode, Zenon DEF PopWait
  <2>6. /\ producers' \in [Channel -> Seq(WaiterType)] /\ consumers' \in [Channel -> Seq(WaiterType)]
    BY <2>0, <2>5 DEF TypeInv
  <2>7. ASSUME NEW d \in Channel
        PROVE  producers'[d] = producers[d] \o newP[d] /\ consumers'[d] = consumers[d] \o newC[d]
    <3>1. producers[d] \in Seq(WaiterType) /\ consumers[d] \in Seq(WaiterType)
      BY <2>0, Zenon DEF TypeInv
    <3>2. producers[d] \o << >> = producers[d] /\ consumers[d] \o << >> = consumers[d]
      BY <3>1
    <3>3. Append(consumers[d], Waiter(c, 0)) = consumers[d] \o << Waiter(c, 0) >>
      BY <2>5, <3>1, AppendConcat, Zenon
    <3> QED
      BY <2>0, <2>5, <2>11, <3>2, <3>3, Zenon DEF TypeInv
  <2>8. ASSUME NEW d \in Channel
        PROVE  /\ NewNodes(newP[d], d, "push", "PUSH", pc', op', c)
               /\ NewNodes(newC[d], d, "pop", "POP", pc', op', c)
    <3>1. d = ch => NewNodes(<< Waiter(c, 0) >>, d, "pop", "POP", pc', op', c)
      BY <2>2, <2>4, <1>OneNode, Zenon
    <3>2. d # ch => NewNodes(<< >>, d, "pop", "POP", pc', op', c)
      BY <2>2, <2>4, <1>NoNode, Zenon
    <3>3. NewNodes(<< >>, d, "push", "PUSH", pc', op', c)
      BY <2>4, <1>NoNode
    <3> QED
      BY <2>11, <3>1, <3>2, <3>3, Zenon
  <2>9. /\ \A d \in Channel : newC[d] # << >> => ~ closed[d] /\ (IsUnbuffered(d) \/ IsEmpty(d))
        /\ \A d \in Channel : newP[d] = << >>
    BY <2>11, Zenon DEF PopWait
  <2>10. /\ At(c, "user") /\ Wait(c, "pop", args) /\ UNCHANGED << closed, data, use >>
         /\ "pop" \in InWait
    BY <2>2 DEF PopWait, InWait
  <2>12. \A d \in Channel : /\ producers'[d] = producers[d] \o newP[d]
                            /\ consumers'[d] = consumers[d] \o newC[d]
                            /\ NewNodes(newP[d], d, "push", "PUSH", pc', op', c)
                            /\ NewNodes(newC[d], d, "pop", "POP", pc', op', c)
    BY <2>7, <2>8, Zenon
  <2>13. /\ \A d \in Channel : newP[d] # << >> => ~ closed[d] /\ (IsUnbuffered(d) \/ IsFull(d))
         /\ \A d \in Channel : newC[d] # << >> => ~ closed[d] /\ (IsUnbuffered(d) \/ IsEmpty(d))
    BY <2>9
  <2>14. PICK w \in InWait : w = "pop"
    BY <2>10
  <2>15. /\ Wait(c, w, args) /\ (w = "select" => "select" \in use)
         /\ (w # "push" \/ args.value # 0) /\ (w # "pop" \/ args.value = 0)
         /\ (w = "select" /\ Pushes(args.requests) => args.value # 0)
    BY <2>2, <2>10, <2>14
  <2> QED
    BY <2>3, <2>6, <2>10, <2>12, <2>13, <2>15, <1>ParkKept, ZenonT(30)

\* A select finds no request that can be served and waits for all of them.
<1>SelectWaitKept.
     ASSUME Listing, Inv, NEW c \in Coroutine, NEW requests \in Selects, NEW timed \in BOOLEAN,
            SelectWait(c, requests, timed), "select" \in use, UNCHANGED use
     PROVE  Inv'
  <2> USE <1>SelectWaitKept
  <2>0. TypeInv /\ requests \in Seq(Request)
    BY SelectsAssumption DEF Inv
  <2> DEFINE pushing == Pushes(requests)
             newC == [d \in Channel |-> Dummies(c, requests, d, "POP")]
             newP == [d \in Channel |-> Dummies(c, requests, d, "PUSH")]
  <2>1. PICK v : /\ v = IF pushing THEN pushes + 1 ELSE 0
                 /\ IF pushing THEN Take(v) /\ status' = [status EXCEPT ![v] = "pending"]
                               ELSE UNCHANGED << pushes, status >>
                 /\ Wait(c, "select", SelectArgs(requests, v, timed))
    BY Zenon DEF SelectWait, SelectArgs, Pushes
  <2>2. Takes(v, "pending") /\ v \in 0..MaxPush /\ (pushing => v # 0)
    <3>1. pushes \in 0..MaxPush
      BY <2>0, Zenon DEF TypeInv
    <3> QED
      BY <2>1, <3>1, MaxPushAssumption DEF Takes, Take, Value
  <2>3. PICK args \in OpType : /\ args = SelectArgs(requests, v, timed)
                               /\ args.value = v /\ args.requests = requests
    BY <2>2, <1>SelectArgsType
  <2>4. pc'[c] = "select" /\ op'[c] = args
    BY <2>0, <2>1, <2>3, Zenon DEF Wait, TypeInv
  <2>5. /\ producers' = [d \in Channel |-> producers[d] \o Dummies(c, requests, d, "PUSH")]
        /\ consumers' = [d \in Channel |-> consumers[d] \o Dummies(c, requests, d, "POP")]
        /\ \A i \in DOMAIN requests : ~ Hit(requests[i])
    BY DEF SelectWait
  <2>6. ASSUME NEW d \in Channel
        PROVE  /\ NewNodes(newP[d], d, "push", "PUSH", pc', op', c)
               /\ NewNodes(newC[d], d, "pop", "POP", pc', op', c)
    <3>1. NewNodes(Dummies(c, requests, d, "PUSH"), d, "push", "PUSH", pc', op', c)
      BY <2>3, <2>4, <1>DummyNodes, Zenon
    <3>2. NewNodes(Dummies(c, requests, d, "POP"), d, "pop", "POP", pc', op', c)
      BY <2>3, <2>4, <1>DummyNodes, Zenon
    <3> QED
      BY <3>1, <3>2
  <2>7. \A d \in Channel : producers'[d] = producers[d] \o newP[d]
                           /\ consumers'[d] = consumers[d] \o newC[d]
    BY <2>5, Zenon
  <2> HIDE DEF newP, newC
  <2>8. /\ producers' \in [Channel -> Seq(WaiterType)] /\ consumers' \in [Channel -> Seq(WaiterType)]
    <3>1. \A d \in Channel : producers'[d] \in Seq(WaiterType) /\ consumers'[d] \in Seq(WaiterType)
      <4> SUFFICES ASSUME NEW d \in Channel
                   PROVE  producers'[d] \in Seq(WaiterType) /\ consumers'[d] \in Seq(WaiterType)
        OBVIOUS
      <4>1. /\ producers[d] \in Seq(WaiterType) /\ consumers[d] \in Seq(WaiterType)
            /\ newP[d] \in Seq(WaiterType) /\ newC[d] \in Seq(WaiterType)
        BY <2>0, <2>6, Zenon DEF TypeInv, NewNodes
      <4>2. producers[d] \o newP[d] \in Seq(WaiterType)
        BY <4>1, <1>Concat, Zenon
      <4>3. consumers[d] \o newC[d] \in Seq(WaiterType)
        BY <4>1, <1>Concat
      <4> QED
        BY <2>7, <4>2, <4>3, Zenon
    <3> QED
      BY <2>5, <3>1
  <2>9. ASSUME NEW d \in Channel, newP[d] # << >> PROVE ~ closed[d] /\ IsFull(d)
    <3>0. PICK s \in Seq(WaiterType) : s = newP[d] /\ s # << >>
      BY <2>6, <2>9, Zenon DEF NewNodes
    <3>1. newP[d] \in Seq(WaiterType) /\ 1 \in DOMAIN newP[d]
      BY <3>0
    <3>2. PICK e : /\ e.owner = c /\ e.index \in DOMAIN op'[c].requests
                   /\ op'[c].requests[e.index] = [channel |-> d, opcode |-> "PUSH"]
      BY <2>4, <2>6, <3>1, Zenon DEF NewNodes, Accounted
    <3>3. PICK i \in DOMAIN requests : requests[i] = [channel |-> d, opcode |-> "PUSH"]
      BY <2>3, <2>4, <3>2, Zenon
    <3>4. ~ Hit([channel |-> d, opcode |-> "PUSH"])
      BY <2>5, <3>3, Zenon
    <3> QED
      BY <3>4 DEF Hit, IsWritable
  <2>10. ASSUME NEW d \in Channel, newC[d] # << >> PROVE ~ closed[d] /\ IsEmpty(d)
    <3>0. PICK s \in Seq(WaiterType) : s = newC[d] /\ s # << >>
      BY <2>6, <2>10, Zenon DEF NewNodes
    <3>1. newC[d] \in Seq(WaiterType) /\ 1 \in DOMAIN newC[d]
      BY <3>0
    <3>2. PICK e : /\ e.owner = c /\ e.index \in DOMAIN op'[c].requests
                   /\ op'[c].requests[e.index] = [channel |-> d, opcode |-> "POP"]
      BY <2>4, <2>6, <3>1, Zenon DEF NewNodes, Accounted
    <3>3. PICK i \in DOMAIN requests : requests[i] = [channel |-> d, opcode |-> "POP"]
      BY <2>3, <2>4, <3>2, Zenon
    <3>4. ~ Hit([channel |-> d, opcode |-> "POP"])
      BY <2>5, <3>3, Zenon
    <3> QED
      BY <3>4 DEF Hit, IsReadable
  <2>11. /\ At(c, "user") /\ Wait(c, "select", args) /\ UNCHANGED << closed, data, use >>
         /\ "select" \in InWait
    BY <2>1, <2>3, Zenon DEF SelectWait, InWait
  <2> QED
    BY <2>2, <2>3, <2>6, <2>7, <2>8, <2>9, <2>10, <2>11, <1>ParkKept, Zenon

<1> QED
  BY <1>SwitchesKept, <1>PushWaitKept, <1>PopWaitKept, <1>SelectWaitKept

-----------------------------------------------------------------------------
\* The queues of a channel and the values in it.

\* The node of a queue, when the invariant holds.
LEMMA QueueTypes ==
  ASSUME TypeInv, NEW ch \in Channel
  PROVE  producers[ch] \in Seq(WaiterType) /\ consumers[ch] \in Seq(WaiterType)
BY Zenon DEF TypeInv

\* c stays out of the queues.
LEMMA SameQueue ==
  ASSUME NEW q \in Seq(WaiterType), NEW ch, NEW where \in {"push", "pop"}, NEW opcode,
         NEW p, NEW o, NEW p2, NEW o2, NEW run, NEW run2, NEW c \in Coroutine,
         QueueOK(q, ch, where, opcode, p, o, run),
         run2 = run \/ \A i \in DOMAIN q : ~ q[i].fired,
         Others(c, p, p2, o, o2), p[c] \notin InWait, p2[c] \notin InWait
  PROVE  QueueOK(q, ch, where, opcode, p2, o2, run2)
<1>1. ASSUME NEW i \in DOMAIN q
      PROVE  /\ ~ q[i].freed /\ (q[i].fired => q[i].owner = run2)
             /\ Accounted(q[i], ch, where, opcode, p2, o2)
  <2>1. q[i].owner \in Coroutine /\ Accounted(q[i], ch, where, opcode, p, o)
    BY NodeType, Zenon DEF QueueOK
  <2>2. q[i].owner # c
    BY <2>1, Zenon DEF Accounted, InWait
  <2>3. Accounted(q[i], ch, where, opcode, p2, o2)
    BY <2>1, <2>2, Zenon DEF Accounted, Others
  <2> QED
    BY <2>3, ZenonT(30) DEF QueueOK
<1>2. ASSUME NEW d \in Coroutine
      PROVE  /\ p2[d] = where /\ o2[d].channel = ch => HasNode(q, d, 0)
             /\ p2[d] = "select" =>
                  \A k \in DOMAIN o2[d].requests :
                    o2[d].requests[k] = [channel |-> ch, opcode |-> opcode] => HasNode(q, d, k)
  <2>1. CASE d = c
    BY <2>1, Zenon DEF InWait
  <2>2. CASE d # c
    BY <2>2 DEF QueueOK, Others
  <2> QED
    BY <2>1, <2>2, Zenon
<1> QED
  BY <1>1, <1>2, Zenon DEF QueueOK

\* What a queue holds when a value is added at its end.
LEMMA AppendRange ==
  ASSUME NEW S, NEW s \in Seq(S), NEW v \in S
  PROVE  /\ Append(s, v) \in Seq(S) /\ Len(Append(s, v)) = Len(s) + 1
         /\ Append(s, v) # << >> /\ Len(s) \in Nat
         /\ Range(Append(s, v)) = Range(s) \cup {v}
<1>1. PICK r \in Seq(S) : r = Append(s, v)
  <2>1. Append(s, v) \in Seq(S)
    OBVIOUS
  <2> QED
    BY <2>1, Zenon
<1>2. PICK n \in Nat : n = Len(s)
  OBVIOUS
<1>3. /\ DOMAIN r = 1..(n + 1) /\ DOMAIN s = 1..n /\ r[n + 1] = v /\ Len(r) = n + 1
      /\ \A i \in 1..n : r[i] = s[i]
  BY <1>1, <1>2
<1>4. \A i : i \in 1..(n + 1) <=> i \in 1..n \/ i = n + 1
  OBVIOUS
<1>5. \A x : x \in Range(r) <=> x \in Range(s) \/ x = v
  BY <1>3, <1>4 DEF Range
<1>6. r # << >>
  BY <1>3, <1>4
<1> QED
  BY <1>1, <1>2, <1>3, <1>5, <1>6

\* The empty sequence is the one of length 0.
LEMMA EmptyLength ==
  ASSUME NEW S, NEW s \in Seq(S)
  PROVE  Len(s) = 0 <=> s = << >>
<1>1. s # << >> => Len(s) # 0
  <2> SUFFICES ASSUME Len(s) = 0 PROVE s = << >>
    OBVIOUS
  <2>1. DOMAIN s = {}
    OBVIOUS
  <2> QED
    BY <2>1
<1> QED
  BY <1>1

\* What a queue holds when the first value is taken from it.
LEMMA TailRange ==
  ASSUME NEW S, NEW s \in Seq(S), s # << >>
  PROVE  /\ Head(s) \in S /\ Tail(s) \in Seq(S) /\ Len(Tail(s)) + 1 = Len(s)
         /\ Len(s) \in Nat /\ Len(Tail(s)) \in Nat
         /\ Range(s) = Range(Tail(s)) \cup {Head(s)}
<1>1. PICK r \in Seq(S) : r = Tail(s)
  <2>1. Tail(s) \in Seq(S)
    OBVIOUS
  <2> QED
    BY <2>1, Zenon
<1>2. PICK n \in Nat : Len(s) = n + 1
  <2>1. Len(s) \in Nat /\ Len(s) # 0
    OBVIOUS
  <2>2. Len(s) - 1 \in Nat /\ Len(s) = (Len(s) - 1) + 1
    BY <2>1
  <2> QED
    BY <2>2, Zenon
<1>3. /\ DOMAIN s = 1..(n + 1) /\ DOMAIN r = 1..n /\ s[1] = Head(s) /\ Len(r) = n
      /\ \A i \in 1..n : r[i] = s[i + 1]
  BY <1>1, <1>2
<1>4. \A i \in 1..(n + 1) : i = 1 \/ (i - 1 \in 1..n /\ (i - 1) + 1 = i)
  OBVIOUS
<1>5. 1 \in 1..(n + 1) /\ \A i \in 1..n : i + 1 \in 1..(n + 1)
  OBVIOUS
<1>6. ASSUME NEW x \in Range(s) PROVE x \in Range(r) \/ x = Head(s)
  <2>1. PICK i \in 1..(n + 1) : x = s[i]
    BY <1>3 DEF Range
  <2>2. CASE i - 1 \in 1..n /\ (i - 1) + 1 = i
    BY <1>3, <2>1, <2>2, Zenon DEF Range
  <2> QED
    BY <1>3, <1>4, <2>1, <2>2
<1>7. ASSUME NEW x, x \in Range(r) \/ x = Head(s) PROVE x \in Range(s)
  BY <1>3, <1>5, <1>7 DEF Range
<1>8. Range(s) = Range(r) \cup {Head(s)}
  BY <1>6, <1>7
<1>9. Head(s) \in S
  OBVIOUS
<1> QED
  BY <1>1, <1>2, <1>3, <1>8, <1>9

\* Where the values are, now and in the next state.
LEMMA EverywhereIs ==
  /\ \A x : x \in Everywhere <=>
       \E d \in Channel : x \in Range(storage[d]) \/ x \in Range(received[d])
  /\ \A x : x \in Everywhere' <=>
       \E d \in Channel : x \in Range(storage'[d]) \/ x \in Range(received'[d])
BY DEF Everywhere

\* A value is stored.
LEMMA EverywhereStored ==
  ASSUME TypeInv, NEW ch \in Channel, NEW v \in Value,
         storage' = [storage EXCEPT ![ch] = Append(storage[ch], v)], received' = received
  PROVE  Everywhere' = Everywhere \cup {v}
<1>1. storage[ch] \in Seq(Value)
  BY Zenon DEF TypeInv
<1>2. Range(Append(storage[ch], v)) = Range(storage[ch]) \cup {v}
  BY <1>1, AppendRange
<1>3. /\ Range(storage'[ch]) = Range(storage[ch]) \cup {v}
      /\ \A d \in Channel \ {ch} : storage'[d] = storage[d]
  BY <1>2, Zenon DEF TypeInv
<1>4. \A x : x \in Everywhere' <=> x \in Everywhere \/ x = v
  BY <1>3, EverywhereIs
<1> QED
  BY <1>4

\* A value is delivered from the slot.
LEMMA EverywhereDelivered ==
  ASSUME TypeInv, NEW ch \in Channel, NEW v \in Value,
         received' = [received EXCEPT ![ch] = Append(received[ch], v)], storage' = storage
  PROVE  Everywhere' = Everywhere \cup {v}
<1>1. received[ch] \in Seq(Value)
  BY Zenon DEF TypeInv
<1>2. Range(Append(received[ch], v)) = Range(received[ch]) \cup {v}
  BY <1>1, AppendRange
<1>3. /\ Range(received'[ch]) = Range(received[ch]) \cup {v}
      /\ \A d \in Channel \ {ch} : received'[d] = received[d]
  BY <1>2, Zenon DEF TypeInv
<1>4. \A x : x \in Everywhere' <=> x \in Everywhere \/ x = v
  BY <1>3, EverywhereIs
<1> QED
  BY <1>4

\* A value is delivered from the storage.
LEMMA EverywhereMoved ==
  ASSUME TypeInv, NEW ch \in Channel, storage[ch] # << >>,
         received' = [received EXCEPT ![ch] = Append(received[ch], Head(storage[ch]))],
         storage' = [storage EXCEPT ![ch] = Tail(storage[ch])]
  PROVE  Everywhere' = Everywhere
<1>1. received[ch] \in Seq(Value) /\ storage[ch] \in Seq(Value)
  BY DEF TypeInv
<1>2. PICK h \in Value : /\ h = Head(storage[ch])
                         /\ Range(storage[ch]) = Range(Tail(storage[ch])) \cup {h}
  BY <1>1, TailRange
<1>3. Range(Append(received[ch], h)) = Range(received[ch]) \cup {h}
  BY <1>1, AppendRange
<1>4. /\ Range(received'[ch]) = Range(received[ch]) \cup {h}
      /\ storage'[ch] = Tail(storage[ch])
      /\ \A d \in Channel \ {ch} : received'[d] = received[d] /\ storage'[d] = storage[d]
  BY <1>2, <1>3, Zenon DEF TypeInv
<1>5. \A x : x \in Everywhere' <=> x \in Everywhere
  BY <1>2, <1>4, EverywhereIs, ZenonT(30)
<1> QED
  BY <1>5, ZenonT(30)

\* The values of a channel are dropped.
LEMMA EverywhereDrained ==
  ASSUME TypeInv, NEW ch \in Channel, storage' = [storage EXCEPT ![ch] = << >>],
         received' = received
  PROVE  Everywhere' \subseteq Everywhere
<1>1. Range(<< >>) = {}
  BY DEF Range
<1>2. storage'[ch] = << >> /\ \A d \in Channel \ {ch} : storage'[d] = storage[d]
  BY Zenon DEF TypeInv
<1>3. \A x : x \in Everywhere' => x \in Everywhere
  BY <1>1, <1>2, EverywhereIs
<1> QED
  BY <1>3

-----------------------------------------------------------------------------
\* An operation that notifies nobody.

CloseArgs(ch, cleanup) == [NoOp EXCEPT !.channel = ch, !.cleanup = cleanup]

\* c, which does not wait and does not begin to, leaves the queues alone.
Inside(c) ==
  /\ Running(chain) = c /\ pc[c] \notin InWait
  /\ pc' \in [Coroutine -> Where] /\ op' \in [Coroutine -> OpType] /\ pc'[c] \notin InWait
  /\ \A d \in Coroutine \ {c} : pc'[d] = pc[d] /\ op'[d] = op[d]
  /\ chain' = chain /\ timedout' \subseteq timedout
  /\ UNCHANGED << producers, consumers, able, slot, use >>

\* A step inside an operation that notifies nobody keeps the invariant.
LEMMA QuietStepsKept ==
  ASSUME Inv, UNCHANGED use
  PROVE  \A c \in Coroutine :
           /\ PopReturn(c) \/ PushReturn(c) \/ CloseReturn(c) => Inv'
           /\ CloseProducers(c) /\ ~ HasProducers(op[c].channel) => Inv'
           /\ \A ch \in Channel :
                /\ Cleanup(c, ch) => Inv'
                /\ \A cleanup \in BOOLEAN : Close(c, ch, cleanup) => Inv'
                /\ At(c, "user") /\ PopNow(c, ch) /\ ~ HasProducers(ch) => Inv'
                /\ \A v \in Value :
                     /\ At(c, "user") /\ ~ closed[ch] /\ Take(v)
                     /\ PushNow(c, ch, v) /\ ~ HasConsumers(ch)
                     => Inv'
\* The arguments of a close.
<1>CloseArgsType.
     ASSUME NEW ch \in Channel, NEW cleanup \in BOOLEAN
     PROVE  /\ CloseArgs(ch, cleanup) \in OpType /\ CloseArgs(ch, cleanup).channel = ch
            /\ CloseArgs(ch, cleanup).value = 0
  <2> USE <1>CloseArgsType
  <2>1. 0 \in 0..MaxPush
    BY MaxPushAssumption
  <2> QED
    BY <2>1, Zenon DEF NoOp, OpType, CloseArgs

\* What such a step leaves as it was.
<1>InsideFrame.
     ASSUME Inv, NEW c \in Coroutine, Inside(c)
     PROVE  /\ TypeInv /\ TimerInv /\ QueueInv /\ CloseInv /\ Quiet /\ PassQuiet /\ ValueOK({})
            /\ TimerInv' /\ QueueInv' /\ NoneFired'
            /\ \A d \in Coroutine : pc'[d] = "select" => pc[d] = "select"
  <2> USE <1>InsideFrame
  <2>1. /\ TypeInv /\ TimerInv /\ QueueInv /\ CloseInv /\ Quiet /\ PassQuiet /\ ValueOK({})
        /\ timedout = {}
    BY QuietInv, Zenon DEF Inside
  <2>2. TimerInv'
    BY <2>1, Zenon DEF TimerInv, Inside
  <2>3. QueueInv'
    <3>1. Others(c, pc, pc', op, op')
      BY DEF Others, Inside
    <3> SUFFICES ASSUME NEW d \in Channel
                 PROVE  /\ QueueOK(producers[d], d, "push", "PUSH", pc', op', Running(chain))
                        /\ QueueOK(consumers[d], d, "pop", "POP", pc', op', Running(chain))
      BY Zenon DEF QueueInv, Inside
    <3>2. /\ QueueOK(producers[d], d, "push", "PUSH", pc, op, Running(chain))
          /\ QueueOK(consumers[d], d, "pop", "POP", pc, op, Running(chain))
      BY <2>1 DEF QueueInv
    <3>3. producers[d] \in Seq(WaiterType) /\ consumers[d] \in Seq(WaiterType)
      BY <2>1, QueueTypes, Zenon
    <3>4. pc[c] \notin InWait /\ pc'[c] \notin InWait
      BY DEF Inside
    <3>5. QueueOK(producers[d], d, "push", "PUSH", pc', op', Running(chain))
      BY <3>1, <3>2, <3>3, <3>4, SameQueue, Zenon
    <3>6. QueueOK(consumers[d], d, "pop", "POP", pc', op', Running(chain))
      BY <3>1, <3>2, <3>3, <3>4, SameQueue, Zenon
    <3> QED
      BY <3>5, <3>6, Zenon
  <2>4. NoneFired'
    BY <2>1, Zenon DEF Quiet, NoneFired, Inside
  <2>5. \A d \in Coroutine : pc'[d] = "select" => pc[d] = "select"
    BY Zenon DEF Inside, InWait
  <2> QED
    BY <2>1, <2>2, <2>3, <2>4, <2>5, Zenon

\* c does not leave a close().
<1>InsideClosers.
     ASSUME CloseInv, NEW c \in Coroutine, Inside(c), pc[c] \notin {"close_p", "close_c"},
            closed' = closed
     PROVE  CloseInv'
  <2> USE <1>InsideClosers
  <2>1. \A x \in Coroutine : pc[x] \in {"close_p", "close_c"} => pc'[x] = pc[x] /\ op'[x] = op[x]
    BY DEF Inside
  <2> SUFFICES ASSUME NEW d \in Channel, closed[d]
               PROVE  /\ HasProducers(d)' => \E x \in Coroutine :
                           pc'[x] = "close_p" /\ op'[x].channel = d
                      /\ HasConsumers(d)' => \E x \in Coroutine :
                           pc'[x] \in {"close_p", "close_c"} /\ op'[x].channel = d
    BY Zenon DEF CloseInv
  <2>2. (HasProducers(d)' <=> HasProducers(d)) /\ (HasConsumers(d)' <=> HasConsumers(d))
    BY Zenon DEF HasProducers, HasConsumers, Inside
  <2>3. /\ HasProducers(d) => \E x \in Coroutine : pc[x] = "close_p" /\ op[x].channel = d
        /\ HasConsumers(d) => \E x \in Coroutine : pc[x] \in {"close_p", "close_c"}
                                                    /\ op[x].channel = d
    BY Zenon DEF CloseInv
  <2> QED
    BY <2>1, <2>2, <2>3, Zenon

\* The channels stay quiet, ch for the given reason.
<1>InsideQuiet.
     ASSUME Inv, NEW c \in Coroutine, Inside(c), NEW ch \in Channel,
            \A d \in Channel : closed[d] => closed'[d],
            \A d \in Channel \ {ch} : storage'[d] = storage[d],
            ~ IsUnbuffered(ch) =>
              /\ HasConsumers(ch) => storage'[ch] = << >>
              /\ HasProducers(ch) /\ ~ closed'[ch] => storage'[ch] = storage[ch]
     PROVE  Quiet'
  <2> USE <1>InsideQuiet
  <2>1. Quiet /\ NoneFired'
    BY <1>InsideFrame
  <2>2. ASSUME NEW d \in Channel PROVE QuietOn(d)'
    <3>1. QuietOn(d)
      BY <2>1, Zenon DEF Quiet
    <3>2. /\ (HasProducers(d)' <=> HasProducers(d)) /\ (HasConsumers(d)' <=> HasConsumers(d))
          /\ (able'[d] <=> able[d]) /\ (IsUnbuffered(d)' <=> IsUnbuffered(d))
      BY DEF HasProducers, HasConsumers, Inside, IsUnbuffered
    <3> QED
      BY <3>1, <3>2, Zenon DEF QuietOn, IsEmpty, IsFull
  <2> QED
    BY <2>1, <2>2, Zenon DEF Quiet

\* The data of the unbuffered channels have passed.
<1>InsidePass.
     ASSUME Inv, NEW c \in Coroutine, Inside(c), pc'[c] \notin {"pushed", "popped"},
            \A d \in Channel : Range(received[d]) \subseteq Range(received'[d])
     PROVE  PassQuiet'
  <2> USE <1>InsidePass
  <2>1. PassQuiet /\ TypeInv
    BY <1>InsideFrame, Zenon
  <2> SUFFICES ASSUME NEW d \in Coroutine, IsUnbuffered(op'[d].channel)
               PROVE  /\ pc'[d] = "pushed" => op'[d].value \in Range(received'[op'[d].channel])
                      /\ pc'[d] = "popped" => op'[d].value # 0
    BY DEF PassQuiet, IsUnbuffered
  <2>2. d # c \/ pc'[d] \notin {"pushed", "popped"}
    OBVIOUS
  <2>3. d # c => op'[d] = op[d] /\ pc'[d] = pc[d] /\ op[d].channel \in Channel
    BY <2>1, Zenon DEF Inside, TypeInv, OpType
  <2> QED
    BY <2>1, <2>2, <2>3, Zenon DEF PassQuiet

\* Nothing happens to the values but that some may be dropped from a closed channel.
<1>InsideValues.
     ASSUME Inv, NEW c \in Coroutine, Inside(c), pc'[c] \notin Pending,
            pc'[c] \notin {"push", "pushed"},
            UNCHANGED << pushes, status >>, Everywhere' \subseteq Everywhere,
            \A d \in Channel : closed[d] => closed'[d],
            Everywhere' = Everywhere \/ \E d \in Channel : closed[d]
     PROVE  ValueOK({})'
  <2> USE <1>InsideValues
  <2>1. ValueOK({}) /\ TypeInv
    BY <1>InsideFrame, Zenon
  <2>2. \A d \in Coroutine : pc'[d] \in Pending \cup {"push", "pushed"} =>
                               pc[d] = pc'[d] /\ op'[d] = op[d]
    BY DEF Inside
  <2>3. /\ \A d \in Coroutine : pc'[d] \in {"push", "pushed"} => op'[d].value # 0
        /\ \A d \in Coroutine : pc'[d] \in Pending /\ op'[d].value # 0 =>
             op'[d].value <= pushes' /\ status'[op'[d].value] = "pending"
        /\ \A x, d \in Coroutine :
             /\ pc'[x] \in Pending /\ pc'[d] \in Pending
             /\ op'[x].value = op'[d].value /\ op'[x].value # 0
             => x = d
    BY <2>1, <2>2, ZenonT(30) DEF ValueOK
  <2>4. \A d \in Coroutine : pc'[d] \in {"push", "select"} /\ op'[d].value # 0 =>
          op'[d].value \notin Everywhere'
    <3> SUFFICES ASSUME NEW d \in Coroutine, pc'[d] \in {"push", "select"}, op'[d].value # 0
                 PROVE  op'[d].value \notin Everywhere
      OBVIOUS
    <3>1. pc'[d] \in Pending \cup {"push", "pushed"}
      BY Zenon DEF Pending
    <3>2. pc[d] = pc'[d] /\ op'[d] = op[d]
      BY <2>2, <3>1, Zenon
    <3> QED
      BY <2>1, <3>2, Zenon DEF ValueOK
  <2>5. /\ \A v \in Value : v > pushes' => status'[v] = "none" /\ v \notin Everywhere'
        /\ \A v \in Value : status'[v] = "false" => v \notin Everywhere'
    BY <2>1, Zenon DEF ValueOK
  <2>6. (\A d \in Channel : ~ closed'[d]) =>
          /\ \A v \in Value : status'[v] = "true" => v \in Everywhere'
          /\ \A x \in Coroutine : pc'[x] = "pushed" => op'[x].value \in Everywhere'
    <3> SUFFICES ASSUME \A d \in Channel : ~ closed'[d]
                 PROVE  /\ \A v \in Value : status'[v] = "true" => v \in Everywhere'
                        /\ \A x \in Coroutine : pc'[x] = "pushed" => op'[x].value \in Everywhere'
      BY Zenon
    <3>1. (\A d \in Channel : ~ closed[d]) /\ Everywhere' = Everywhere
      BY Zenon
    <3> QED
      BY <2>1, <2>2, <3>1, ZenonT(30) DEF ValueOK
  <2> QED
    BY <2>3, <2>4, <2>5, <2>6, Zenon DEF ValueOK

\* The pieces together.
<1>InsideKept.
     ASSUME Inv, NEW c \in Coroutine, Inside(c),
            storage' \in [Channel -> Seq(Value)], received' \in [Channel -> Seq(Value)],
            \A d \in Channel : Len(storage'[d]) <= capacity[d],
            pushes' \in 0..MaxPush, status' \in [Value -> {"none", "pending", "true", "false"}],
            closed' \in [Channel -> BOOLEAN], \A d \in Channel : closed'[d] => "close" \in use,
            \A d \in Channel : closed[d] => closed'[d],
            pc'[c] \in {"close_p", "close_c"} => closed'[op'[c].channel],
            CloseInv', Quiet', PassQuiet', ValueOK({})'
     PROVE  Inv'
  <2> USE <1>InsideKept
  <2>1. TypeInv /\ TimerInv' /\ QueueInv' /\ \A d \in Coroutine : pc'[d] = "select" => pc[d] = "select"
    BY <1>InsideFrame
  <2>2. /\ \A d \in Coroutine : pc'[d] \in {"close_p", "close_c"} => closed'[op'[d].channel]
        /\ \A d \in Coroutine : pc'[d] = "select" /\ Pushes(op'[d].requests) => op'[d].value # 0
    BY <2>1, ZenonT(30) DEF TypeInv, OpType, Inside, InWait
  <2>3. TypeInv'
    BY <2>1, <2>2, ZenonT(30) DEF TypeInv, Inside
  <2> QED
    BY <2>1, <2>3, QuietStep, Zenon

\* An operation returns to its caller.
<1>ReturnInside.
     ASSUME Inv, NEW c \in Coroutine, Running(chain) = c, pc[c] \notin InWait,
            Return(c), Returned(c), UNCHANGED << producers, consumers, able, slot, use >>
     PROVE  Inside(c) /\ pc'[c] = "user" /\ op'[c] = NoOp
  <2> USE <1>ReturnInside
  <2>1. TypeInv
    BY DEF Inv
  <2> QED
    BY <2>1, NoOpType, Zenon DEF Inside, TypeInv, Return, Returned, Where, InWait

\* A pop that was served returns.
<1>PopReturnKept.
     ASSUME Inv, NEW c \in Coroutine, PopReturn(c), UNCHANGED use
     PROVE  Inv'
  <2> USE <1>PopReturnKept
  <2>1. Inside(c) /\ pc'[c] = "user"
    BY <1>ReturnInside, Zenon DEF PopReturn, At, queues, data, InWait
  <2>2. /\ closed' = closed /\ storage' = storage /\ received' = received /\ pushes' = pushes
        /\ status' = status /\ pc[c] = "popped"
    BY DEF PopReturn, data, At
  <2>3. Inv /\ TypeInv /\ CloseInv /\ Quiet
    BY <2>1, <1>InsideFrame, Zenon
  <2>4. CloseInv'
    BY <2>1, <2>2, <2>3, <1>InsideClosers, Zenon
  <2>5. Quiet'
    <3>1. PICK ch \in Channel : TRUE
      BY ChannelAssumption
    <3>2. \A d \in Channel \ {ch} : storage'[d] = storage[d]
      BY <2>2, Zenon
    <3>3. HasConsumers(ch) /\ ~ IsUnbuffered(ch) => storage'[ch] = << >>
      BY <2>2, <2>3, Zenon DEF Quiet, QuietOn, IsEmpty
    <3> QED
      BY <2>1, <2>2, <3>2, <3>3, <1>InsideQuiet, Zenon
  <2>6. PassQuiet'
    BY <2>1, <2>2, <1>InsidePass, Zenon
  <2>7. ValueOK({})'
    BY <2>1, <2>2, <1>InsideValues DEF Everywhere, Pending
  <2> QED
    BY <2>1, <2>2, <2>3, <2>4, <2>5, <2>6, <2>7, <1>InsideKept, Zenon DEF TypeInv

\* The value of a push that succeeds has been stored or delivered.
<1>PushReturnKept.
     ASSUME Inv, NEW c \in Coroutine, PushReturn(c), UNCHANGED use
     PROVE  Inv'
  <2> USE <1>PushReturnKept
  <2>1. Inside(c) /\ pc'[c] = "user" /\ op'[c] = NoOp
    BY <1>ReturnInside, Zenon DEF PushReturn, At, queues, data, InWait
  <2>2. /\ closed' = closed /\ storage' = storage /\ received' = received /\ pushes' = pushes
        /\ pc[c] = "pushed" /\ Finished(c, "true")
    BY Zenon DEF PushReturn, data, At
  <2>3. Inv /\ TypeInv /\ CloseInv /\ Quiet /\ ValueOK({})
    BY <2>1, <1>InsideFrame, Zenon
  <2>4. CloseInv'
    BY <2>1, <2>2, <2>3, <1>InsideClosers
  <2>5. Quiet'
    <3>1. PICK ch \in Channel : TRUE
      BY ChannelAssumption
    <3>2. \A d \in Channel \ {ch} : storage'[d] = storage[d]
      BY <2>2
    <3>3. HasConsumers(ch) /\ ~ IsUnbuffered(ch) => storage'[ch] = << >>
      BY <2>2, <2>3, Zenon DEF Quiet, QuietOn, IsEmpty
    <3> QED
      BY <2>1, <2>2, <3>2, <3>3, <1>InsideQuiet, Zenon
  <2>6. PassQuiet'
    BY <2>1, <2>2, <1>InsidePass, Zenon
  <2>7. PICK v \in Value : /\ v = op[c].value /\ v <= pushes
                           /\ status' = [status EXCEPT ![v] = "true"]
    <3>1. op[c].value \in 0..MaxPush /\ op[c].value # 0
      BY <2>2, <2>3, Zenon DEF TypeInv, OpType, ValueOK
    <3>2. op[c].value <= pushes
      BY <2>2, <2>3, <3>1, Zenon DEF ValueOK, Pending
    <3>3. op[c].value \in Value
      BY <3>1, MaxPushAssumption DEF Value
    <3> QED
      BY <2>2, <3>1, <3>2, <3>3, Zenon DEF Finished
  <2>8. /\ status' \in [Value -> {"none", "pending", "true", "false"}]
        /\ status'[v] = "true" /\ \A x \in Value \ {v} : status'[x] = status[x]
    BY <2>3, <2>7, Zenon DEF TypeInv
  <2>9. ValueOK({})'
    <3>1. \A d \in Coroutine : pc'[d] \in Pending \cup {"push", "pushed"} =>
                                 d # c /\ pc[d] = pc'[d] /\ op'[d] = op[d]
      BY <2>1, Zenon DEF Inside, Pending
    <3>2. \A d \in Coroutine : op[d].value \in 0..MaxPush
      BY <2>3 DEF TypeInv, OpType
    <3>3. ASSUME NEW d \in Coroutine, pc'[d] \in Pending, op'[d].value # 0
          PROVE  /\ op'[d].value <= pushes' /\ status'[op'[d].value] = "pending"
                 /\ op'[d].value # v
      <4>1. d # c /\ op'[d] = op[d] /\ pc[d] \in Pending /\ pc[d] = pc'[d]
        BY <3>1, <3>3
      <4>2. op[d].value # v
        BY <2>2, <2>3, <2>7, <3>3, <4>1, ZenonT(30) DEF ValueOK, Pending
      <4>3. op[d].value \in Value \ {v}
        BY <3>2, <3>3, <4>1, <4>2, MaxPushAssumption DEF Value
      <4> QED
        BY <2>2, <2>3, <2>8, <3>3, <4>1, <4>2, <4>3, ZenonT(30) DEF ValueOK
    <3>4. \A d \in Coroutine : pc'[d] \in {"push", "pushed"} => op'[d].value # 0
      BY <2>3, <3>1, Zenon DEF ValueOK
    <3>5. \A x, d \in Coroutine :
             /\ pc'[x] \in Pending /\ pc'[d] \in Pending
             /\ op'[x].value = op'[d].value /\ op'[x].value # 0
             => x = d
      BY <2>3, <3>1, Zenon DEF ValueOK
    <3>6. Everywhere' = Everywhere
      BY <2>2 DEF Everywhere
    <3>7. \A d \in Coroutine : pc'[d] \in {"push", "select"} /\ op'[d].value # 0 =>
            op'[d].value \notin Everywhere'
      BY <2>3, <3>1, <3>6, Zenon DEF ValueOK, Pending
    <3>8. \A x \in Value : x > pushes' => status'[x] = "none" /\ x \notin Everywhere'
      <4> SUFFICES ASSUME NEW x \in Value, x > pushes
                   PROVE  status'[x] = "none" /\ x \notin Everywhere
        BY <2>2, <3>6, Zenon
      <4>1. x # v
        BY <2>3, <2>7 DEF Value, TypeInv
      <4> QED
        BY <2>3, <2>8, <4>1, Zenon DEF ValueOK
    <3>9. \A x \in Value : status'[x] = "false" => x \notin Everywhere'
      BY <2>3, <2>8, <3>6, ZenonT(30) DEF ValueOK
    <3>10. (\A d \in Channel : ~ closed'[d]) =>
             /\ \A x \in Value : status'[x] = "true" => x \in Everywhere'
             /\ \A x \in Coroutine : pc'[x] = "pushed" => op'[x].value \in Everywhere'
      <4> SUFFICES ASSUME \A d \in Channel : ~ closed[d]
                   PROVE  /\ \A x \in Value : status'[x] = "true" => x \in Everywhere
                          /\ \A x \in Coroutine :
                               pc'[x] = "pushed" => op'[x].value \in Everywhere
        BY <2>2, <3>6, Zenon
      <4>1. /\ \A x \in Value : status[x] = "true" => x \in Everywhere
            /\ \A x \in Coroutine : pc[x] = "pushed" => op[x].value \in Everywhere
        BY <2>3, Zenon DEF ValueOK
      <4>2. v \in Everywhere
        BY <2>2, <2>7, <4>1, Zenon
      <4>3. \A x \in Value : status'[x] = "true" => x \in Everywhere
        BY <2>8, <4>1, <4>2, Zenon
      <4> QED
        BY <3>1, <4>1, <4>3, Zenon
    <3> QED
      BY <3>3, <3>4, <3>5, <3>7, <3>8, <3>9, <3>10, Zenon DEF ValueOK
  <2> QED
    BY <2>1, <2>2, <2>3, <2>4, <2>5, <2>6, <2>8, <2>9, <1>InsideKept, ZenonT(30) DEF TypeInv

\* A push stores its value and has nobody to notify.
<1>PushStoresKept.
     ASSUME Inv, NEW c \in Coroutine, NEW ch \in Channel, NEW v \in Value, At(c, "user"),
            ~ closed[ch], Take(v), PushNow(c, ch, v), ~ HasConsumers(ch), UNCHANGED use
     PROVE  Inv'
  <2> USE <1>PushStoresKept
  <2>1. /\ ~ IsUnbuffered(ch) /\ ~ IsFull(ch)
        /\ storage' = [storage EXCEPT ![ch] = Append(storage[ch], v)]
        /\ status' = [status EXCEPT ![v] = "true"]
        /\ UNCHANGED << able, slot, pc, op, chain, timedout, producers, consumers >>
        /\ UNCHANGED << closed, received >>
    BY DEF PushNow, queues
  <2>2. v = pushes + 1 /\ pushes' = v
    BY DEF Take
  <2>3. TypeInv /\ Running(chain) = c /\ pc[c] = "user"
    BY DEF Inv, At
  <2>4. Inside(c)
    BY <2>1, <2>3, Zenon DEF Inside, TypeInv, InWait
  <2>5. CloseInv /\ Quiet /\ ValueOK({})
    BY <2>4, <1>InsideFrame, Zenon
  <2>6. CloseInv'
    BY <2>1, <2>3, <2>4, <2>5, <1>InsideClosers
  <2>7. Quiet'
    <3>1. ~ HasProducers(ch)
      BY <2>1, <2>5, Zenon DEF Quiet, QuietOn
    <3>2. \A d \in Channel \ {ch} : storage'[d] = storage[d]
      BY <2>1, <2>3, Zenon DEF TypeInv
    <3>3. \A d \in Channel : closed[d] => closed'[d]
      BY <2>1, Zenon
    <3>4. ~ HasConsumers(ch) /\ ~ HasProducers(ch)
      BY <3>1, Zenon
    <3> QED
      BY <2>4, <3>2, <3>3, <3>4, <1>InsideQuiet, Zenon
  <2>8. PassQuiet'
    BY <2>1, <2>3, <2>4, <1>InsidePass, ZenonT(30)
  <2>9. PICK n \in Nat : pushes = n /\ v = n + 1
    <3>1. pushes \in 0..MaxPush
      BY <2>3, Zenon DEF TypeInv
    <3>2. pushes \in Nat
      BY <3>1, MaxPushAssumption
    <3> QED
      BY <2>2, <3>2, Zenon
  <2>10. /\ status' \in [Value -> {"none", "pending", "true", "false"}]
         /\ status'[v] = "true" /\ \A x \in Value \ {v} : status'[x] = status[x]
         /\ pushes' \in 0..MaxPush
    <3>1. status \in [Value -> {"none", "pending", "true", "false"}]
      BY <2>3, Zenon DEF TypeInv
    <3>2. v \in 0..MaxPush
      BY MaxPushAssumption DEF Value
    <3> QED
      BY <2>1, <2>2, <3>1, <3>2
  <2>11. Everywhere' = Everywhere \cup {v}
    BY <2>1, <2>3, EverywhereStored, Zenon
  <2>12. ValueOK({})'
    <3>1. ASSUME NEW d \in Coroutine, pc[d] \in Pending, op[d].value # 0
          PROVE  /\ op[d].value <= pushes' /\ status'[op[d].value] = "pending"
                 /\ op[d].value # v
      <4>1. op[d].value \in 0..MaxPush /\ op[d].value <= n /\ status[op[d].value] = "pending"
        BY <2>3, <2>5, <2>9, <3>1, ZenonT(30) DEF TypeInv, OpType, ValueOK
      <4>2. op[d].value # v /\ op[d].value \in Value /\ op[d].value <= v
        BY <2>9, <3>1, <4>1, MaxPushAssumption DEF Value
      <4> QED
        BY <2>2, <2>10, <4>1, <4>2, Zenon
    <3>2. \A d \in Coroutine : pc[d] \in {"push", "select"} /\ op[d].value # 0 =>
            op[d].value \notin Everywhere'
      BY <2>5, <2>11, <3>1, Zenon DEF ValueOK, Pending
    <3>3. \A x \in Value : x > pushes' => status'[x] = "none" /\ x \notin Everywhere'
      <4> SUFFICES ASSUME NEW x \in Value, x > n + 1
                   PROVE  status'[x] = "none" /\ x \notin Everywhere'
        BY <2>2, <2>9
      <4>1. x # v /\ x > pushes
        BY <2>9 DEF Value
      <4> QED
        BY <2>5, <2>10, <2>11, <4>1, Zenon DEF ValueOK
    <3>4. \A x \in Value : status'[x] = "false" => x \notin Everywhere'
      BY <2>5, <2>10, <2>11, Zenon DEF ValueOK
    <3>5. (\A d \in Channel : ~ closed'[d]) =>
             /\ \A x \in Value : status'[x] = "true" => x \in Everywhere'
             /\ \A x \in Coroutine : pc[x] = "pushed" => op[x].value \in Everywhere'
      BY <2>1, <2>5, <2>10, <2>11, Zenon DEF ValueOK
    <3>6. /\ \A d \in Coroutine : pc[d] \in {"push", "pushed"} => op[d].value # 0
          /\ \A x, d \in Coroutine :
               /\ pc[x] \in Pending /\ pc[d] \in Pending
               /\ op[x].value = op[d].value /\ op[x].value # 0
               => x = d
      BY <2>5, Zenon DEF ValueOK
    <3> QED
      BY <2>1, <3>1, <3>2, <3>3, <3>4, <3>5, <3>6, Zenon DEF ValueOK
  <2>13. /\ storage' \in [Channel -> Seq(Value)] /\ received' \in [Channel -> Seq(Value)]
         /\ \A d \in Channel : Len(storage'[d]) <= capacity[d]
    <3>1. /\ storage[ch] \in Seq(Value) /\ Len(storage[ch]) <= capacity[ch]
          /\ capacity[ch] \in Nat
      BY <2>3, CapacityAssumption DEF TypeInv
    <3>2. /\ Append(storage[ch], v) \in Seq(Value) /\ Len(storage[ch]) \in Nat
          /\ Len(Append(storage[ch], v)) = Len(storage[ch]) + 1
      BY <3>1, AppendRange, Zenon
    <3>3. PICK m \in Nat, k \in Nat : m = Len(storage[ch]) /\ k = capacity[ch] /\ m <= k
      BY <3>1, <3>2, Zenon
    <3>4. ~ IsUnbuffered(ch) => m # k
      BY <2>1, <3>3, ZenonT(30) DEF IsFull
    <3>5. m # k => m + 1 <= k
      BY <3>3
    <3>6. ~ IsUnbuffered(ch) => Len(Append(storage[ch], v)) <= capacity[ch]
      BY <3>2, <3>3, <3>4, <3>5, Zenon
    <3> QED
      BY <2>1, <2>3, <3>2, <3>6, Zenon DEF TypeInv
  <2> QED
    BY <2>1, <2>3, <2>4, <2>6, <2>7, <2>8, <2>10, <2>12, <2>13, <1>InsideKept, Zenon DEF TypeInv

\* A pop takes a stored value and has nobody to notify.
<1>PopTakesKept.
     ASSUME Inv, NEW c \in Coroutine, NEW ch \in Channel, At(c, "user"),
            PopNow(c, ch), ~ HasProducers(ch), UNCHANGED use
     PROVE  Inv'
  <2> USE <1>PopTakesKept
  <2>1. /\ ~ IsUnbuffered(ch) /\ storage[ch] # << >>
        /\ received' = [received EXCEPT ![ch] = Append(received[ch], Head(storage[ch]))]
        /\ storage' = [storage EXCEPT ![ch] = Tail(storage[ch])]
        /\ UNCHANGED << able, slot, pc, op, chain, timedout, producers, consumers >>
        /\ UNCHANGED << closed, pushes, status >>
    BY DEF PopNow, queues, Deliver, IsEmpty
  <2>2. TypeInv /\ Running(chain) = c /\ pc[c] = "user"
    BY DEF Inv, At
  <2>3. Inside(c)
    BY <2>1, <2>2, Zenon DEF Inside, TypeInv, InWait
  <2>4. CloseInv /\ Quiet
    BY <2>3, <1>InsideFrame, Zenon
  <2>5. CloseInv'
    BY <2>1, <2>2, <2>3, <2>4, <1>InsideClosers, Zenon
  <2>6. Quiet'
    <3>1. ~ HasConsumers(ch)
      BY <2>1, <2>4, Zenon DEF Quiet, QuietOn, IsEmpty
    <3>2. \A d \in Channel \ {ch} : storage'[d] = storage[d]
      BY <2>1, <2>2, Zenon DEF TypeInv
    <3> QED
      BY <2>1, <2>3, <3>1, <3>2, <1>InsideQuiet
  <2>7. PICK h \in Value :
          /\ h = Head(storage[ch]) /\ Tail(storage[ch]) \in Seq(Value)
          /\ Len(Tail(storage[ch])) <= capacity[ch]
    <3>1. /\ storage[ch] \in Seq(Value) /\ Len(storage[ch]) <= capacity[ch]
          /\ capacity[ch] \in Nat
      BY <2>2, CapacityAssumption, Zenon DEF TypeInv
    <3>2. /\ Head(storage[ch]) \in Value /\ Tail(storage[ch]) \in Seq(Value)
          /\ Len(Tail(storage[ch])) + 1 = Len(storage[ch])
          /\ Len(storage[ch]) \in Nat /\ Len(Tail(storage[ch])) \in Nat
      BY <2>1, <3>1, TailRange, Zenon
    <3>3. Len(Tail(storage[ch])) <= capacity[ch]
      BY <3>1, <3>2
    <3> QED
      BY <3>2, <3>3, Zenon
  <2>8. /\ Append(received[ch], h) \in Seq(Value)
        /\ Range(Append(received[ch], h)) = Range(received[ch]) \cup {h}
    <3>1. received[ch] \in Seq(Value)
      BY <2>2, Zenon DEF TypeInv
    <3> QED
      BY <3>1, AppendRange
  <2>9. \A d \in Channel : Range(received[d]) \subseteq Range(received'[d])
    BY <2>1, <2>2, <2>7, <2>8, ZenonT(30) DEF TypeInv
  <2>10. PassQuiet'
    BY <2>1, <2>2, <2>3, <2>9, <1>InsidePass, Zenon
  <2>11. Everywhere' = Everywhere
    BY <2>1, <2>2, EverywhereMoved, Zenon
  <2>12. ValueOK({})'
    BY <2>1, <2>2, <2>3, <2>11, <1>InsideValues DEF Pending
  <2>13. /\ storage' \in [Channel -> Seq(Value)] /\ received' \in [Channel -> Seq(Value)]
         /\ \A d \in Channel : Len(storage'[d]) <= capacity[d]
    BY <2>1, <2>2, <2>7, <2>8, Zenon DEF TypeInv
  <2> QED
    BY <2>1, <2>2, <2>3, <2>5, <2>6, <2>10, <2>12, <2>13, <1>InsideKept, ZenonT(30) DEF TypeInv

\* close() begins.
<1>CloseKept.
     ASSUME Inv, NEW c \in Coroutine, NEW ch \in Channel, NEW cleanup \in BOOLEAN,
            Close(c, ch, cleanup), UNCHANGED use
     PROVE  Inv'
  <2> USE <1>CloseKept
  <2>1. /\ Running(chain) = c /\ pc[c] = "user" /\ "close" \in use
        /\ closed' = [closed EXCEPT ![ch] = TRUE]
        /\ pc' = [pc EXCEPT ![c] = "close_p"]
        /\ op' = [op EXCEPT ![c] = CloseArgs(ch, cleanup)]
        /\ UNCHANGED << chain, timedout, producers, consumers, able, slot >>
        /\ UNCHANGED << storage, received, pushes, status >>
    BY DEF Close, At, CloseArgs, queues, data
  <2>2. PICK args \in OpType : args = CloseArgs(ch, cleanup) /\ args.channel = ch
    BY <1>CloseArgsType
  <2>3. TypeInv
    BY DEF Inv
  <2>4. Inside(c) /\ pc'[c] = "close_p" /\ op'[c].channel = ch
    BY <2>1, <2>2, <2>3, Zenon DEF Inside, TypeInv, InWait, Where
  <2>5. CloseInv /\ Quiet
    BY <2>4, <1>InsideFrame, Zenon
  <2>6. closed' \in [Channel -> BOOLEAN] /\ closed'[ch] /\ \A d \in Channel \ {ch} : closed'[d] = closed[d]
    BY <2>1, <2>3, Zenon DEF TypeInv
  <2>7. CloseInv'
    <3>1. \A x \in Coroutine : pc[x] \in {"close_p", "close_c"} => pc'[x] = pc[x] /\ op'[x] = op[x]
      BY <2>1, <2>4 DEF Inside
    <3> SUFFICES ASSUME NEW d \in Channel, closed'[d]
                 PROVE  /\ HasProducers(d)' => \E x \in Coroutine :
                             pc'[x] = "close_p" /\ op'[x].channel = d
                        /\ HasConsumers(d)' => \E x \in Coroutine :
                             pc'[x] \in {"close_p", "close_c"} /\ op'[x].channel = d
      BY Zenon DEF CloseInv
    <3>2. CASE d = ch
      BY <2>4, <3>2
    <3>3. CASE d # ch
      <4>1. closed[d]
        BY <2>6, <3>3
      <4>2. /\ HasProducers(d) => \E x \in Coroutine : pc[x] = "close_p" /\ op[x].channel = d
            /\ HasConsumers(d) => \E x \in Coroutine : pc[x] \in {"close_p", "close_c"}
                                                        /\ op[x].channel = d
        BY <2>5, <4>1, Zenon DEF CloseInv
      <4>3. (HasProducers(d)' <=> HasProducers(d)) /\ (HasConsumers(d)' <=> HasConsumers(d))
        BY <2>1, Zenon DEF HasProducers, HasConsumers
      <4> QED
        BY <3>1, <4>2, <4>3, Zenon
    <3> QED
      BY <3>2, <3>3, ZenonT(30)
  <2>8. \A d \in Channel : closed[d] => closed'[d]
    BY <2>6
  <2>9. Quiet'
    <3>1. HasConsumers(ch) /\ ~ IsUnbuffered(ch) => storage'[ch] = << >>
      BY <2>1, <2>5, Zenon DEF Quiet, QuietOn, IsEmpty
    <3> QED
      BY <2>1, <2>4, <2>8, <3>1, <1>InsideQuiet, Zenon
  <2>10. PassQuiet'
    BY <2>1, <2>4, <1>InsidePass, Zenon
  <2>11. ValueOK({})'
    BY <2>1, <2>4, <2>8, <1>InsideValues, Zenon DEF Everywhere, Pending
  <2>12. \A d \in Channel : closed'[d] => "close" \in use
    BY <2>1
  <2> QED
    BY <2>1, <2>3, <2>4, <2>6, <2>7, <2>9, <2>10, <2>11, <2>12, <1>InsideKept, ZenonT(30) DEF TypeInv

\* close() has woken the last producer.
<1>CloseNextKept.
     ASSUME Inv, NEW c \in Coroutine, CloseProducers(c), ~ HasProducers(op[c].channel),
            UNCHANGED use
     PROVE  Inv'
  <2> USE <1>CloseNextKept
  <2>1. /\ Running(chain) = c /\ pc[c] = "close_p"
        /\ pc' = [pc EXCEPT ![c] = "close_c"]
        /\ UNCHANGED << chain, timedout, producers, consumers, able, slot, op, closed >>
        /\ UNCHANGED << storage, received, pushes, status >>
    BY DEF CloseProducers, At, queues, data
  <2>2. TypeInv
    BY DEF Inv
  <2>3. Inside(c) /\ pc'[c] = "close_c"
    BY <2>1, <2>2, Zenon DEF Inside, TypeInv, InWait, Where
  <2>4. CloseInv /\ Quiet
    BY <2>3, <1>InsideFrame, Zenon
  <2>5. PICK ch \in Channel : ch = op[c].channel
    BY <2>2 DEF TypeInv, OpType
  <2>6. CloseInv'
    <3>1. \A x \in Coroutine \ {c} : pc'[x] = pc[x]
      BY <2>3, ZenonT(30) DEF Inside
    <3> SUFFICES ASSUME NEW d \in Channel, closed[d]
                 PROVE  /\ HasProducers(d) => \E x \in Coroutine :
                             pc'[x] = "close_p" /\ op[x].channel = d
                        /\ HasConsumers(d) => \E x \in Coroutine :
                             pc'[x] \in {"close_p", "close_c"} /\ op[x].channel = d
      BY <2>1 DEF CloseInv, HasProducers, HasConsumers
    <3>2. /\ HasProducers(d) => \E x \in Coroutine : pc[x] = "close_p" /\ op[x].channel = d
          /\ HasConsumers(d) => \E x \in Coroutine : pc[x] \in {"close_p", "close_c"}
                                                      /\ op[x].channel = d
      BY <2>4, Zenon DEF CloseInv
    <3>3. ASSUME HasProducers(d)
          PROVE  \E x \in Coroutine : pc'[x] = "close_p" /\ op[x].channel = d
      <4>1. PICK x \in Coroutine : pc[x] = "close_p" /\ op[x].channel = d
        BY <3>2, <3>3, Zenon
      <4>2. x # c
        BY <3>3, <4>1
      <4> QED
        BY <3>1, <4>1, <4>2, Zenon
    <3> QED
      BY <2>3, <3>1, <3>2, <3>3, Zenon
  <2>7. Quiet'
    <3>1. HasConsumers(ch) /\ ~ IsUnbuffered(ch) => storage'[ch] = << >>
      BY <2>1, <2>4, Zenon DEF Quiet, QuietOn, IsEmpty
    <3> QED
      BY <2>1, <2>3, <3>1, <1>InsideQuiet, Zenon
  <2>8. PassQuiet'
    BY <2>1, <2>3, <1>InsidePass
  <2>9. ValueOK({})'
    BY <2>1, <2>3, <1>InsideValues, Zenon DEF Everywhere, Pending
  <2> QED
    BY <2>1, <2>2, <2>3, <2>6, <2>7, <2>8, <2>9, <1>InsideKept, ZenonT(30) DEF TypeInv

\* A closed channel is drained, or nothing happens.
<1>DrainKept.
     ASSUME Inv, NEW c \in Coroutine, Inside(c), NEW ch \in Channel,
            \/ closed[ch] /\ storage' = [storage EXCEPT ![ch] = << >>]
            \/ storage' = storage,
            pc'[c] = "user", UNCHANGED << received, closed, pushes, status >>, CloseInv'
     PROVE  Inv'
  <2> USE <1>DrainKept
  <2>1. TypeInv /\ Quiet
    BY <1>InsideFrame, Zenon
  <2>2. /\ storage' \in [Channel -> Seq(Value)] /\ \A d \in Channel \ {ch} : storage'[d] = storage[d]
        /\ \/ closed[ch] /\ storage'[ch] = << >>
           \/ storage' = storage
    <3>1. storage \in [Channel -> Seq(Value)]
      BY <2>1, Zenon DEF TypeInv
    <3>2. CASE closed[ch] /\ storage' = [storage EXCEPT ![ch] = << >>]
      <4>0. << >> \in Seq(Value)
        OBVIOUS
      <4>1. PICK e \in Seq(Value) : e = << >>
        BY <4>0, Zenon
      <4> QED
        BY <3>1, <3>2, <4>1, Zenon
    <3>3. CASE storage' = storage
      BY <3>1, <3>3
    <3> QED
      BY <3>2, <3>3
  <2>3. \A d \in Channel : Len(storage'[d]) <= capacity[d]
    <3>1. Len(<< >>) <= capacity[ch]
      BY CapacityAssumption
    <3> QED
      BY <2>1, <2>2, <3>1, Zenon DEF TypeInv
  <2>4. Quiet'
    <3>1. HasConsumers(ch) /\ ~ IsUnbuffered(ch) => storage'[ch] = << >>
      BY <2>1, <2>2, ZenonT(30) DEF Quiet, QuietOn, IsEmpty
    <3> QED
      BY <2>2, <3>1, <1>InsideQuiet
  <2>5. PassQuiet'
    BY <1>InsidePass, Zenon
  <2>6. Everywhere' \subseteq Everywhere /\ (Everywhere' = Everywhere \/ \E d \in Channel : closed[d])
    <3>1. CASE closed[ch] /\ storage' = [storage EXCEPT ![ch] = << >>]
      BY <2>1, <3>1, EverywhereDrained, Zenon
    <3>2. CASE storage' = storage
      BY <3>2, Zenon DEF Everywhere
    <3> QED
      BY <3>1, <3>2
  <2>7. ValueOK({})'
    BY <2>6, <1>InsideValues DEF Pending
  <2> QED
    BY <2>1, <2>2, <2>3, <2>4, <2>5, <2>7, <1>InsideKept, ZenonT(30) DEF TypeInv

\* A close that has woken everybody returns.
<1>CloseReturnKept.
     ASSUME Inv, NEW c \in Coroutine, CloseReturn(c), UNCHANGED use
     PROVE  Inv'
  <2> USE <1>CloseReturnKept
  <2>1. /\ Running(chain) = c /\ pc[c] = "close_c" /\ ~ HasConsumers(op[c].channel)
        /\ Returned(c) /\ Return(c)
        /\ UNCHANGED << producers, consumers, able, slot, received, closed, pushes, status >>
        /\ \/ storage' = [storage EXCEPT ![op[c].channel] = << >>]
           \/ storage' = storage
    BY Zenon DEF CloseReturn, At, queues, data, Drain
  <2>2. TypeInv
    BY DEF Inv
  <2>3. Inside(c) /\ pc'[c] = "user"
    BY <2>1, <1>ReturnInside, Zenon DEF InWait
  <2>4. CloseInv /\ Quiet
    BY <2>3, <1>InsideFrame, Zenon
  <2>5. PICK ch \in Channel : ch = op[c].channel
    BY <2>2 DEF TypeInv, OpType
  <2>6. CloseInv'
    <3>1. \A x \in Coroutine \ {c} : pc'[x] = pc[x] /\ op'[x] = op[x]
      BY <2>3, Zenon DEF Inside
    <3> SUFFICES ASSUME NEW d \in Channel, closed[d]
                 PROVE  /\ HasProducers(d) => \E x \in Coroutine :
                             pc'[x] = "close_p" /\ op'[x].channel = d
                        /\ HasConsumers(d) => \E x \in Coroutine :
                             pc'[x] \in {"close_p", "close_c"} /\ op'[x].channel = d
      BY <2>1, Zenon DEF CloseInv, HasProducers, HasConsumers
    <3>2. /\ HasProducers(d) => \E x \in Coroutine : pc[x] = "close_p" /\ op[x].channel = d
          /\ HasConsumers(d) => \E x \in Coroutine : pc[x] \in {"close_p", "close_c"}
                                                      /\ op[x].channel = d
      BY <2>4, Zenon DEF CloseInv
    <3>3. HasConsumers(d) => d # op[c].channel
      BY <2>1, Zenon
    <3> QED
      BY <2>1, <3>1, <3>2, <3>3, Zenon
  <2>7. closed[ch] \/ storage' = storage
    BY <2>1, <2>2, <2>5, Zenon DEF TypeInv
  <2> QED
    BY <2>1, <2>3, <2>5, <2>6, <2>7, <1>DrainKept, Zenon

\* The cleanup of a closed channel drops the values that are left in it.
<1>CleanupKept.
     ASSUME Inv, NEW c \in Coroutine, NEW ch \in Channel, Cleanup(c, ch), UNCHANGED use
     PROVE  Inv'
  <2> USE <1>CleanupKept
  <2>1. /\ Running(chain) = c /\ pc[c] = "user" /\ closed[ch]
        /\ UNCHANGED << chain, pc, op, timedout, producers, consumers, able, slot >>
        /\ UNCHANGED << received, closed, pushes, status >>
        /\ storage' = [storage EXCEPT ![ch] = << >>]
    BY DEF Cleanup, At, queues, data, Drain
  <2>2. TypeInv /\ CloseInv
    BY DEF Inv
  <2>3. Inside(c) /\ pc'[c] = "user"
    BY <2>1, <2>2, Zenon DEF Inside, TypeInv, InWait
  <2>4. CloseInv'
    BY <2>1, <2>2, <2>3, <1>InsideClosers
  <2> QED
    BY <2>1, <2>3, <2>4, <1>DrainKept, Zenon

<1> QED
  BY <1>PopReturnKept, <1>PushReturnKept, <1>PushStoresKept, <1>PopTakesKept, <1>CloseKept, <1>CloseNextKept,
     <1>CloseReturnKept, <1>CleanupKept, Zenon

=============================================================================
