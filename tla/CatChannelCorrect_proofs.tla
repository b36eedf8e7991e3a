---------------------- MODULE CatChannelCorrect_proofs ----------------------
(***************************************************************************)
(* Proofs about CatChannel, concluded: producers and consumers of a        *)
(* channel without a buffer do not wait at once, Ascending() lists what it *)
(* should, every step keeps the invariant, and the theorems follow.        *)
(***************************************************************************)
EXTENDS CatChannelWoken_proofs, FiniteSetTheorems, NaturalsInduction,
        WellFoundedInduction

-----------------------------------------------------------------------------
\* Producers and consumers do not wait at once.

\* Not both of them wait.
SidesApart == \A ch \in Channel : IsUnbuffered(ch) => ~ (HasProducers(ch) /\ HasConsumers(ch))

\* No queue gets its first waiter.
NoneJoins ==
  \A ch \in Channel : (producers[ch] = << >> => producers'[ch] = << >>)
                      /\ (consumers[ch] = << >> => consumers'[ch] = << >>)

\* Every step keeps the two sides apart.
LEMMA SidesKept ==
  ASSUME Listing, OneWay, TypeInv, SidesApart, [Next]_vars
  PROVE  SidesApart'
\* A step in which no queue gets its first waiter.
<1>SidesStay.
     ASSUME SidesApart, NoneJoins
     PROVE  SidesApart'
  BY <1>SidesStay DEF SidesApart, NoneJoins, HasProducers, HasConsumers, IsUnbuffered

\* Nothing can be taken out of an empty queue.
<1>RemoveEmpty.
     ASSUME Listing, NEW c, NEW last
     PROVE  Remove(<< >>, c, last) = << >>
  <2> USE <1>RemoveEmpty
  <2>1. PICK q : q = << >>
    OBVIOUS
  <2> DEFINE S == { i \in DOMAIN q : ~ (Owns(c, q[i]) /\ q[i].index <= last) }
             Left(e) == IF Owns(c, e) THEN [e EXCEPT !.freed = TRUE] ELSE e
  <2>2. S = {} /\ Len(q) = 0
    BY <2>1
  <2>3. Ascending({}, 0) \in Seq({})
    BY DEF Listing
  <2>4. Ascending({}, 0) = << >>
    BY <2>3
  <2>5. Remove(q, c, last) = [k \in DOMAIN Ascending(S, Len(q)) |-> Left(q[Ascending(S, Len(q))[k]])]
    BY DEF Remove
  <2> HIDE DEF Left, S
  <2>6. Remove(q, c, last) = [k \in DOMAIN << >> |-> Left(q[<< >>[k]])]
    BY <2>2, <2>4, <2>5
  <2>7. [k \in DOMAIN << >> |-> Left(q[<< >>[k]])] = << >>
    OBVIOUS
  <2> QED
    BY <2>1, <2>6, <2>7, Zenon

\* The dummies of a select() are those of requests.
<1>DummiesAsked.
     ASSUME Listing, NEW c \in Coroutine, NEW requests \in Selects, NEW ch, NEW opcode,
            \A i \in DOMAIN requests : requests[i] # [channel |-> ch, opcode |-> opcode]
     PROVE  Dummies(c, requests, ch, opcode) = << >>
  <2> USE <1>DummiesAsked
  <2> DEFINE asks == { i \in DOMAIN requests :
                         requests[i] = [channel |-> ch, opcode |-> opcode] }
  <2>1. asks = {}
    OBVIOUS
  <2>2. Len(requests) \in Nat
    BY SelectsAssumption
  <2>3. Ascending({}, Len(requests)) \in Seq({})
    BY <2>2, Zenon DEF Listing
  <2>4. Ascending({}, Len(requests)) = << >>
    BY <2>3
  <2>5. Dummies(c, requests, ch, opcode) = [k \in DOMAIN << >> |-> Waiter(c, << >>[k])]
    BY <2>1, <2>4, Zenon DEF Dummies
  <2>6. [k \in DOMAIN << >> |-> Waiter(c, << >>[k])] = << >>
    OBVIOUS
  <2> QED
    BY <2>5, <2>6, Zenon

\* A select() that begins to wait on one side of a channel finds nobody on the other.
<1>SelectSides.
     ASSUME Listing, OneWay, TypeInv, SidesApart, NEW c \in Coroutine, NEW requests \in Selects,
            NEW timed, SelectWait(c, requests, timed)
     PROVE  SidesApart'
  <2> USE <1>SelectSides
  <2> SUFFICES ASSUME NEW ch \in Channel, IsUnbuffered(ch)
               PROVE  producers'[ch] = << >> \/ consumers'[ch] = << >>
    BY DEF SidesApart, HasProducers, HasConsumers, IsUnbuffered
  <2> DEFINE P == [channel |-> ch, opcode |-> "PUSH"]
             C == [channel |-> ch, opcode |-> "POP"]
  <2>1. /\ producers'[ch] = producers[ch] \o Dummies(c, requests, ch, "PUSH")
        /\ consumers'[ch] = consumers[ch] \o Dummies(c, requests, ch, "POP")
        /\ \A i \in DOMAIN requests : ~ Hit(requests[i])
    BY DEF SelectWait
  <2>2. << >> \o << >> = << >>
    OBVIOUS
  <2>3. ASSUME NEW i \in DOMAIN requests, requests[i] = P PROVE consumers'[ch] = << >>
    <3>1. requests[i].channel = ch /\ requests[i].opcode = "PUSH"
      BY <2>3
    <3>2. consumers[ch] = << >>
      BY <2>1, <3>1, Zenon DEF Hit, IsWritable, HasConsumers
    <3>3. ASSUME NEW j \in DOMAIN requests PROVE requests[j] # C
      <4>1. C.channel = ch /\ C.opcode = "POP"
        OBVIOUS
      <4> QED
        BY <3>1, <4>1, Zenon DEF OneWay
    <3>4. Dummies(c, requests, ch, "POP") = << >>
      BY <3>3, <1>DummiesAsked
    <3> QED
      BY <2>1, <2>2, <3>2, <3>4, ZenonT(30)
  <2>4. ASSUME NEW i \in DOMAIN requests, requests[i] = C PROVE producers'[ch] = << >>
    <3>1. requests[i].channel = ch /\ requests[i].opcode = "POP"
      BY <2>4
    <3>2. producers[ch] = << >>
      BY <2>1, <3>1, Zenon DEF Hit, IsReadable, HasProducers
    <3>3. ASSUME NEW j \in DOMAIN requests PROVE requests[j] # P
      <4>1. P.channel = ch /\ P.opcode = "PUSH"
        OBVIOUS
      <4> QED
        BY <3>1, <4>1, Zenon DEF OneWay
    <3>4. Dummies(c, requests, ch, "PUSH") = << >>
      BY <3>3, <1>DummiesAsked, Zenon
    <3> QED
      BY <2>1, <2>2, <3>2, <3>4, Zenon
  <2>5. CASE \A i \in DOMAIN requests : requests[i] # P /\ requests[i] # C
    <3>1. Dummies(c, requests, ch, "PUSH") = << >> /\ Dummies(c, requests, ch, "POP") = << >>
      BY <2>5, <1>DummiesAsked, Zenon
    <3>2. producers[ch] = << >> \/ consumers[ch] = << >>
      BY DEF SidesApart, HasProducers, HasConsumers
    <3> QED
      BY <2>1, <2>2, <3>1, <3>2, Zenon
  <2> QED
    BY <2>3, <2>4, <2>5, Zenon

\* A switch to a waiter leaves the queues as they are, but for the mark of a dummy.
<1>ResumeJoins.
     ASSUME TypeInv, NEW c, NEW ch \in Channel,
            \/ HasConsumers(ch) /\ ResumeConsumer(c, ch)
            \/ HasProducers(ch) /\ ResumeProducer(c, ch)
            \/ UNCHANGED queues
     PROVE  NoneJoins
  <2> USE <1>ResumeJoins
  <2>1. producers \in [Channel -> Seq(WaiterType)] /\ consumers \in [Channel -> Seq(WaiterType)]
    BY Zenon DEF TypeInv
  <2> QED
    BY <2>1 DEF ResumeConsumer, ResumeProducer, HasConsumers, HasProducers, NoneJoins, queues

\* push() and pop(), when they do not wait.
<1>NowJoins.
     ASSUME TypeInv, NEW c, NEW ch \in Channel, (\E v : PushNow(c, ch, v)) \/ PopNow(c, ch)
     PROVE  NoneJoins
  <2> USE <1>NowJoins
  <2>1. CASE \E v : PushNow(c, ch, v)
    <3>1. \/ HasConsumers(ch) /\ ResumeConsumer(c, ch)
          \/ UNCHANGED queues
      BY <2>1, Zenon DEF PushNow, queues
    <3> QED
      BY <3>1, <1>ResumeJoins
  <2>2. CASE PopNow(c, ch)
    <3>1. \/ HasProducers(ch) /\ ResumeProducer(c, ch)
          \/ UNCHANGED queues
      BY <2>2, Zenon DEF PopNow, queues
    <3> QED
      BY <3>1, <1>ResumeJoins
  <2> QED
    BY <2>1, <2>2, Zenon

<1>0. producers \in [Channel -> Seq(WaiterType)] /\ consumers \in [Channel -> Seq(WaiterType)]
  BY Zenon DEF TypeInv
<1>1. ASSUME UNCHANGED queues PROVE SidesApart'
  BY <1>1, <1>SidesStay DEF NoneJoins, queues
<1>2. CASE UNCHANGED vars
  BY <1>1, <1>2 DEF vars
<1>3. CASE Next
  <2>1. PICK c \in Coroutine :
          \/ \E ch \in Channel : ChannelStep(c, ch)
          \/ \E requests \in Selects : SelectStep(c, requests)
          \/ Continue(c)
          \/ Sleep(c) \/ (\E target \in Coroutine : Resume(c, target)) \/ Wakeup(c) \/ Timeout(c)
    BY <1>3, Zenon DEF Next
  <2>2. ASSUME NEW ch \in Channel, ChannelStep(c, ch) PROVE SidesApart'
    <3>1. CASE Push(c, ch) \/ Pop(c, ch)
      BY <3>1, <1>NowJoins, <1>SidesStay, ZenonT(30) DEF Push, Pop
    <3>2. ASSUME NEW timed \in BOOLEAN, PushWait(c, ch, timed) PROVE SidesApart'
      <4>1. /\ consumers' = consumers
            /\ producers' = [producers EXCEPT ![ch] = Append(producers[ch], Waiter(c, 0))]
            /\ IsUnbuffered(ch) => ~ HasConsumers(ch)
        BY <3>2 DEF PushWait
      <4> QED
        BY <1>0, <4>1, Zenon DEF SidesApart, HasProducers, HasConsumers, IsUnbuffered
    <3>3. ASSUME NEW timed \in BOOLEAN, PopWait(c, ch, timed) PROVE SidesApart'
      <4>1. /\ producers' = producers
            /\ consumers' = [consumers EXCEPT ![ch] = Append(consumers[ch], Waiter(c, 0))]
            /\ IsUnbuffered(ch) => ~ HasProducers(ch)
        BY <3>3 DEF PopWait
      <4> QED
        BY <1>0, <4>1, Zenon DEF SidesApart, HasProducers, HasConsumers, IsUnbuffered
    <3>4. CASE (\E cleanup \in BOOLEAN : Close(c, ch, cleanup)) \/ Cleanup(c, ch)
      BY <1>1, <3>4, Zenon DEF Close, Cleanup
    <3> QED
      BY <2>2, <3>1, <3>2, <3>3, <3>4, ZenonT(30) DEF ChannelStep
  <2>3. ASSUME NEW requests \in Selects, SelectStep(c, requests) PROVE SidesApart'
    <3>1. CASE SelectNow(c, requests)
      <4>1. PICK i \in DOMAIN requests : \/ \E v : PushNow(c, requests[i].channel, v)
                                         \/ PopNow(c, requests[i].channel)
        BY <3>1, Zenon DEF SelectNow
      <4>2. requests[i].channel \in Channel
        <5>1. requests[i] \in Request
          BY SelectsAssumption
        <5> QED
          BY <5>1 DEF Request
      <4> QED
        BY <4>1, <4>2, <1>NowJoins, <1>SidesStay, Zenon
    <3> QED
      BY <2>3, <3>1, <1>SelectSides, Zenon DEF SelectStep
  <2>4. CASE Continue(c)
    <3>0. op[c].channel \in Channel
      BY DEF TypeInv, OpType
    <3>1. CASE PushWoken(c)
      <4>1. /\ producers' = [producers EXCEPT ![op[c].channel] =
                               Remove(producers[op[c].channel], c, 0)]
            /\ consumers' = consumers
        BY <3>1, Zenon DEF PushWoken
      <4>2. NoneJoins
        BY <1>0, <4>1, <1>RemoveEmpty, Zenon DEF NoneJoins
      <4> QED
        BY <4>2, <1>SidesStay
    <3>2. CASE PopWoken(c)
      <4>1. /\ consumers' = [consumers EXCEPT ![op[c].channel] =
                               Remove(consumers[op[c].channel], c, 0)]
            /\ producers' = producers
        BY <3>2, Zenon DEF PopWoken
      <4>2. NoneJoins
        BY <1>0, <4>1, <1>RemoveEmpty, Zenon DEF NoneJoins
      <4> QED
        BY <4>2, <1>SidesStay
    <3>3. CASE SelectWoken(c)
      <4>1. \A ch \in Channel : /\ producers'[ch] = Remove(producers[ch], c, LastRemoved(c))
                                /\ consumers'[ch] = Remove(consumers[ch], c, LastRemoved(c))
        BY <3>3, Zenon DEF SelectWoken
      <4>2. NoneJoins
        BY <4>1, <1>RemoveEmpty, Zenon DEF NoneJoins
      <4> QED
        BY <4>2, <1>SidesStay
    <3>4. CASE PushReturn(c) \/ PopReturn(c) \/ CloseReturn(c)
      BY <1>1, <3>4, Zenon DEF PushReturn, PopReturn, CloseReturn
    <3>5. CASE CloseProducers(c)
      <4>1. \/ HasProducers(op[c].channel) /\ ResumeProducer(c, op[c].channel)
            \/ UNCHANGED queues
        BY <3>5, Zenon DEF CloseProducers, queues
      <4> QED
        BY <3>0, <4>1, <1>ResumeJoins, <1>SidesStay, Zenon
    <3>6. CASE CloseConsumers(c)
      <4>1. HasConsumers(op[c].channel) /\ ResumeConsumer(c, op[c].channel)
        BY <3>6, Zenon DEF CloseConsumers
      <4> QED
        BY <3>0, <4>1, <1>ResumeJoins, <1>SidesStay, Zenon
    <3> QED
      BY <2>4, <3>1, <3>2, <3>3, <3>4, <3>5, <3>6, ZenonT(30) DEF Continue
  <2>5. CASE Sleep(c) \/ (\E target \in Coroutine : Resume(c, target)) \/ Wakeup(c) \/ Timeout(c)
    BY <1>1, <2>5, Zenon DEF Sleep, Resume, Wakeup, Timeout
  <2> QED
    BY <2>1, <2>2, <2>3, <2>4, <2>5, ZenonT(30)
<1> QED
  BY <1>2, <1>3

-----------------------------------------------------------------------------
\* Lists of positions.

\* s lists the elements of S in their order.
Lists(s, S) == Range(s) = S /\ \A i, j \in DOMAIN s : i < j => s[i] < s[j]

\* The sets of positions up to m can be listed.
CanList(m) ==
  \A T \in SUBSET (1..m) : \E k \in 0..m : \E s \in [1..k -> T] : Lists(s, T)

\* So the positions can be listed.
LEMMA AscendingLists == Listing
\* A set of natural numbers that has 0, and the successor of each of its elements, has
\* them all.
<1>SetInduction.
     ASSUME NEW S \in SUBSET Nat, 0 \in S, \A n \in S : n + 1 \in S
     PROVE  S = Nat
  <2> USE <1>SetInduction
  <2> DEFINE Less == { ss \in Nat \X Nat : ss[1] < ss[2] }
  <2>1. IsWellFoundedOn(Less, Nat)
    BY NatLessThanWellFounded DEF OpToRel
  <2> SUFFICES ASSUME Nat \ S # {} PROVE FALSE
    BY Zenon
  <2>2. PICK x \in Nat \ S : \A y \in Nat \ S : << y, x >> \notin Less
    BY <2>1, WFMin, Zenon
  <2>3. x - 1 \in Nat /\ << x - 1, x >> \in Less
    BY <2>2
  <2>4. x - 1 \in S
    BY <2>2, <2>3
  <2> QED
    BY <2>2, <2>3, <2>4

\* Every finite set of positions can be listed.
<1>Listed.
     ASSUME NEW n \in Nat, NEW S \in SUBSET (1..n)
     PROVE  \E k \in 0..n : \E s \in [1..k -> S] : Lists(s, S)
  <2> USE <1>Listed
  <2>1. CanList(0)
    <3> SUFFICES ASSUME NEW T \in SUBSET (1..0)
                 PROVE  \E k \in 0..0 : \E s \in [1..k -> T] : Lists(s, T)
      BY DEF CanList
    <3>1. T = {}
      OBVIOUS
    <3>2. << >> \in [1..0 -> T] /\ Lists(<< >>, T)
      BY <3>1 DEF Lists, Range
    <3>3. \E s \in [1..0 -> T] : Lists(s, T)
      BY <3>2, Zenon
    <3>4. 0 \in 0..0
      OBVIOUS
    <3> QED
      BY <3>3, <3>4, Zenon
  <2>2. ASSUME NEW m \in Nat, CanList(m) PROVE CanList(m + 1)
    <3> SUFFICES ASSUME NEW T \in SUBSET (1..(m + 1))
                 PROVE  \E k \in 0..(m + 1) : \E s \in [1..k -> T] : Lists(s, T)
      BY Zenon DEF CanList
    <3>1. PICK U \in SUBSET (1..m) : \A x : x \in U <=> x \in T /\ x # m + 1
      <4>1. T \ {m + 1} \in SUBSET (1..m)
        OBVIOUS
      <4> QED
        BY <4>1, Zenon
    <3>2. PICK k \in 0..m : \E s \in [1..k -> U] : Lists(s, U)
      BY <2>2, <3>1, Zenon DEF CanList
    <3>3. PICK s \in [1..k -> U] : Lists(s, U)
      BY <3>2
    <3>4. CASE m + 1 \notin T
      <4>1. U = T
        BY <3>1, <3>4, Zenon
      <4> QED
        BY <3>3, <4>1
    <3>5. CASE m + 1 \in T
      <4>0. \A i \in 1..k : s[i] \in T /\ s[i] \in 1..m
        BY <3>1, <3>3, Zenon
      <4>1. PICK t : t = [i \in 1..(k + 1) |-> IF i = k + 1 THEN m + 1 ELSE s[i]]
        BY Zenon
      <4>2. k + 1 \in 1..(k + 1) /\ \A i \in 1..k : i \in 1..(k + 1) /\ i # k + 1
        OBVIOUS
      <4>3. DOMAIN t = 1..(k + 1) /\ t[k + 1] = m + 1 /\ \A i \in 1..k : t[i] = s[i]
        BY <4>1, <4>2, Zenon
      <4>4. \A i \in 1..(k + 1) : i = k + 1 \/ i \in 1..k
        OBVIOUS
      <4>5. t \in [1..(k + 1) -> T]
        <5>1. \A i \in 1..(k + 1) : t[i] \in T
          BY <3>5, <4>0, <4>3, <4>4, Zenon
        <5> QED
          BY <4>1, <5>1, Zenon
      <4>6. \A i, j \in DOMAIN t : i < j => t[i] < t[j]
        <5> SUFFICES ASSUME NEW i \in 1..(k + 1), NEW j \in 1..(k + 1), i < j PROVE t[i] < t[j]
          BY <4>3
        <5>0. i \in 1..k
          OBVIOUS
        <5>1. CASE j = k + 1
          BY <4>0, <4>3, <5>0, <5>1
        <5>2. CASE j \in 1..k
          <6>1. s[i] < s[j]
            BY <3>3, <5>0, <5>2, Zenon DEF Lists
          <6> QED
            BY <4>3, <5>0, <5>2, <6>1, Zenon
        <5> QED
          BY <4>4, <5>1, <5>2, Zenon
      <4>7. Range(t) = T
        <5>1. Range(t) \subseteq T
          BY <4>3, <4>5, Zenon DEF Range
        <5>2. ASSUME NEW x \in T PROVE x \in Range(t)
          <6>1. CASE x = m + 1
            BY <4>2, <4>3, <6>1, Zenon DEF Range
          <6>2. CASE x # m + 1
            <7>1. PICK i \in 1..k : s[i] = x
              BY <3>1, <3>3, <6>2, Zenon DEF Lists, Range
            <7> QED
              BY <4>2, <4>3, <7>1, Zenon DEF Range
          <6> QED
            BY <6>1, <6>2, Zenon
        <5> QED
          BY <5>1, <5>2, Zenon
      <4>8. Lists(t, T)
        BY <4>6, <4>7, Zenon DEF Lists
      <4>9. k + 1 \in 0..(m + 1)
        OBVIOUS
      <4> QED
        BY <4>5, <4>8, <4>9, Zenon
    <3> QED
      BY <3>4, <3>5
  <2>3. \A m \in Nat : CanList(m)
    <3>1. PICK N \in SUBSET Nat : \A m : m \in N <=> m \in Nat /\ CanList(m)
      <4>1. { m \in Nat : CanList(m) } \in SUBSET Nat
        OBVIOUS
      <4> QED
        BY <4>1, Zenon
    <3>2. 0 \in N /\ \A m \in N : m + 1 \in N
      BY <2>1, <2>2, <3>1
    <3>3. N = Nat
      BY <3>2, <1>SetInduction, Zenon
    <3> QED
      BY <3>1, <3>3, Zenon
  <2> QED
    <3>1. CanList(n)
      BY <2>3
    <3> QED
      BY <3>1, Zenon DEF CanList

\* What Ascending() returns.
<1>AscendingSorted.
     ASSUME NEW n \in Nat, NEW S \in SUBSET (1..n)
     PROVE  /\ Ascending(S, n) \in Seq(S)
            /\ \A x \in S : \E i \in DOMAIN Ascending(S, n) : Ascending(S, n)[i] = x
            /\ \A i, j \in DOMAIN Ascending(S, n) : Ascending(S, n)[i] = Ascending(S, n)[j] => i = j
  <2> USE <1>AscendingSorted
  <2> DEFINE A == UNION { [1..k -> S] : k \in 0..n }
  <2>1. \E s \in A : Lists(s, S)
    BY <1>Listed, Zenon
  <2>2. Ascending(S, n) = CHOOSE s \in A : Lists(s, S)
    BY DEF Ascending, Lists
  <2>3. Ascending(S, n) \in A /\ Lists(Ascending(S, n), S)
    BY <2>1, <2>2, Zenon
  <2>4. PICK k \in 0..n : Ascending(S, n) \in [1..k -> S]
    BY <2>3
  <2>5. PICK s \in [1..k -> S] : s = Ascending(S, n) /\ Lists(s, S)
    BY <2>3, <2>4, Zenon
  <2>6. s \in Seq(S)
    OBVIOUS
  <2>7. \A x \in S : \E i \in DOMAIN s : s[i] = x
    BY <2>5 DEF Lists, Range
  <2>8. \A i, j \in DOMAIN s : s[i] = s[j] => i = j
    <3> SUFFICES ASSUME NEW i \in 1..k, NEW j \in 1..k, s[i] = s[j], i # j PROVE FALSE
      OBVIOUS
    <3>1. s[i] \in 1..n /\ s[j] \in 1..n
      BY Zenon
    <3>2. CASE i < j
      BY <2>5, <3>1, <3>2 DEF Lists
    <3>3. CASE j < i
      BY <2>5, <3>1, <3>3 DEF Lists
    <3> QED
      BY <3>2, <3>3
  <2> QED
    BY <2>5, <2>6, <2>7, <2>8, Zenon

<1> QED
  BY <1>AscendingSorted DEF Listing

-----------------------------------------------------------------------------
\* The invariant.

\* Every step keeps the invariant.
LEMMA InvKept ==
  ASSUME CloseApart, Inv, [Next]_vars
  PROVE  Inv'
\* select(), when it does not wait.
<1>SelectNowKept.
     ASSUME Inv, NEW c \in Coroutine, NEW requests \in Selects, SelectNow(c, requests),
            UNCHANGED use
     PROVE  Inv'
  <2> USE <1>SelectNowKept
  <2>1. PICK i \in DOMAIN requests :
          /\ At(c, "user")
          /\ \/ /\ ~ closed[requests[i].channel]
                /\ \E v \in Value : Take(v) /\ PushNow(c, requests[i].channel, v)
             \/ PopNow(c, requests[i].channel)
    BY DEF SelectNow
  <2>2. requests[i].channel \in Channel
    <3>1. requests \in Seq(Request)
      BY SelectsAssumption
    <3>2. requests[i] \in Request
      BY <3>1
    <3> QED
      BY <3>2 DEF Request
  <2>3. CASE PopNow(c, requests[i].channel)
    BY <2>1, <2>2, <2>3, NotifyingKept, Zenon
  <2>4. CASE /\ ~ closed[requests[i].channel]
             /\ \E v \in Value : Take(v) /\ PushNow(c, requests[i].channel, v)
    <3>1. PICK v \in Value : Take(v) /\ PushNow(c, requests[i].channel, v)
      BY <2>4
    <3> QED
      BY <2>1, <2>2, <2>4, <3>1, NotifyingKept, Zenon
  <2> QED
    BY <2>1, <2>3, <2>4, Zenon

\* The operations on a channel.
<1>ChannelStepKept.
     ASSUME Inv, NEW c \in Coroutine, NEW ch \in Channel, ChannelStep(c, ch), UNCHANGED use
     PROVE  Inv'
  <2> USE <1>ChannelStepKept
  <2>1. CASE Push(c, ch)
    <3>1. PICK v \in Value : /\ At(c, "user") /\ ~ closed[ch] /\ Take(v) /\ PushNow(c, ch, v)
      BY <2>1 DEF Push
    <3>2. At(c, "user") /\ ~ closed[ch] /\ Take(v) /\ PushNow(c, ch, v) => Inv'
      BY NotifyingKept, Zenon
    <3> QED
      BY <3>1, <3>2, Zenon
  <2>2. CASE Pop(c, ch)
    <3>1. At(c, "user") /\ PopNow(c, ch)
      BY <2>2 DEF Pop
    <3> QED
      BY <3>1, NotifyingKept
  <2>3. ASSUME NEW timed \in BOOLEAN, PushWait(c, ch, timed) \/ PopWait(c, ch, timed) PROVE Inv'
    BY <2>3, AscendingLists, WaitsKept, Zenon
  <2>4. ASSUME NEW cleanup \in BOOLEAN, Close(c, ch, cleanup) PROVE Inv'
    BY <2>4, QuietStepsKept, Zenon
  <2>5. CASE Cleanup(c, ch)
    BY <2>5, QuietStepsKept, Zenon
  <2> QED
    BY <2>1, <2>2, <2>3, <2>4, <2>5, Zenon DEF ChannelStep

\* A step without a change.
<1>InvStutters.
     Inv /\ UNCHANGED vars => Inv'
  <2> SUFFICES ASSUME Inv, UNCHANGED vars PROVE Inv'
    OBVIOUS
  <2>1. UNCHANGED << chain, pc, op, timedout, closed, producers, consumers, storage, able, slot,
                     received, pushes, status, use >>
    BY Zenon DEF vars, queues, data
  <2>2. TypeInv' /\ TimerInv' /\ QueueInv' /\ CloseInv'
    BY <2>1 DEF Inv, TypeInv, TimerInv, QueueInv, CloseInv, HasProducers, HasConsumers, Pushes
  <2>3. Everywhere' = Everywhere
    BY <2>1 DEF Everywhere
  <2>4. /\ NoneFired' <=> NoneFired
        /\ \A ch : QuietOn(ch)' <=> QuietOn(ch)
    <3>1. NoneFired' <=> NoneFired
      BY <2>1, Zenon DEF NoneFired
    <3>2. \A ch : QuietOn(ch)' <=> QuietOn(ch)
      BY <2>1, Zenon DEF QuietOn, HasProducers, HasConsumers, IsUnbuffered, IsEmpty, IsFull
    <3> QED
      BY <3>1, <3>2
  <2>5. Quiet' <=> Quiet
    BY <2>4, Zenon DEF Quiet
  <2>6. \A q, r, i : OnlyFired(q, r, i)' <=> OnlyFired(q, r, i)
    BY <2>1, Zenon DEF OnlyFired
  <2>7. ASSUME NEW r, NEW ch, NEW where, NEW opcode
        PROVE  /\ Resumed(r, producers[ch], ch, where, opcode)'
                  <=> Resumed(r, producers[ch], ch, where, opcode)
               /\ Resumed(r, consumers[ch], ch, where, opcode)'
                  <=> Resumed(r, consumers[ch], ch, where, opcode)
    BY <2>1, <2>4, <2>6, ZenonT(30) DEF Resumed
  <2>8. ASSUME NEW r, NEW ch
        PROVE  (Pushed(r, ch)' <=> Pushed(r, ch)) /\ (Popped(r, ch)' <=> Popped(r, ch))
    BY <2>1, <2>4, <2>7, ZenonT(30)
       DEF Pushed, Popped, HasProducers, HasConsumers, IsUnbuffered, IsFull
  <2>9. ModeInv' /\ PassInv'
    BY <2>1, <2>5, <2>8, ZenonT(30) DEF Inv, ModeInv, PassInv, IsUnbuffered
  <2>10. ValueInv'
    <3>1. \A v : InSlot(v)' <=> InSlot(v)
      BY <2>1, <2>8, Zenon DEF InSlot, IsUnbuffered
    <3>2. { v \in Value : InSlot(v)' } = { v \in Value : InSlot(v) }
      BY <3>1
    <3> QED
      BY <2>1, <2>3, <3>2, Zenon DEF Inv, ValueInv, ValueOK
  <2> QED
    BY <2>2, <2>9, <2>10, Zenon DEF Inv

<1>1. CASE UNCHANGED vars
  BY <1>1, <1>InvStutters
<1>2. CASE Next
  <2>1. UNCHANGED use
    BY <1>2 DEF Next
  <2>2. PICK c \in Coroutine :
          \/ \E ch \in Channel : ChannelStep(c, ch)
          \/ "select" \in use /\ \E requests \in Selects : SelectStep(c, requests)
          \/ Continue(c)
          \/ Sleep(c) \/ (\E target \in Coroutine : Resume(c, target)) \/ Wakeup(c) \/ Timeout(c)
    BY <1>2, Zenon DEF Next
  <2>3. ASSUME NEW ch \in Channel, ChannelStep(c, ch) PROVE Inv'
    BY <2>1, <2>3, <1>ChannelStepKept, Zenon
  <2>4. ASSUME "select" \in use, NEW requests \in Selects, SelectStep(c, requests) PROVE Inv'
    BY <2>1, <2>4, AscendingLists, <1>SelectNowKept, WaitsKept, Zenon DEF SelectStep
  <2>5. CASE Continue(c)
    <3>1. CASE PushWoken(c) \/ PushReturn(c)
      BY <2>1, <3>1, AscendingLists, WokenKept, QuietStepsKept, Zenon
    <3>2. CASE PopWoken(c) \/ PopReturn(c)
      BY <2>1, <3>2, AscendingLists, WokenKept, QuietStepsKept, Zenon
    <3>3. CASE SelectWoken(c)
      BY <2>1, <3>3, AscendingLists, WokenKept, Zenon
    <3>4. CASE CloseProducers(c) \/ CloseConsumers(c)
      BY <2>1, <3>4, NotifyingKept, ZenonT(30)
    <3>5. CASE CloseReturn(c)
      BY <2>1, <3>5, QuietStepsKept, Zenon
    <3> QED
      BY <2>5, <3>1, <3>2, <3>3, <3>4, <3>5, Zenon DEF Continue
  <2>6. CASE Sleep(c) \/ (\E target \in Coroutine : Resume(c, target)) \/ Wakeup(c) \/ Timeout(c)
    BY <2>1, <2>6, AscendingLists, WaitsKept, Zenon
  <2> QED
    BY <2>2, <2>3, <2>4, <2>5, <2>6, Zenon
<1> QED
  BY <1>1, <1>2, Zenon

\* A program that starts satisfies the invariant.
LEMMA InvInit == Init => Inv
<1> SUFFICES ASSUME Init PROVE Inv
  OBVIOUS
<1>1. NoOp \in OpType
  BY NoOpType
<1>2. TypeInv
  <2>1. RunChain(chain)
    BY DEF Init, RunChain, Injective, Routine
  <2>2. pc \in [Coroutine -> Where] /\ op \in [Coroutine -> OpType]
    BY <1>1 DEF Init, Where
  <2>3. /\ closed \in [Channel -> BOOLEAN] /\ able \in [Channel -> BOOLEAN]
        /\ producers \in [Channel -> Seq(WaiterType)] /\ consumers \in [Channel -> Seq(WaiterType)]
        /\ storage \in [Channel -> Seq(Value)] /\ received \in [Channel -> Seq(Value)]
    BY DEF Init
  <2>4. slot \in [Channel -> Coroutine \cup 0..MaxPush] /\ pushes \in 0..MaxPush
    BY MaxPushAssumption DEF Init
  <2>5. status \in [Value -> {"none", "pending", "true", "false"}] /\ use \in Uses
    BY DEF Init
  <2>6. \A ch \in Channel : Len(storage[ch]) <= capacity[ch]
    BY CapacityAssumption DEF Init
  <2> QED
    BY <2>1, <2>2, <2>3, <2>4, <2>5, <2>6, ZenonT(30) DEF Init, TypeInv
<1>3. \A c \in Coroutine : pc[c] = "user"
  BY Zenon DEF Init
<1>4. \A ch \in Channel : /\ producers[ch] = << >> /\ consumers[ch] = << >>
                          /\ storage[ch] = << >> /\ received[ch] = << >>
                          /\ ~ closed[ch] /\ ~ able[ch]
  BY DEF Init
<1>5. DOMAIN << >> = {}
  OBVIOUS
<1>6. TimerInv /\ QueueInv /\ CloseInv
  <2>1. TimerInv
    BY Zenon DEF Init, TimerInv
  <2>2. CloseInv
    BY <1>4, Zenon DEF CloseInv
  <2>3. ASSUME NEW ch \in Channel, NEW where \in {"push", "pop"}, NEW opcode
        PROVE  QueueOK(<< >>, ch, where, opcode, pc, op, Running(chain))
    BY <1>3, <1>5, Zenon DEF QueueOK, Distinct
  <2> QED
    BY <1>4, <2>1, <2>2, <2>3, Zenon DEF QueueInv
<1>7. Quiet
  BY <1>4, <1>5, Zenon DEF Quiet, NoneFired, AllIdle, QuietOn, HasProducers, HasConsumers
<1>8. PassQuiet
  BY <1>3, Zenon DEF PassQuiet
<1>9. ValueOK({})
  <2>1. Everywhere = {}
    BY <1>4, <1>5, Zenon DEF Everywhere, Range
  <2>2. \A v \in Value : status[v] = "none"
    BY DEF Init
  <2> QED
    BY <1>3, <2>1, <2>2, Zenon DEF ValueOK, Pending
<1> QED
  BY <1>2, <1>6, <1>7, <1>8, <1>9, QuietForms, Zenon DEF Inv, ModeInv

\* The invariant holds in every state a program reaches.
LEMMA ChannelInvariant ==
  ASSUME CloseApart
  PROVE  Spec => []Inv
<1>1. Init => Inv
  BY InvInit
<1>2. Inv /\ [Next]_vars => Inv'
  BY InvKept
<1> QED
  BY <1>1, <1>2, PTL DEF Spec

\* ClosedHasNoWaiters: whoever waits on a channel when it is closed is woken before
\* close() returns, and nobody begins to wait on it afterwards.
THEOREM ClosedCorrect ==
  ASSUME CloseApart
  PROVE  Spec => []ClosedHasNoWaiters
<1>1. Inv => ClosedHasNoWaiters
  BY Zenon DEF Inv, CloseInv, ClosedHasNoWaiters, Closing
<1> QED
  BY <1>1, ChannelInvariant, PTL

\* PushTruthful: the value of a push that failed is never delivered, that of one that
\* succeeded is stored or delivered, until a cleanup.
THEOREM PushTruthCorrect ==
  ASSUME CloseApart
  PROVE  Spec => []PushTruthful
<1>1. Inv => PushTruthful
  BY DEF Inv, ValueInv, ValueOK, PushTruthful
<1> QED
  BY <1>1, ChannelInvariant, PTL

\* The length of a queue counts its waiters.
LEMMA QueueCount ==
  ASSUME NEW q \in Seq(WaiterType), Distinct(q)
  PROVE  Len(q) = Cardinality(Queued(q))
<1>1. PICK n \in Nat : n = Len(q) /\ DOMAIN q = 1..n
  OBVIOUS
<1>2. PICK f : f = [i \in 1..n |-> << q[i].owner, q[i].index >>]
  BY Zenon
<1>3. \A x : x \in Queued(q) <=> \E i \in 1..n : x = f[i]
  BY <1>1, <1>2 DEF Queued
<1>4. f \in [1..n -> Queued(q)]
  BY <1>2, <1>3
<1>5. \A i, j \in 1..n : f[i] = f[j] => i = j
  BY <1>1, <1>2, Zenon DEF Distinct
<1>6. f \in Bijection(1..n, Queued(q))
  BY <1>3, <1>4, <1>5, Zenon DEF Bijection, Injection, Surjection, IsInjective
<1>7. ExistsBijection(1..n, Queued(q))
  BY <1>6 DEF ExistsBijection
<1>8. IsFiniteSet(1..n) /\ Cardinality(1..n) = n
  BY FS_Interval
<1> QED
  BY <1>1, <1>7, <1>8, FS_Bijection, Zenon

\* A queue of the invariant holds the waiters of the operations in progress.
LEMMA QueuedWaiting ==
  ASSUME TypeInv, NEW q \in Seq(WaiterType), NEW ch \in Channel, NEW where, NEW opcode,
         QueueOK(q, ch, where, opcode, pc, op, Running(chain))
  PROVE  Queued(q) = Waiting(ch, where, opcode)
<1>1. \A c \in Coroutine : op[c].requests \in Selects \cup {<< >>}
  BY ZenonT(30) DEF TypeInv, OpType
<1>2. \A i \in DOMAIN q : q[i].owner \in Coroutine /\ Accounted(q[i], ch, where, opcode, pc, op)
  BY NodeType DEF QueueOK
<1>3. ASSUME NEW c \in Coroutine, NEW k
      PROVE  HasNode(q, c, k) <=>
               \/ k = 0 /\ pc[c] = where /\ op[c].channel = ch
               \/ /\ pc[c] = "select" /\ k \in DOMAIN op[c].requests
                  /\ op[c].requests[k] = [channel |-> ch, opcode |-> opcode]
  <2>1. HasNode(q, c, k) =>
          \/ k = 0 /\ pc[c] = where /\ op[c].channel = ch
          \/ /\ pc[c] = "select" /\ k \in DOMAIN op[c].requests
             /\ op[c].requests[k] = [channel |-> ch, opcode |-> opcode]
    BY <1>2, ZenonT(30) DEF HasNode, Accounted
  <2> QED
    BY <2>1, Zenon DEF QueueOK
<1>4. \A x : x \in Queued(q) <=> \E c \in Coroutine, k \in Nat : x = << c, k >> /\ HasNode(q, c, k)
  BY NodeType, Zenon DEF Queued, HasNode
<1>5. ASSUME NEW c \in Coroutine, pc[c] = "select", NEW k \in DOMAIN op[c].requests
      PROVE  k \in UNION { DOMAIN r : r \in Selects } /\ k \in Nat
  <2>1. op[c].requests # << >>
    <3>1. DOMAIN << >> = {}
      OBVIOUS
    <3> QED
      BY <1>5, <3>1
  <2>2. op[c].requests \in Selects /\ op[c].requests \in Seq(Request)
    BY <1>1, <2>1, SelectsAssumption, Zenon
  <2> QED
    BY <1>5, <2>2
<1>6. ASSUME NEW x \in Queued(q) PROVE x \in Waiting(ch, where, opcode)
  <2>1. PICK c \in Coroutine, k \in Nat : x = << c, k >> /\ HasNode(q, c, k)
    BY <1>4, <1>6, Zenon
  <2>2. CASE k = 0 /\ pc[c] = where /\ op[c].channel = ch
    BY <2>1, <2>2, Zenon DEF Waiting
  <2>3. CASE /\ pc[c] = "select" /\ k \in DOMAIN op[c].requests
             /\ op[c].requests[k] = [channel |-> ch, opcode |-> opcode]
    <3>1. x \in Coroutine \X UNION { DOMAIN r : r \in Selects } /\ x[1] = c /\ x[2] = k
      BY <1>5, <2>1, <2>3, Zenon
    <3> QED
      BY <2>3, <3>1, ZenonT(30) DEF Waiting
  <2> QED
    BY <1>3, <2>1, <2>2, <2>3, Zenon
<1>7. ASSUME NEW x \in Waiting(ch, where, opcode) PROVE x \in Queued(q)
  <2>1. CASE \E c \in Coroutine : x = << c, 0 >> /\ pc[c] = where /\ op[c].channel = ch
    <3>1. 0 \in Nat
      OBVIOUS
    <3> QED
      BY <1>3, <1>4, <2>1, <3>1, ZenonT(30)
  <2>2. CASE /\ x \in Coroutine \X UNION { DOMAIN r : r \in Selects }
             /\ pc[x[1]] = "select" /\ x[2] \in DOMAIN op[x[1]].requests
             /\ op[x[1]].requests[x[2]] = [channel |-> ch, opcode |-> opcode]
    <3>1. x[1] \in Coroutine /\ x = << x[1], x[2] >>
      BY <2>2
    <3>2. x[2] \in Nat /\ HasNode(q, x[1], x[2])
      BY <1>3, <1>5, <2>2, <3>1, ZenonT(30)
    <3> QED
      BY <1>4, <3>1, <3>2, ZenonT(30)
  <2> QED
    BY <1>7, <2>1, <2>2, ZenonT(30) DEF Waiting
<1> QED
  BY <1>6, <1>7, Zenon

\* The invariant has the types of the state.
LEMMA TypesOK == TypeInv /\ TimerInv => TypeOK
<1> SUFFICES ASSUME TypeInv, TimerInv PROVE TypeOK
  BY Zenon
<1>1. OnChain(chain) \subseteq Routine /\ chain[1] = Scheduler
  BY RunningOnChain DEF TypeInv, RunChain
<1>2. \A c \in Coroutine :
        /\ op[c].channel \in Channel /\ op[c].value \in 0..MaxPush
        /\ op[c].timed \in BOOLEAN /\ op[c].cleanup \in BOOLEAN
        /\ op[c].requests \in Selects \cup {<< >>}
  <2>1. \A c \in Coroutine : op[c] \in OpType
    BY Zenon DEF TypeInv
  <2> QED
    BY <2>1, Zenon DEF OpType
<1>3. timedout \subseteq Coroutine
  BY DEF TimerInv
<1>4. \A S : \A s \in Seq(S) : Range(s) \subseteq S
  BY DEF Range
<1>5. ASSUME NEW ch \in Channel
      PROVE  /\ Range(producers[ch]) \cup Range(consumers[ch]) \subseteq WaiterType
             /\ Range(storage[ch]) \cup Range(received[ch]) \subseteq Value
             /\ Len(storage[ch]) <= capacity[ch]
             /\ slot[ch] \in Coroutine \/ slot[ch] \in 0..MaxPush
  <2>1. /\ producers[ch] \in Seq(WaiterType) /\ consumers[ch] \in Seq(WaiterType)
        /\ storage[ch] \in Seq(Value) /\ received[ch] \in Seq(Value)
        /\ slot[ch] \in Coroutine \cup 0..MaxPush /\ Len(storage[ch]) <= capacity[ch]
    BY DEF TypeInv
  <2>2. /\ Range(producers[ch]) \subseteq WaiterType /\ Range(consumers[ch]) \subseteq WaiterType
        /\ Range(storage[ch]) \subseteq Value /\ Range(received[ch]) \subseteq Value
    BY <1>4, <2>1, Zenon
  <2> QED
    BY <2>1, <2>2, Zenon
<1> QED
  BY <1>1, <1>2, <1>3, <1>5, ZenonT(30) DEF TypeInv, TypeOK

\* QueuesExact: the state is well typed, and a queue holds exactly the waiters of the
\* operations in progress, each once.
THEOREM QueuesCorrect ==
  ASSUME CloseApart
  PROVE  Spec => []QueuesExact
<1>1. ASSUME Inv PROVE QueuesExact
  <2>1. TypeInv /\ QueueInv /\ TypeOK
    BY <1>1, TypesOK, Zenon DEF Inv
  <2>2. ASSUME NEW ch \in Channel
        PROVE  /\ Queued(producers[ch]) = Waiting(ch, "push", "PUSH")
               /\ Queued(consumers[ch]) = Waiting(ch, "pop", "POP")
               /\ Len(producers[ch]) = Cardinality(Queued(producers[ch]))
               /\ Len(consumers[ch]) = Cardinality(Queued(consumers[ch]))
    <3>1. producers[ch] \in Seq(WaiterType) /\ consumers[ch] \in Seq(WaiterType)
      BY <2>1, QueueTypes, Zenon
    <3>2. /\ QueueOK(producers[ch], ch, "push", "PUSH", pc, op, Running(chain))
          /\ QueueOK(consumers[ch], ch, "pop", "POP", pc, op, Running(chain))
      BY <2>1, Zenon DEF QueueInv
    <3>3. Distinct(producers[ch]) /\ Distinct(consumers[ch])
      BY <3>2 DEF QueueOK
    <3> QED
      BY <2>1, <3>1, <3>2, <3>3, QueueCount, QueuedWaiting, Zenon
  <2> QED
    BY <2>1, <2>2, Zenon DEF QueuesExact
<1> QED
  BY <1>1, ChannelInvariant, PTL

\* The assertions follow from the invariant.
LEMMA AssertsHold == Inv /\ SidesApart => Asserts
<1> SUFFICES ASSUME Inv, SidesApart PROVE Asserts
  OBVIOUS
<1>1. TypeInv /\ QueueInv
  BY DEF Inv
<1>2. ASSUME NEW c \in Coroutine, Running(chain) = c, pc[c] \notin InWait
      PROVE  Quiet /\ PassQuiet
  BY <1>2, QuietInv, Zenon
<1>3. ASSUME UserRuns, NEW ch \in Channel
      PROVE  /\ ~ able[ch]
             /\ IsUnbuffered(ch) => ~ (HasProducers(ch) /\ HasConsumers(ch))
             /\ ~ IsUnbuffered(ch) /\ HasConsumers(ch) => IsEmpty(ch)
             /\ ~ IsUnbuffered(ch) /\ HasProducers(ch) /\ ~ closed[ch] => IsFull(ch)
  <2>1. Quiet
    BY <1>2, <1>3, Zenon DEF UserRuns, At, InWait
  <2> QED
    BY <2>1 DEF Quiet, QuietOn, SidesApart
<1>4. ASSUME NEW c \in Coroutine, c \notin timedout, At(c, "push"),
             IF IsUnbuffered(op[c].channel) THEN able[op[c].channel] ELSE ~ IsFull(op[c].channel)
      PROVE  ~ HasConsumers(op[c].channel)
  <2>1. PICK ch \in Channel : ch = op[c].channel
    BY <1>1, Zenon DEF TypeInv, OpType
  <2>2. Running(chain) = c /\ pc[c] = "push" /\ HasProducers(ch)
    BY <1>1, <1>4, <2>1, WaiterQueued, Zenon DEF At
  <2>3. ASSUME NEW d \in Channel PROVE ~ Pushed(c, d) /\ (Popped(c, d) => d = ch)
    BY <2>1, <2>2, Zenon DEF Pushed, Popped, Resumed
  <2>4. Quiet \/ Popped(c, ch)
    BY <2>2, <2>3, WokenMode, Zenon
  <2>5. CASE Quiet
    BY <1>4, <2>1, <2>2, <2>5, Zenon DEF Quiet, QuietOn
  <2>6. CASE Popped(c, ch)
    BY <2>1, <2>2, <2>6, Zenon DEF Popped, SidesApart
  <2> QED
    BY <2>4, <2>5, <2>6, Zenon
<1>5. ASSUME NEW c \in Coroutine, c \notin timedout, At(c, "pop"),
             IF IsUnbuffered(op[c].channel) THEN able[op[c].channel] ELSE ~ IsEmpty(op[c].channel)
      PROVE  ~ HasProducers(op[c].channel)
  <2>1. PICK ch \in Channel : ch = op[c].channel
    BY <1>1 DEF TypeInv, OpType
  <2>2. Running(chain) = c /\ pc[c] = "pop" /\ HasConsumers(ch)
    BY <1>1, <1>5, <2>1, WaiterQueued, Zenon DEF At
  <2>3. ASSUME NEW d \in Channel PROVE ~ Popped(c, d) /\ (Pushed(c, d) => d = ch)
    BY <2>1, <2>2, Zenon DEF Pushed, Popped, Resumed
  <2>4. Quiet \/ Pushed(c, ch)
    BY <2>2, <2>3, WokenMode, Zenon
  <2>5. CASE Quiet
    BY <1>5, <2>1, <2>2, <2>5, Zenon DEF Quiet, QuietOn
  <2>6. CASE Pushed(c, ch)
    BY <2>1, <2>2, <2>6, Zenon DEF Pushed, SidesApart
  <2> QED
    BY <2>4, <2>5, <2>6
<1>6. ASSUME NEW c \in Coroutine, IsUnbuffered(op[c].channel)
      PROVE  /\ At(c, "pushed") => op[c].value \in Range(received[op[c].channel])
             /\ At(c, "popped") => op[c].value # 0
  <2>1. At(c, "pushed") \/ At(c, "popped") => PassQuiet
    BY <1>2 DEF At, InWait
  <2> QED
    BY <1>6, <2>1, Zenon DEF PassQuiet, At
<1> QED
  BY <1>3, <1>4, <1>5, <1>6, ZenonT(30) DEF Asserts

\* Asserts: the assertions and the comments of cat_channel_push() and cat_channel_pop().
THEOREM AssertsCorrect ==
  ASSUME CloseApart, OneWay
  PROVE  Spec => []Asserts
<1>1. Init => SidesApart
  BY DEF Init, SidesApart, HasProducers
<1>2. Inv /\ SidesApart /\ [Next]_vars => SidesApart'
  BY AscendingLists, SidesKept, Zenon DEF Inv
<1>3. Inv /\ SidesApart => Asserts
  BY AssertsHold
<1> QED
  BY <1>1, <1>2, <1>3, ChannelInvariant, PTL DEF Spec

\* RefinesFifo: every channel implements ChannelSpec; it loses, duplicates and reorders
\* nothing, whoever waits, times out, is cancelled or selects.
THEOREM FifoCorrect ==
  ASSUME CloseApart
  PROVE  Spec => RefinesFifo
<1>1. Init => \A ch \in Channel : Fifo(ch)!FifoInit
  BY DEF Init, Fifo!FifoInit
<1>2. Inv /\ [Next]_vars => FifoSteps
  BY FifoKept
<1> QED
  BY <1>1, <1>2, ChannelInvariant, PTL DEF Spec, RefinesFifo, FifoSteps, FifoStep

=============================================================================
