----------------------- MODULE CoroutineChain_proofs -----------------------
(***************************************************************************)
(* What appending to and removing from a sequence without repetitions, the *)
(* abstraction of the intrusive queues and of the run chain, returns.      *)
(***************************************************************************)
EXTENDS CoroutineChain, TLAPS

\* No element is in the sequence twice.
Injective(s) == \A i, j \in DOMAIN s : s[i] = s[j] => i = j

\* cat_queue_push_back() of an element that is not in the queue.
LEMMA AppendProperties ==
  ASSUME NEW S, NEW s \in Seq(S), Injective(s), NEW c \in S, c \notin OnChain(s)
  PROVE  /\ Append(s, c) \in Seq(S)
         /\ Len(Append(s, c)) = Len(s) + 1
         /\ Injective(Append(s, c))
         /\ OnChain(Append(s, c)) = OnChain(s) \cup {c}
<1> DEFINE r == Append(s, c)
<1>1. r \in Seq(S) /\ Len(r) = Len(s) + 1 /\ Len(s) \in Nat
  OBVIOUS
<1>2. \A i \in DOMAIN r : r[i] = IF i = Len(s) + 1 THEN c ELSE s[i]
  OBVIOUS
<1>3. DOMAIN r = 1..(Len(s) + 1) /\ DOMAIN s = 1..Len(s)
  OBVIOUS
<1> HIDE DEF r
<1>4. Injective(r)
  BY <1>1, <1>2, <1>3 DEF Injective, OnChain
<1>5. OnChain(r) = OnChain(s) \cup {c}
  <2>1. \A x \in OnChain(r) : x \in OnChain(s) \cup {c}
    BY <1>1, <1>2, <1>3 DEF OnChain
  <2>2. ASSUME NEW x \in OnChain(s)
        PROVE  x \in OnChain(r)
    <3>1. PICK i \in 1..Len(s) : x = s[i]
      BY <1>3 DEF OnChain
    <3>2. i \in DOMAIN r /\ r[i] = x
      BY <1>1, <1>2, <1>3, <3>1
    <3> QED
      BY <3>2 DEF OnChain
  <2>3. c \in OnChain(r)
    <3>1. Len(s) + 1 \in DOMAIN r /\ r[Len(s) + 1] = c
      BY <1>1, <1>2, <1>3
    <3> QED
      BY <3>1 DEF OnChain
  <2> QED
    BY <2>1, <2>2, <2>3
<1> QED
  BY <1>1, <1>4, <1>5 DEF r

\* cat_queue_remove() of an element of the queue.
LEMMA WithoutProperties ==
  ASSUME NEW S, NEW s \in Seq(S), Injective(s), NEW c \in OnChain(s)
  PROVE  /\ Without(s, c) \in Seq(S)
         /\ Len(s) > 0
         /\ Len(Without(s, c)) = Len(s) - 1
         /\ Injective(Without(s, c))
         /\ OnChain(Without(s, c)) = OnChain(s) \ {c}
<1> DEFINE r == Without(s, c)
           at == CHOOSE i \in DOMAIN s : s[i] = c
<1>1. \E i \in DOMAIN s : s[i] = c
  BY DEF OnChain
<1>2. at \in 1..Len(s) /\ s[at] = c /\ Len(s) \in Nat
  BY <1>1
<1>3. r = [j \in 1..(Len(s) - 1) |-> IF j < at THEN s[j] ELSE s[j + 1]]
  BY <1>1 DEF Without
<1> HIDE DEF at, r
<1>4. /\ Len(s) > 0 /\ Len(s) - 1 \in Nat
      /\ \A j \in 1..(Len(s) - 1) : j \in 1..Len(s) /\ j + 1 \in 1..Len(s)
  BY <1>2
<1>5. r \in Seq(S) /\ Len(r) = Len(s) - 1 /\ DOMAIN r = 1..(Len(s) - 1)
  <2> DEFINE n == Len(s) - 1
  <2>1. n \in Nat
    BY <1>4
  <2>2. \A j \in 1..n : s[j] \in S /\ s[j + 1] \in S
    BY <1>4
  <2> HIDE DEF n
  <2>3. r \in [1..n -> S]
    BY <1>3, <2>2 DEF n
  <2>4. r \in Seq(S) /\ Len(r) = n /\ DOMAIN r = 1..n
    BY <2>1, <2>3
  <2> QED
    BY <2>4 DEF n
<1>6. \A j \in 1..(Len(s) - 1) : r[j] = IF j < at THEN s[j] ELSE s[j + 1]
  BY <1>3
<1>7. Injective(r)
  <2> SUFFICES ASSUME NEW i \in 1..(Len(s) - 1), NEW j \in 1..(Len(s) - 1), r[i] = r[j]
               PROVE  i = j
    BY <1>5 DEF Injective
  <2>1. (IF i < at THEN i ELSE i + 1) = (IF j < at THEN j ELSE j + 1)
    BY <1>4, <1>6 DEF Injective
  <2> QED
    BY <1>2, <2>1
<1>8. OnChain(r) = OnChain(s) \ {c}
  <2>1. ASSUME NEW x \in OnChain(r)
        PROVE  x \in OnChain(s) \ {c}
    <3>1. PICK j \in 1..(Len(s) - 1) : x = r[j]
      BY <1>5 DEF OnChain
    <3>2. PICK i \in 1..Len(s) : x = s[i] /\ i # at
      <4>1. CASE j < at
        BY <1>4, <1>6, <3>1, <4>1
      <4>2. CASE ~(j < at)
        <5>1. j + 1 \in 1..Len(s) /\ x = s[j + 1] /\ j + 1 # at
          BY <1>2, <1>4, <1>6, <3>1, <4>2
        <5> QED
          BY <5>1
      <4> QED
        BY <4>1, <4>2
    <3> QED
      BY <1>2, <3>2 DEF Injective, OnChain
  <2>2. ASSUME NEW x \in OnChain(s) \ {c}
        PROVE  x \in OnChain(r)
    <3>1. PICK i \in 1..Len(s) : x = s[i]
      BY DEF OnChain
    <3>2. i # at
      BY <1>2, <3>1
    <3>3. PICK j \in 1..(Len(s) - 1) : x = r[j]
      <4>1. CASE i < at
        <5>1. i \in 1..(Len(s) - 1)
          BY <1>2, <4>1
        <5> QED
          BY <1>6, <3>1, <4>1, <5>1
      <4>2. CASE i > at
        <5>1. i - 1 \in 1..(Len(s) - 1) /\ ~(i - 1 < at) /\ (i - 1) + 1 = i
          BY <1>2, <4>2
        <5> QED
          BY <1>6, <3>1, <5>1
      <4> QED
        BY <1>2, <3>2, <4>1, <4>2
    <3> QED
      BY <1>5, <3>3 DEF OnChain
  <2> QED
    BY <2>1, <2>2
<1> QED
  BY <1>4, <1>5, <1>7, <1>8 DEF r
-----------------------------------------------------------------------------
\* The run chain: it begins with the scheduler, and nobody is on it twice.
RunChain(ch) ==
  ch \in Seq(Routine) /\ Len(ch) > 0 /\ ch[1] = Scheduler /\ Injective(ch)

\* Who runs is on the chain.
LEMMA RunningOnChain ==
  ASSUME NEW ch, RunChain(ch)
  PROVE  Running(ch) \in OnChain(ch) /\ Running(ch) \in Routine /\ OnChain(ch) \subseteq Routine
<1>1. Len(ch) \in DOMAIN ch /\ \A i \in DOMAIN ch : ch[i] \in Routine
  BY DEF RunChain
<1> QED
  BY <1>1 DEF Running, OnChain

\* When the scheduler runs nobody else is on the chain.
LEMMA LoopAlone ==
  ASSUME NEW ch, RunChain(ch), Running(ch) = Scheduler
  PROVE  OnChain(ch) = {Scheduler}
<1>1. Len(ch) \in Nat /\ Len(ch) > 0 /\ DOMAIN ch = 1..Len(ch) /\ ch[1] = Scheduler
  BY DEF RunChain
<1>2. Len(ch) = 1
  BY <1>1 DEF RunChain, Running, Injective
<1> QED
  BY <1>1, <1>2 DEF OnChain

\* cat_coroutine_resume() keeps the chain, with one more on it.
LEMMA ResumeChain ==
  ASSUME NEW ch, RunChain(ch), NEW t \in Coroutine
  PROVE  /\ RunChain(ResumeOn(ch, t)) /\ Running(ResumeOn(ch, t)) = t
         /\ OnChain(ResumeOn(ch, t)) = OnChain(ch) \cup {t}
<1> DEFINE r == Without(ch, t)
<1>1. /\ r \in Seq(Routine) /\ Injective(r) /\ t \notin OnChain(r) /\ Len(r) > 0 /\ r[1] = Scheduler
      /\ OnChain(r) \cup {t} = OnChain(ch) \cup {t}
  <2>1. CASE t \notin OnChain(ch)
    <3>1. r = ch
      BY <2>1 DEF Without, OnChain
    <3> QED
      BY <2>1, <3>1 DEF RunChain
  <2>2. CASE t \in OnChain(ch)
    <3>1. /\ r \in Seq(Routine) /\ Len(r) = Len(ch) - 1 /\ Injective(r)
          /\ OnChain(r) = OnChain(ch) \ {t}
      BY <2>2, WithoutProperties DEF RunChain
    <3>2. Len(ch) \in Nat /\ Len(ch) > 0 /\ DOMAIN ch = 1..Len(ch) /\ ch[1] # t
      BY SchedulerAssumption DEF RunChain
    <3> DEFINE at == CHOOSE i \in DOMAIN ch : ch[i] = t
    <3>3. at \in 1..Len(ch) /\ ch[at] = t
      BY <2>2, <3>2 DEF OnChain
    <3>4. r = [j \in 1..(Len(ch) - 1) |-> IF j < at THEN ch[j] ELSE ch[j + 1]]
      BY <2>2 DEF Without, OnChain
    <3> HIDE DEF at, r
    <3>5. at > 1 /\ Len(ch) > 1
      BY <3>2, <3>3
    <3>6. 1 \in 1..(Len(ch) - 1)
      BY <3>2, <3>5
    <3>7. r[1] = ch[1]
      BY <3>4, <3>5, <3>6
    <3> QED
      BY <2>2, <3>1, <3>2, <3>5, <3>7 DEF RunChain
  <2> QED
    BY <2>1, <2>2
<1> HIDE DEF r
<1>2. t \in Routine
  BY DEF Routine
<1>3. /\ Append(r, t) \in Seq(Routine) /\ Len(Append(r, t)) = Len(r) + 1
      /\ Injective(Append(r, t)) /\ OnChain(Append(r, t)) = OnChain(r) \cup {t}
  BY <1>1, <1>2, AppendProperties
<1>4. Append(r, t)[1] = Scheduler /\ Append(r, t)[Len(r) + 1] = t
  BY <1>1, <1>2
<1>5. ResumeOn(ch, t) = Append(r, t)
  BY DEF ResumeOn, r
<1> QED
  BY <1>1, <1>3, <1>4, <1>5 DEF RunChain, Running

\* cat_coroutine_yield() takes the coroutine that runs off the chain.
LEMMA YieldChain ==
  ASSUME NEW ch, RunChain(ch), Running(ch) \in Coroutine
  PROVE  RunChain(YieldOn(ch)) /\ OnChain(YieldOn(ch)) = OnChain(ch) \ {Running(ch)}
<1>1. PICK n \in Nat : Len(ch) = n + 1
  BY DEF RunChain
<1>2. DOMAIN ch = 1..(n + 1) /\ ch[1] = Scheduler /\ Running(ch) = ch[n + 1]
  BY <1>1 DEF RunChain, Running
<1>3. n > 0
  BY <1>1, <1>2, SchedulerAssumption
<1> DEFINE r == SubSeq(ch, 1, n)
<1>4. YieldOn(ch) = r
  <2>1. Len(ch) > 1 /\ Len(ch) - 1 = n
    BY <1>1, <1>3
  <2> QED
    BY <2>1 DEF YieldOn
<1>5. r \in Seq(Routine) /\ Len(r) = n /\ DOMAIN r = 1..n /\ \A i \in 1..n : r[i] = ch[i]
  BY <1>1, <1>3 DEF RunChain
<1> HIDE DEF r
<1>6. Injective(r) /\ r[1] = Scheduler
  BY <1>1, <1>2, <1>3, <1>5 DEF RunChain, Injective
<1>7. OnChain(r) = OnChain(ch) \ {Running(ch)}
  <2>1. \A i \in 1..n : i \in 1..(n + 1) /\ ch[i] # ch[n + 1]
    BY <1>1, <1>2 DEF RunChain, Injective
  <2>2. \A i \in 1..(n + 1) : i # n + 1 => i \in 1..n
    OBVIOUS
  <2> QED
    BY <1>2, <1>5, <2>1, <2>2 DEF OnChain
<1> QED
  BY <1>3, <1>4, <1>5, <1>6, <1>7 DEF RunChain
=============================================================================
