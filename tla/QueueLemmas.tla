---------------------------- MODULE QueueLemmas ----------------------------
(***************************************************************************)
(* Facts about lists used as queues (lib/list.h: Append at the back,       *)
(* RemoveFront at the front): which elements they hold, and that no        *)
(* element is on the list twice.  And what P() and V() do to a semaphore.  *)
(***************************************************************************)
EXTENDS SemaphoreOps, TLAPS

(* Append adds exactly its argument. *)
LEMMA AppendRange ==
    ASSUME NEW T, NEW q \in Seq(T), NEW x \in T
    PROVE  /\ Append(q, x) \in Seq(T)
           /\ Append(q, x) # << >>
           /\ Range(Append(q, x)) = Range(q) \cup {x}
  <1>1. /\ Append(q, x) \in Seq(T)
        /\ Len(Append(q, x)) = Len(q) + 1
        /\ \A i \in 1..Len(q) : Append(q, x)[i] = q[i]
        /\ Append(q, x)[Len(q) + 1] = x
    OBVIOUS
  <1>2. DOMAIN q = 1..Len(q) /\ DOMAIN Append(q, x) = 1..(Len(q) + 1) /\ Len(q) \in Nat
    BY <1>1
  <1>3. Range(q) \cup {x} \subseteq Range(Append(q, x))
    BY <1>1, <1>2 DEF Range
  <1>4. Range(Append(q, x)) \subseteq Range(q) \cup {x}
    BY <1>1, <1>2 DEF Range
  <1> QED
    BY <1>1, <1>2, <1>3, <1>4

(* Appending an element that is not on the list keeps it duplicate-free. *)
LEMMA AppendNoDup ==
    ASSUME NEW T, NEW q \in Seq(T), NEW x \in T,
           IsInjective(q), x \notin Range(q)
    PROVE  IsInjective(Append(q, x))
  <1>1. /\ Len(Append(q, x)) = Len(q) + 1
        /\ \A i \in 1..Len(q) : Append(q, x)[i] = q[i]
        /\ Append(q, x)[Len(q) + 1] = x
    OBVIOUS
  <1>2. DOMAIN q = 1..Len(q) /\ DOMAIN Append(q, x) = 1..(Len(q) + 1) /\ Len(q) \in Nat
    BY <1>1
  <1> QED
    BY <1>1, <1>2 DEF IsInjective, Range

(* RemoveFront takes off exactly the first element. *)
LEMMA TailRange ==
    ASSUME NEW T, NEW q \in Seq(T), q # << >>
    PROVE  /\ Tail(q) \in Seq(T)
           /\ Head(q) \in T
           /\ Range(q) = Range(Tail(q)) \cup {Head(q)}
  <1>1. /\ Tail(q) \in Seq(T)
        /\ Len(q) \in Nat \ {0}
        /\ Len(Tail(q)) = Len(q) - 1
        /\ Head(q) = q[1] /\ Head(q) \in T
        /\ \A i \in 1..(Len(q) - 1) : Tail(q)[i] = q[i + 1]
    OBVIOUS
  <1>2. DOMAIN q = 1..Len(q) /\ DOMAIN Tail(q) = 1..(Len(q) - 1)
    BY <1>1
  <1>3. Range(Tail(q)) \cup {Head(q)} \subseteq Range(q)
    BY <1>1, <1>2 DEF Range
  <1>4. ASSUME NEW i \in 1..Len(q)
        PROVE  q[i] \in Range(Tail(q)) \cup {Head(q)}
    <2>1. CASE i = 1
      BY <2>1, <1>1
    <2>2. CASE i # 1
      <3>1. i - 1 \in 1..(Len(q) - 1) /\ (i - 1) + 1 = i
        BY <2>2, <1>1
      <3>2. Tail(q)[i - 1] = q[i]
        BY <3>1, <1>1
      <3> QED
        BY <3>1, <3>2, <1>2 DEF Range
    <2> QED
      BY <2>1, <2>2
  <1> QED
    BY <1>1, <1>2, <1>3, <1>4 DEF Range

(* After RemoveFront a duplicate-free list no longer holds that element. *)
LEMMA TailNoDup ==
    ASSUME NEW T, NEW q \in Seq(T), q # << >>, IsInjective(q)
    PROVE  IsInjective(Tail(q)) /\ Head(q) \notin Range(Tail(q))
  <1>1. /\ Len(q) \in Nat \ {0}
        /\ Len(Tail(q)) = Len(q) - 1
        /\ Head(q) = q[1]
        /\ \A i \in 1..(Len(q) - 1) : Tail(q)[i] = q[i + 1]
    OBVIOUS
  <1>2. DOMAIN q = 1..Len(q) /\ DOMAIN Tail(q) = 1..(Len(q) - 1)
    BY <1>1
  <1> QED
    BY <1>1, <1>2 DEF IsInjective, Range

(* The empty list. *)
LEMMA EmptyQueue ==
    ASSUME NEW T
    PROVE  << >> \in Seq(T) /\ Range(<< >>) = {} /\ IsInjective(<< >>)
  BY DEF Range, IsInjective

(* A semaphore is its value and its queue. *)
LEMMA SemaphoreType ==
    ASSUME NEW T, NEW s \in Semaphores(T)
    PROVE  /\ s.value \in Nat
           /\ s.queue \in Seq(T)
           /\ s = [value |-> s.value, queue |-> s.queue]
  BY DEF Semaphores

(* What one pass of P() does to the record. *)
LEMMA PPassFacts ==
    ASSUME NEW T, NEW s \in Semaphores(T), NEW t \in T
    PROVE  /\ PPass(s, t) \in Semaphores(T)
           /\ s.value # 0 => PPass(s, t).value = s.value - 1 /\ PPass(s, t).queue = s.queue
           /\ s.value = 0 => PPass(s, t).value = 0 /\ PPass(s, t).queue = Append(s.queue, t)
  <1>1. s.value \in Nat /\ s.queue \in Seq(T)
    BY SemaphoreType
  <1>2. CASE s.value # 0
    <2>1. PPass(s, t) = [s EXCEPT !.value = @ - 1]
      BY <1>2 DEF PPass, Available, Consume
    <2>2. s.value - 1 \in Nat
      BY <1>1, <1>2
    <2> QED
      BY <1>2, <2>1, <2>2 DEF Semaphores
  <1>3. CASE s.value = 0
    <2>1. PPass(s, t) = [s EXCEPT !.queue = Append(@, t)]
      BY <1>3 DEF PPass, Available, Enqueue
    <2>2. Append(s.queue, t) \in Seq(T)
      BY <1>1
    <2> QED
      BY <1>3, <2>1, <2>2 DEF Semaphores
  <1> QED
    BY <1>2, <1>3

(* What V() does to the record. *)
LEMMA VPassFacts ==
    ASSUME NEW T, NEW s \in Semaphores(T)
    PROVE  /\ VPass(s) \in Semaphores(T)
           /\ VPass(s).value = s.value + 1
           /\ s.queue # << >> => VPass(s).queue = Tail(s.queue)
           /\ s.queue = << >> => VPass(s).queue = << >>
  <1>1. s.value \in Nat /\ s.queue \in Seq(T)
    BY SemaphoreType
  <1>2. s.queue # << >> => Tail(s.queue) \in Seq(T)
    BY <1>1
  <1>3. << >> \in Seq(T)
    OBVIOUS
  <1>4. s.value + 1 \in Nat
    BY <1>1
  <1> QED
    BY <1>2, <1>3, <1>4 DEF VPass, Semaphores
=============================================================================
