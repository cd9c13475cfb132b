-------------------------- MODULE SemaphoreProofs --------------------------
(***************************************************************************)
(* Semaphore::P and Semaphore::V lose no wake-up and implement a counting  *)
(* semaphore, for any set of threads and any initial value.                *)
(***************************************************************************)
EXTENDS Semaphore, QueueLemmas, FiniteSetTheorems

(* The inductive invariant. *)
IInv == TypeOK /\ QueueOfSleepers /\ NoLostWakeup

LEMMA WokenFinite ==
    IsFiniteSet(Woken) /\ Cardinality(Woken) \in Nat
  <1>1. Woken \subseteq Thread
    BY DEF Woken
  <1> QED
    BY <1>1, SemaphoreAssumption, FS_Subset, FS_CardinalityType

(* The entry of P() preserves the invariant. *)
LEMMA CallPInvariant ==
    ASSUME IInv, NEW t \in Thread, CallP(t)
    PROVE  IInv'
  <1> USE DEF IInv, TypeOK, CallP
  <1>1. TypeOK'
    BY PPassFacts
  <1>2. CASE sem.value # 0
    <2>1. sem'.queue = sem.queue /\ sem'.value = sem.value - 1 /\ pc' = pc
      BY <1>2, PPassFacts DEF Available
    <2>2. QueueOfSleepers' /\ Woken' = Woken
      BY <2>1 DEF QueueOfSleepers, Woken, Sleepers
    <2>3. NoLostWakeup'
      BY <2>1, <2>2, <1>2, WokenFinite, SemaphoreType DEF NoLostWakeup
    <2> QED
      BY <1>1, <2>2, <2>3
  <1>3. CASE sem.value = 0
    <2>1. /\ sem'.queue = Append(sem.queue, t) /\ sem'.value = 0
          /\ pc' = [pc EXCEPT ![t] = "P"]
      BY <1>3, PPassFacts DEF Available
    <2>2. sem.queue \in Seq(Thread) /\ Range(sem.queue) \subseteq Thread
      BY SemaphoreType DEF Range
    <2>3. t \notin Range(sem.queue)
      BY DEF QueueOfSleepers, Sleepers
    <2>4. Range(sem'.queue) = Range(sem.queue) \cup {t} /\ IsInjective(sem'.queue)
      BY <2>1, <2>2, <2>3, AppendRange, AppendNoDup DEF QueueOfSleepers
    <2>5. QueueOfSleepers'
      BY <2>1, <2>2, <2>4 DEF QueueOfSleepers, Sleepers
    <2>6. Cardinality(Woken') \in Nat
      <3>1. Woken' \subseteq Thread
        BY DEF Woken
      <3> QED
        BY <3>1, SemaphoreAssumption, FS_Subset, FS_CardinalityType
    <2>7. NoLostWakeup'
      BY <2>1, <2>6 DEF NoLostWakeup
    <2> QED
      BY <1>1, <2>5, <2>7
  <1> QED
    BY <1>2, <1>3

(* A retry in the loop of P() preserves the invariant. *)
LEMMA RetryPInvariant ==
    ASSUME IInv, NEW t \in Thread, RetryP(t)
    PROVE  IInv'
  <1> USE DEF IInv, TypeOK, RetryP
  <1>1. TypeOK'
    BY PPassFacts
  <1>2. pc[t] = "P" /\ t \notin Range(sem.queue)
    BY DEF Woken, Sleepers
  <1>3. CASE sem.value # 0
    <2>1. /\ sem'.queue = sem.queue /\ sem'.value = sem.value - 1
          /\ pc' = [pc EXCEPT ![t] = "out"]
      BY <1>3, PPassFacts DEF Available
    <2>2. QueueOfSleepers'
      BY <2>1, <1>2, SemaphoreType DEF QueueOfSleepers, Sleepers, Range
    <2>3. Woken' = Woken \ {t}
      BY <2>1, <1>2 DEF Woken, Sleepers
    <2>4. Cardinality(Woken') = Cardinality(Woken) - 1
      BY <2>3, WokenFinite, FS_RemoveElement
    <2>5. NoLostWakeup'
      BY <2>1, <2>4, <1>3, WokenFinite, SemaphoreType DEF NoLostWakeup
    <2> QED
      BY <1>1, <2>2, <2>5
  <1>4. CASE sem.value = 0
    <2>1. sem'.queue = Append(sem.queue, t) /\ sem'.value = 0 /\ pc' = pc
      BY <1>4, PPassFacts DEF Available
    <2>2. sem.queue \in Seq(Thread)
      BY SemaphoreType
    <2>3. Range(sem'.queue) = Range(sem.queue) \cup {t} /\ IsInjective(sem'.queue)
      BY <2>1, <2>2, <1>2, AppendRange, AppendNoDup DEF QueueOfSleepers
    <2>4. QueueOfSleepers'
      BY <2>1, <2>3, <1>2 DEF QueueOfSleepers, Sleepers
    <2>5. Cardinality(Woken') \in Nat
      <3>1. Woken' \subseteq Thread
        BY DEF Woken
      <3> QED
        BY <3>1, SemaphoreAssumption, FS_Subset, FS_CardinalityType
    <2>6. NoLostWakeup'
      BY <2>1, <2>5 DEF NoLostWakeup
    <2> QED
      BY <1>1, <2>4, <2>6
  <1> QED
    BY <1>3, <1>4

(* V() preserves the invariant: it wakes one thread for the unit it adds. *)
LEMMA VInvariant ==
    ASSUME IInv, V
    PROVE  IInv'
  <1> USE DEF IInv, TypeOK, V
  <1>1. TypeOK'
    BY VPassFacts
  <1>2. CASE sem.queue = << >>
    <2>1. sem'.queue = << >> /\ pc' = pc
      BY <1>2, VPassFacts
    <2> QED
      BY <1>1, <2>1, <1>2, EmptyQueue DEF QueueOfSleepers, NoLostWakeup, Sleepers
  <1>3. CASE sem.queue # << >>
    <2>1. sem'.queue = Tail(sem.queue) /\ sem'.value = sem.value + 1 /\ pc' = pc
      BY <1>3, VPassFacts
    <2>2. sem.queue \in Seq(Thread) /\ sem.value \in Nat
      BY SemaphoreType
    <2> DEFINE h == Head(sem.queue)
    <2>3. /\ h \in Thread
          /\ Range(sem.queue) = Range(sem'.queue) \cup {h}
          /\ h \notin Range(sem'.queue)
          /\ IsInjective(sem'.queue)
      BY <2>1, <2>2, <1>3, TailRange, TailNoDup DEF QueueOfSleepers
    <2>4. QueueOfSleepers'
      BY <2>1, <2>3 DEF QueueOfSleepers, Sleepers
    <2>5. h \notin Woken /\ Woken' = Woken \cup {h}
      BY <2>1, <2>3 DEF QueueOfSleepers, Woken, Sleepers
    <2>6. Cardinality(Woken') = Cardinality(Woken) + 1
      BY <2>5, WokenFinite, FS_AddElement
    <2>7. NoLostWakeup'
      BY <2>1, <2>2, <2>6, <1>3, WokenFinite DEF NoLostWakeup
    <2> QED
      BY <1>1, <2>4, <2>7
  <1> QED
    BY <1>2, <1>3

(***************************************************************************)
(* Semaphore::P and Semaphore::V keep the queue a duplicate-free list of   *)
(* threads asleep in P(), and match every unit of value with a woken       *)
(* thread as long as somebody sleeps.                                      *)
(***************************************************************************)
THEOREM SemaphoreInvariant == Spec => []IInv
  <1>1. Init => IInv
    BY SemaphoreAssumption, EmptyQueue
    DEF Init, IInv, TypeOK, NewSemaphore, Semaphores, QueueOfSleepers, NoLostWakeup, Sleepers
  <1>2. IInv /\ [Next]_vars => IInv'
    <2> SUFFICES ASSUME IInv, [Next]_vars
                 PROVE  IInv'
      OBVIOUS
    <2>1. CASE V
      BY <2>1, VInvariant
    <2>2. ASSUME NEW t \in Thread, CallP(t)
          PROVE  IInv'
      BY <2>2, CallPInvariant
    <2>3. ASSUME NEW t \in Thread, RetryP(t)
          PROVE  IInv'
      BY <2>3, RetryPInvariant
    <2>4. CASE UNCHANGED vars
      BY <2>4 DEF vars, IInv, TypeOK, QueueOfSleepers, NoLostWakeup, Woken, Sleepers
    <2> QED
      BY <2>1, <2>2, <2>3, <2>4 DEF Next
  <1> QED
    BY <1>1, <1>2, PTL DEF Spec

(* No wake-up is lost in Semaphore::V, whoever else calls P() meanwhile. *)
THEOREM NoWakeupIsLost == Spec => []NoLostWakeup
  BY SemaphoreInvariant, PTL DEF IInv

(***************************************************************************)
(* Every step of the semaphore is a step of the counting semaphore, or     *)
(* one its callers cannot see.                                             *)
(***************************************************************************)
THEOREM SemaphoreImplements == Spec => Abstract!Safe
  <1>1. Init => Abstract!Init
    BY DEF Init, Abstract!Init, NewSemaphore
  <1>2. IInv /\ [Next]_vars => [Abstract!Next]_(Abstract!vars)
    <2> SUFFICES ASSUME IInv, [Next]_vars
                 PROVE  [Abstract!Next]_(Abstract!vars)
      OBVIOUS
    <2> USE DEF IInv, TypeOK
    <2> DEFINE waiting == {t \in Thread : pc[t] = "P"}
    <2>1. CASE V
      <3>1. sem'.value = sem.value + 1 /\ waiting' = waiting
        BY <2>1, VPassFacts DEF V
      <3> QED
        BY <3>1 DEF Abstract!Next, Abstract!Give
    <2>2. ASSUME NEW t \in Thread, CallP(t)
          PROVE  Abstract!Next
      <3>1. CASE sem.value # 0
        <4>1. sem'.value = sem.value - 1 /\ waiting' = waiting /\ sem.value > 0
          BY <3>1, <2>2, PPassFacts, SemaphoreType DEF CallP, Available
        <4> QED
          BY <4>1 DEF Abstract!Next, Abstract!Take
      <3>2. CASE sem.value = 0
        <4>1. sem'.value = 0 /\ t \notin waiting /\ waiting' = waiting \cup {t}
          BY <3>2, <2>2, PPassFacts DEF CallP, Available
        <4> QED
          BY <4>1, <3>2 DEF Abstract!Next, Abstract!Wait
      <3> QED
        BY <3>1, <3>2
    <2>3. ASSUME NEW t \in Thread, RetryP(t)
          PROVE  [Abstract!Next]_(Abstract!vars)
      <3>1. CASE sem.value # 0
        <4>1. /\ sem'.value = sem.value - 1 /\ sem.value > 0
              /\ t \in waiting /\ waiting' = waiting \ {t}
          BY <3>1, <2>3, PPassFacts, SemaphoreType DEF RetryP, Available, Woken
        <4> QED
          BY <4>1 DEF Abstract!Next, Abstract!Grant
      <3>2. CASE sem.value = 0
        <4>1. sem'.value = sem.value /\ waiting' = waiting
          BY <3>2, <2>3, PPassFacts DEF RetryP, Available
        <4> QED
          BY <4>1 DEF Abstract!vars
      <3> QED
        BY <3>1, <3>2
    <2>4. CASE UNCHANGED vars
      BY <2>4 DEF vars, Abstract!vars
    <2> QED
      BY <2>1, <2>2, <2>3, <2>4 DEF Next
  <1> QED
    BY <1>1, <1>2, SemaphoreInvariant, PTL DEF Spec, Abstract!Safe
=============================================================================
