----------------------------- MODULE Semaphore -----------------------------
(***************************************************************************)
(* One semaphore used by any number of threads and interrupt handlers      *)
(* (threads/synch.cc).  A thread is outside, or inside P(); inside P() it  *)
(* is asleep when it is on the semaphore's queue, and otherwise it has     *)
(* been woken and will test value again when it is scheduled.  V() may be  *)
(* called by any running thread and by an interrupt handler, so it belongs *)
(* to no thread of the model.                                              *)
(***************************************************************************)
EXTENDS SemaphoreOps, FiniteSets

CONSTANTS Thread,        \* the threads that use the semaphore
          InitialValue,  \* the argument of the constructor
          MaxValue       \* bound of the model: V() is not called above it

ASSUME SemaphoreAssumption ==
    /\ IsFiniteSet(Thread)
    /\ InitialValue \in Nat
    /\ MaxValue \in Nat

VARIABLES sem,  \* the semaphore
          pc    \* "out", or "P" while the thread is inside P()

vars == <<sem, pc>>

(* Inside P() but not on the queue: woken, and not yet scheduled. *)
Woken == {t \in Thread : pc[t] = "P" /\ t \notin Sleepers(sem)}

-----------------------------------------------------------------------------
Init == /\ sem = NewSemaphore(InitialValue)
        /\ pc = [t \in Thread |-> "out"]

(* Entry of P(): the first test of value, then return or sleep. *)
CallP(t) == /\ pc[t] = "out"
            /\ sem' = PPass(sem, t)
            /\ pc' = IF Available(sem) THEN pc ELSE [pc EXCEPT ![t] = "P"]

(* Mutants: "if" instead of "while" in P(), so that a woken thread takes    *)
(* the value without a test; and with a test, but no second sleep.          *)
RetryP_NoTest(t) == /\ t \in Woken
                    /\ sem' = Consume(sem)
                    /\ pc' = [pc EXCEPT ![t] = "out"]

RetryP_NoSleep(t) == /\ t \in Woken
                     /\ sem' = IF Available(sem) THEN Consume(sem) ELSE sem
                     /\ pc' = [pc EXCEPT ![t] = "out"]

(* A woken thread is scheduled and goes round the loop of P() once more. *)
RetryP(t) == /\ t \in Woken
             /\ sem' = PPass(sem, t)
             /\ pc' = IF Available(sem) THEN [pc EXCEPT ![t] = "out"] ELSE pc

V == /\ sem.value < MaxValue
     /\ sem' = VPass(sem)
     /\ UNCHANGED pc

Next == V \/ \E t \in Thread : CallP(t) \/ RetryP(t)

Spec == Init /\ [][Next]_vars

(* The scheduler runs every ready thread (module Scheduler). *)
FairSpec == Spec /\ \A t \in Thread : WF_vars(RetryP(t))

-----------------------------------------------------------------------------
TypeOK == /\ sem \in Semaphores(Thread)
          /\ pc \in [Thread -> {"out", "P"}]

(***************************************************************************)
(* The queue holds exactly threads that are inside P(), each once: the     *)
(* thread that V() readies is asleep in P() and is on no other list.       *)
(***************************************************************************)
QueueOfSleepers ==
    /\ \A t \in Sleepers(sem) : pc[t] = "P"
    /\ IsInjective(sem.queue)

(***************************************************************************)
(* No wake-up is lost: while threads sleep on the queue, every unit of     *)
(* value is matched by a thread that V() has already woken.  A unit can    *)
(* therefore never lie unused while everybody sleeps.                      *)
(***************************************************************************)
NoLostWakeup == sem.queue # << >> => sem.value <= Cardinality(Woken)

(***************************************************************************)
(* Semaphore::P and Semaphore::V implement a counting semaphore: the       *)
(* queue, the wake-ups and the retries are invisible to the callers, and   *)
(* an available unit is eventually granted to somebody who waits.          *)
(***************************************************************************)
Abstract == INSTANCE CountingSemaphore
            WITH value <- sem.value, waiting <- {t \in Thread : pc[t] = "P"}

Implements == Abstract!Spec
=============================================================================
