---------------------------- MODULE SemaphoreOps ----------------------------
(***************************************************************************)
(* class Semaphore (threads/synch.cc) as operators on a record             *)
(*   [value |-> a natural number, queue |-> the threads asleep in P()].    *)
(*                                                                         *)
(* P() and V() run with interrupts disabled, and the kernel has one CPU,   *)
(* so each pass of the loop of P() and the whole of V() is one step.  A    *)
(* thread that finds value = 0 appends itself to queue and sleeps in the   *)
(* loop; V() only makes the first sleeper ready, it does not hand it the   *)
(* value.  The woken thread tests value again when the scheduler gives it  *)
(* the CPU, and by then another thread may have taken it.                  *)
(***************************************************************************)
EXTENDS Naturals, Sequences, Functions

Semaphores(T) == [value : Nat, queue : Seq(T)]

(* Semaphore(debugName, initialValue) *)
NewSemaphore(initialValue) == [value |-> initialValue, queue |-> << >>]

(* The threads asleep in P(), in the order in which V() wakes them. *)
Sleepers(s) == Range(s.queue)

(* The test of the loop of P(), and its two outcomes for thread t. *)
Available(s) == s.value # 0
Consume(s) == [s EXCEPT !.value = @ - 1]
Enqueue(s, t) == [s EXCEPT !.queue = Append(@, t)]

(* Mutant: the caller queues itself before the test. *)
PPass_QueuesFirst(s, t) == IF Available(s) THEN Consume(Enqueue(s, t)) ELSE Enqueue(s, t)

(* One pass of P() by thread t. *)
PPass(s, t) == IF Available(s) THEN Consume(s) ELSE Enqueue(s, t)

(* Mutant: V() wakes a thread only when value was 0. *)
VPass_WakesAtZero(s) == [value |-> s.value + 1,
                         queue |-> IF s.queue = << >> \/ s.value > 0 THEN s.queue ELSE Tail(s.queue)]

(* V(): wake the first sleeper if there is one, then value++. *)
VPass(s) == [value |-> s.value + 1,
             queue |-> IF s.queue = << >> THEN << >> ELSE Tail(s.queue)]
=============================================================================
