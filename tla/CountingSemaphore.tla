------------------------- MODULE CountingSemaphore -------------------------
(***************************************************************************)
(* What a semaphore promises its callers, without queues and schedulers:   *)
(* a counter, P takes one unit when there is one, V adds one, and while    *)
(* units are there a waiting caller gets one.  The header comment of       *)
(* threads/synch.h: "P() -- waits until value > 0, then decrement" and     *)
(* "V() -- increment, waking up a thread waiting in P() if necessary".     *)
(***************************************************************************)
EXTENDS Naturals

CONSTANTS Thread, InitialValue

VARIABLES value,    \* the units left
          waiting   \* the threads that called P() and have not returned

vars == <<value, waiting>>

Init == value = InitialValue /\ waiting = {}

(* P() that returns at once. *)
Take == value > 0 /\ value' = value - 1 /\ UNCHANGED waiting

(* P() that has to wait. *)
Wait(t) == /\ value = 0
           /\ t \notin waiting
           /\ waiting' = waiting \cup {t}
           /\ UNCHANGED value

(* A waiting P() returns. *)
Grant(t) == /\ value > 0
            /\ t \in waiting
            /\ value' = value - 1
            /\ waiting' = waiting \ {t}

Give == value' = value + 1 /\ UNCHANGED waiting

Next == Take \/ Give \/ \E t \in Thread : Wait(t) \/ Grant(t)

Safe == Init /\ [][Next]_vars

(* Units that stay available are eventually granted to someone waiting. *)
Spec == Safe /\ WF_vars(\E t \in Thread : Grant(t))
=============================================================================
