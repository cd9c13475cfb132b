----------------------------- MODULE SynchDisk -----------------------------
(***************************************************************************)
(* The synchronous disk (filesys/synchdisk.cc): a Lock and a Semaphore     *)
(* (threads/synch.cc) around the asynchronous disk (machine/disk.cc) and   *)
(* its completion interrupt.                                               *)
(*                                                                         *)
(* A context switch can only happen where interrupts are re-enabled, that  *)
(* is when P() or V() returns, or when a thread sleeps in P().  Each       *)
(* action below is the code between two such places.  pc[t] is             *)
(*   "idle"     outside ReadSector and WriteSector                         *)
(*   "acquire"  in lock->Acquire(), asleep on the lock or woken            *)
(*   "locked"   P() of the lock has returned, lockHolder not yet set       *)
(*   "wait"     the request is made; in semaphore->P()                     *)
(*   "release"  semaphore->P() has returned                                *)
(***************************************************************************)
EXTENDS SemaphoreOps

CONSTANTS Thread, Sector, Data,
          NoThread,   \* NULL
          MaxCalls    \* bound of the model: calls made by each thread

ASSUME SynchDiskAssumption == NoThread \notin Thread /\ MaxCalls \in Nat

VARIABLES lock,        \* the semaphore inside SynchDisk::lock
          lockHolder,  \* Lock::lockHolder
          sem,         \* SynchDisk::semaphore
          active,      \* Disk::active
          pending,     \* number of scheduled disk interrupts
          disk,        \* contents of the UNIX file behind the disk
          pc, req, buf,
          calls        \* calls made so far, for the bound

vars == <<lock, lockHolder, sem, active, pending, disk, pc, req, buf, calls>>

Request == [op : {"read", "write"}, sector : Sector, data : Data]

Init == /\ lock = NewSemaphore(1)
        /\ lockHolder = NoThread
        /\ sem = NewSemaphore(0)
        /\ active = FALSE
        /\ pending = 0
        /\ disk \in [Sector -> Data]
        /\ pc = [t \in Thread |-> "idle"]
        /\ \E r \in Request : req = [t \in Thread |-> r]
        /\ \E d \in Data : buf = [t \in Thread |-> d]
        /\ calls = [t \in Thread |-> 0]

Goto(t, label) == pc' = [pc EXCEPT ![t] = label]

-----------------------------------------------------------------------------
(* Mutant: ReadSector without lock->Acquire(). *)
Acquire_NoLock(t) == Goto(t, "locked") /\ UNCHANGED lock

(* One pass of the loop in lock->Acquire(). *)
Acquire(t) == /\ lock' = PPass(lock, t)
              /\ Goto(t, IF Available(lock) THEN "locked" ELSE "acquire")

Call(t, r) == /\ pc[t] = "idle"
              /\ calls[t] < MaxCalls
              /\ calls' = [calls EXCEPT ![t] = @ + 1]
              /\ req' = [req EXCEPT ![t] = r]
              /\ Acquire(t)
              /\ UNCHANGED <<lockHolder, sem, active, pending, disk, buf>>

RetryAcquire(t) == /\ pc[t] = "acquire"
                   /\ t \notin Sleepers(lock)
                   /\ Acquire(t)
                   /\ UNCHANGED <<lockHolder, sem, active, pending, disk, req, buf, calls>>

(* Mutant: WriteSector calls ReadRequest. *)
DiskRequest_Reads(t) == /\ buf' = [buf EXCEPT ![t] = disk[req[t].sector]]
                        /\ active' = TRUE
                        /\ pending' = pending + 1
                        /\ UNCHANGED disk

(* Disk::ReadRequest and Disk::WriteRequest: the transfer with the UNIX     *)
(* file happens at once, the completion interrupt later.                    *)
DiskRequest(t) == /\ IF req[t].op = "read"
                     THEN buf' = [buf EXCEPT ![t] = disk[req[t].sector]] /\ UNCHANGED disk
                     ELSE disk' = [disk EXCEPT ![req[t].sector] = req[t].data] /\ UNCHANGED buf
                  /\ active' = TRUE
                  /\ pending' = pending + 1

(* Mutants: P() without its loop, and no P() at all. *)
AwaitInterrupt_NoLoop(t) == sem' = Consume(sem) /\ Goto(t, "release")

AwaitInterrupt_NoP(t) == Goto(t, "release") /\ UNCHANGED sem

(* One pass of the loop in semaphore->P(). *)
AwaitInterrupt(t) == /\ sem' = PPass(sem, t)
                     /\ Goto(t, IF Available(sem) THEN "release" ELSE "wait")

(* The rest of Acquire(), the request, and the first test of semaphore->P(). *)
MakeRequest(t) == /\ pc[t] = "locked"
                  /\ lockHolder' = t
                  /\ DiskRequest(t)
                  /\ AwaitInterrupt(t)
                  /\ UNCHANGED <<lock, req, calls>>

RetryWait(t) == /\ pc[t] = "wait"
                /\ t \notin Sleepers(sem)
                /\ AwaitInterrupt(t)
                /\ UNCHANGED <<lock, lockHolder, active, pending, disk, req, buf, calls>>

(* Mutant: a return without lock->Release(). *)
Release_NoV(t) == /\ pc[t] = "release"
                  /\ lockHolder' = NoThread
                  /\ Goto(t, "idle")
                  /\ UNCHANGED <<lock, sem, active, pending, disk, req, buf, calls>>

(* lock->Release(), and return. *)
Release(t) == /\ pc[t] = "release"
              /\ lockHolder' = NoThread
              /\ lock' = VPass(lock)
              /\ Goto(t, "idle")
              /\ UNCHANGED <<sem, active, pending, disk, req, buf, calls>>

(* The disk interrupt: Disk::CallBack, which calls SynchDisk::CallBack. *)
DiskInterrupt == /\ pending > 0
                 /\ pending' = pending - 1
                 /\ active' = FALSE
                 /\ sem' = VPass(sem)
                 /\ UNCHANGED <<lock, lockHolder, disk, pc, req, buf, calls>>

Step(t) == RetryAcquire(t) \/ MakeRequest(t) \/ RetryWait(t) \/ Release(t)

Next == DiskInterrupt \/ \E t \in Thread : Step(t) \/ \E r \in Request : Call(t, r)

Spec == Init /\ [][Next]_vars

(* Ready threads are scheduled, and a scheduled interrupt occurs. *)
FairSpec == Spec /\ WF_vars(DiskInterrupt) /\ \A t \in Thread : WF_vars(Step(t))

-----------------------------------------------------------------------------
TypeOK == /\ lock \in Semaphores(Thread)
          /\ lockHolder \in Thread \cup {NoThread}
          /\ sem \in Semaphores(Thread)
          /\ active \in BOOLEAN
          /\ pending \in Nat
          /\ disk \in [Sector -> Data]
          /\ pc \in [Thread -> {"idle", "acquire", "locked", "wait", "release"}]
          /\ req \in [Thread -> Request]
          /\ buf \in [Thread -> Data]
          /\ calls \in [Thread -> 0..MaxCalls]

(* Between lock->Acquire() and lock->Release(). *)
Inside(t) == pc[t] \in {"locked", "wait", "release"}

(***************************************************************************)
(* "Only one disk I/O at a time": the lock admits one thread, it finds     *)
(* the disk inactive (the ASSERT(!active) of ReadRequest and WriteRequest  *)
(* holds) and no stale completion in the semaphore, and the thread that    *)
(* releases the lock is the one that holds it (the ASSERT of Release).     *)
(***************************************************************************)
OneRequest ==
    /\ \A t, u \in Thread : Inside(t) /\ Inside(u) => t = u
    /\ \A t \in Thread : pc[t] = "locked" => ~active /\ pending = 0 /\ sem.value = 0
    /\ \A t \in Thread : pc[t] = "release" => lockHolder = t

(***************************************************************************)
(* ReadSector and WriteSector "return only after" the transfer is done:    *)
(* a thread past semaphore->P() has consumed the interrupt of its own      *)
(* request, and none is left over.                                         *)
(***************************************************************************)
ReturnAfterInterrupt ==
    \A t \in Thread : pc[t] = "release" => ~active /\ pending = 0 /\ sem.value = 0

(***************************************************************************)
(* To the file system the sectors look like atomic registers: calls of     *)
(* several threads take effect one at a time between call and return.      *)
(***************************************************************************)
Abstract == INSTANCE AtomicDisk
            WITH phase <- [t \in Thread |-> IF pc[t] = "idle" THEN "idle"
                                            ELSE IF pc[t] \in {"acquire", "locked"} THEN "called"
                                            ELSE "done"]

Implements == Abstract!Spec

(***************************************************************************)
(* Every call of ReadSector or WriteSector returns, if no thread calls     *)
(* again and again.  (The woken waiter of a lock has no claim on it: a     *)
(* thread that calls forever can keep others out, see the README.)         *)
(***************************************************************************)
EveryCallReturns == \A t \in Thread : pc[t] # "idle" ~> pc[t] = "idle"
=============================================================================
