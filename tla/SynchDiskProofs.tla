-------------------------- MODULE SynchDiskProofs --------------------------
(***************************************************************************)
(* SynchDisk serialises the disk for any number of threads, sectors and    *)
(* calls: one request at a time, no return before its own interrupt, and   *)
(* sectors that behave like atomic registers.                              *)
(***************************************************************************)
EXTENDS SynchDisk, QueueLemmas

(* The three states of the disk and of the semaphore its interrupt signals. *)
Quiet == ~active /\ pending = 0 /\ sem = [value |-> 0, queue |-> << >>]
InFlight(t) == active /\ pending = 1 /\ sem = [value |-> 0, queue |-> <<t>>]
Completed == ~active /\ pending = 0 /\ sem = [value |-> 1, queue |-> << >>]

AtMostOne == \A t, u \in Thread : Inside(t) /\ Inside(u) => t = u
LockCounts == lock.value \in {0, 1} /\ (lock.value = 1 <=> \A t \in Thread : ~Inside(t))
HolderInside == \A t \in Thread : lockHolder = t <=> pc[t] \in {"wait", "release"}
DiskFollows == /\ (\A t \in Thread : pc[t] # "wait") => Quiet
               /\ \A t \in Thread : pc[t] = "wait" => InFlight(t) \/ Completed

(* The inductive invariant. *)
IInv == TypeOK /\ AtMostOne /\ LockCounts /\ HolderInside /\ DiskFollows

(* A pass of lock->Acquire() that preserves the rest of the state. *)
LEMMA AcquireInvariant ==
    ASSUME IInv, NEW t \in Thread, pc[t] \in {"idle", "acquire"}, Acquire(t),
           UNCHANGED <<lockHolder, sem, active, pending, disk, buf>>,
           req' \in [Thread -> Request], calls' \in [Thread -> 0..MaxCalls]
    PROVE  IInv'
  <1> USE DEF IInv, TypeOK, Acquire, Goto
  <1>1. TypeOK'
    BY PPassFacts
  <1>2. CASE lock.value # 0
    <2>1. lock'.value = 0 /\ pc' = [pc EXCEPT ![t] = "locked"] /\ \A u \in Thread : ~Inside(u)
      BY <1>2, PPassFacts DEF Available, LockCounts
    <2>2. AtMostOne' /\ LockCounts'
      BY <2>1 DEF AtMostOne, LockCounts, Inside
    <2>3. HolderInside' /\ DiskFollows'
      BY <2>1 DEF HolderInside, DiskFollows, Inside, Quiet, InFlight, Completed
    <2> QED
      BY <1>1, <2>2, <2>3
  <1>3. CASE lock.value = 0
    <2>1. lock'.value = 0 /\ pc' = [pc EXCEPT ![t] = "acquire"]
      BY <1>3, PPassFacts DEF Available
    <2>2. AtMostOne' /\ LockCounts'
      BY <2>1, <1>3 DEF AtMostOne, LockCounts, Inside
    <2>3. HolderInside' /\ DiskFollows'
      BY <2>1 DEF HolderInside, DiskFollows, Inside, Quiet, InFlight, Completed
    <2> QED
      BY <1>1, <2>2, <2>3
  <1> QED
    BY <1>2, <1>3

(* While a thread holds the lock before its request, the disk is quiet. *)
LEMMA LockedQuiet ==
    ASSUME IInv, NEW t \in Thread, pc[t] \in {"locked", "release"}
    PROVE  Quiet
  BY DEF IInv, AtMostOne, DiskFollows, Inside

(* The request finds the disk quiet and leaves it in flight. *)
LEMMA MakeRequestInvariant ==
    ASSUME IInv, NEW t \in Thread, MakeRequest(t)
    PROVE  IInv'
  <1> USE DEF IInv, TypeOK, MakeRequest
  <1>1. Quiet
    BY LockedQuiet
  <1>2. active' /\ pending' = 1 /\ pc' = [pc EXCEPT ![t] = "wait"]
    BY <1>1 DEF Quiet, DiskRequest, AwaitInterrupt, Available, Goto
  <1>3. sem' = [value |-> 0, queue |-> <<t>>]
    <2>1. sem' = [sem EXCEPT !.queue = Append(@, t)]
      BY <1>1 DEF Quiet, AwaitInterrupt, PPass, Available, Enqueue
    <2> QED
      BY <1>1, <2>1 DEF Quiet
  <1>4. TypeOK'
    <2>1. req[t].sector \in Sector /\ req[t].data \in Data
      BY DEF Request
    <2>2. disk' \in [Sector -> Data] /\ buf' \in [Thread -> Data]
      BY <2>1 DEF DiskRequest
    <2>3. sem' \in Semaphores(Thread)
      BY <1>3 DEF Semaphores
    <2> QED
      BY <1>2, <2>2, <2>3
  <1>5. AtMostOne' /\ LockCounts' /\ HolderInside'
    BY <1>2 DEF AtMostOne, LockCounts, HolderInside, Inside
  <1>6. \A u \in Thread : pc'[u] = "wait" => u = t
    BY <1>2 DEF AtMostOne, Inside
  <1>7. DiskFollows'
    BY <1>2, <1>3, <1>6 DEF DiskFollows, InFlight
  <1> QED
    BY <1>4, <1>5, <1>7

(* The woken thread finds the completion of its own request. *)
LEMMA RetryWaitInvariant ==
    ASSUME IInv, NEW t \in Thread, RetryWait(t)
    PROVE  IInv'
  <1> USE DEF IInv, TypeOK, RetryWait
  <1>1. Completed
    BY DEF DiskFollows, InFlight, Sleepers, Range
  <1>2. pc' = [pc EXCEPT ![t] = "release"]
    BY <1>1 DEF Completed, AwaitInterrupt, Available, Goto
  <1>3. sem' = [value |-> 0, queue |-> << >>]
    <2>1. sem' = [sem EXCEPT !.value = @ - 1]
      BY <1>1 DEF Completed, AwaitInterrupt, PPass, Available, Consume
    <2> QED
      BY <1>1, <2>1 DEF Completed
  <1>4. TypeOK'
    BY <1>2, PPassFacts DEF AwaitInterrupt
  <1>5. AtMostOne' /\ LockCounts' /\ HolderInside'
    BY <1>2 DEF AtMostOne, LockCounts, HolderInside, Inside
  <1>6. Quiet' /\ \A u \in Thread : pc'[u] # "wait"
    BY <1>1, <1>2, <1>3 DEF Quiet, Completed, AtMostOne, Inside
  <1>7. DiskFollows'
    BY <1>6 DEF DiskFollows
  <1> QED
    BY <1>4, <1>5, <1>7

(* lock->Release() frees the lock and leaves the disk quiet. *)
LEMMA ReleaseInvariant ==
    ASSUME IInv, NEW t \in Thread, Release(t)
    PROVE  IInv'
  <1> USE DEF IInv, TypeOK, Release, Goto
  <1>1. Quiet
    BY LockedQuiet
  <1>2. lock.value = 0 /\ lock'.value = 1 /\ lock' \in Semaphores(Thread)
    BY VPassFacts, SemaphoreType DEF LockCounts, Inside
  <1>3. \A u \in Thread : ~Inside(u)'
    BY DEF AtMostOne, Inside
  <1>4. AtMostOne' /\ LockCounts'
    BY <1>2, <1>3 DEF AtMostOne, LockCounts
  <1>5. HolderInside'
    BY <1>3, SynchDiskAssumption DEF HolderInside, Inside
  <1>6. DiskFollows'
    BY <1>1, <1>3 DEF DiskFollows, Quiet, Inside
  <1> QED
    BY <1>2, <1>4, <1>5, <1>6

(* The interrupt completes the request of the thread that waits for it. *)
LEMMA DiskInterruptInvariant ==
    ASSUME IInv, DiskInterrupt
    PROVE  IInv'
  <1> USE DEF IInv, TypeOK, DiskInterrupt
  <1>1. PICK t \in Thread : pc[t] = "wait" /\ InFlight(t)
    BY DEF DiskFollows, Quiet, Completed
  <1>2. sem' = [value |-> 1, queue |-> << >>]
    BY <1>1 DEF InFlight, VPass
  <1>3. Completed'
    BY <1>1, <1>2 DEF InFlight, Completed
  <1>4. TypeOK'
    <2>1. sem' \in Semaphores(Thread)
      BY VPassFacts
    <2>2. pending' \in Nat
      BY <1>1 DEF InFlight
    <2>3. active' \in BOOLEAN
      BY Zenon
    <2> QED
      BY <2>1, <2>2, <2>3
  <1>5. AtMostOne' /\ LockCounts' /\ HolderInside'
    BY DEF AtMostOne, LockCounts, HolderInside, Inside
  <1>6. DiskFollows'
    BY <1>1, <1>3 DEF DiskFollows
  <1> QED
    BY <1>4, <1>5, <1>6

(* Every step preserves the invariant. *)
LEMMA StepInvariant ==
    ASSUME IInv, [Next]_vars
    PROVE  IInv'
  <1>1. CASE DiskInterrupt
    BY <1>1, DiskInterruptInvariant
  <1>2. ASSUME NEW t \in Thread, NEW r \in Request, Call(t, r)
        PROVE  IInv'
    <2>1. req' \in [Thread -> Request] /\ calls' \in [Thread -> 0..MaxCalls]
      BY <1>2, SynchDiskAssumption DEF Call, IInv, TypeOK
    <2> QED
      BY <1>2, <2>1, AcquireInvariant DEF Call
  <1>3. ASSUME NEW t \in Thread, RetryAcquire(t)
        PROVE  IInv'
    BY <1>3, AcquireInvariant DEF RetryAcquire, IInv, TypeOK
  <1>4. ASSUME NEW t \in Thread, MakeRequest(t) \/ RetryWait(t) \/ Release(t)
        PROVE  IInv'
    BY <1>4, MakeRequestInvariant, RetryWaitInvariant, ReleaseInvariant
  <1>5. CASE UNCHANGED vars
    BY <1>5 DEF vars, IInv, TypeOK, AtMostOne, LockCounts, HolderInside, DiskFollows, Inside,
                Quiet, InFlight, Completed
  <1> QED
    BY <1>1, <1>2, <1>3, <1>4, <1>5 DEF Next, Step

(* The lock, the semaphore and the disk agree on who uses the disk. *)
THEOREM SynchDiskInvariant == Spec => []IInv
  <1>1. ASSUME Init PROVE IInv
    <2>1. /\ lock = [value |-> 1, queue |-> << >>] /\ sem = [value |-> 0, queue |-> << >>]
          /\ lock \in Semaphores(Thread) /\ sem \in Semaphores(Thread)
      BY <1>1, EmptyQueue DEF Init, NewSemaphore, Semaphores
    <2>2. TypeOK
      <3>1. active \in BOOLEAN
        BY <1>1, Zenon DEF Init
      <3> QED
        BY <1>1, <2>1, <3>1, SynchDiskAssumption DEF Init, TypeOK
    <2>3. AtMostOne /\ LockCounts /\ HolderInside /\ DiskFollows
      BY <1>1, <2>1, SynchDiskAssumption
      DEF Init, AtMostOne, LockCounts, HolderInside, DiskFollows, Inside, Quiet
    <2> QED
      BY <2>2, <2>3 DEF IInv
  <1>2. IInv /\ [Next]_vars => IInv'
    BY StepInvariant
  <1> QED
    BY <1>1, <1>2, PTL DEF Spec

(***************************************************************************)
(* The ASSERT(!active) of Disk::ReadRequest and Disk::WriteRequest and the *)
(* ASSERT of Lock::Release never fail: SynchDisk makes one request at a    *)
(* time.                                                                   *)
(***************************************************************************)
THEOREM OneRequestAtATime == Spec => []OneRequest
  <1>1. IInv => OneRequest
    <2> SUFFICES ASSUME IInv PROVE OneRequest
      OBVIOUS
    <2>1. \A t \in Thread : pc[t] = "locked" => ~active /\ pending = 0 /\ sem.value = 0
      BY LockedQuiet DEF Quiet
    <2> QED
      BY <2>1 DEF IInv, OneRequest, AtMostOne, HolderInside
  <1> QED
    BY <1>1, SynchDiskInvariant, PTL

(***************************************************************************)
(* SynchDisk::ReadSector and WriteSector return only after the interrupt   *)
(* of their own request.                                                   *)
(***************************************************************************)
THEOREM ReturnsAfterInterrupt == Spec => []ReturnAfterInterrupt
  <1>1. IInv => ReturnAfterInterrupt
    BY LockedQuiet DEF ReturnAfterInterrupt, Quiet
  <1> QED
    BY <1>1, SynchDiskInvariant, PTL

(***************************************************************************)
(* SynchDisk implements atomic sectors: each call of ReadSector or         *)
(* WriteSector takes effect at one moment between its call and its return. *)
(***************************************************************************)
THEOREM SynchDiskImplements == Spec => Implements
  <1> DEFINE Ph(l) == IF l = "idle" THEN "idle"
                      ELSE IF l \in {"acquire", "locked"} THEN "called" ELSE "done"
             phase == [t \in Thread |-> Ph(pc[t])]
  <1>1. Init => Abstract!Init
    BY DEF Init, Abstract!Init, Request, Abstract!Request
  <1>2. IInv /\ [Next]_vars => [Abstract!Next]_(Abstract!vars)
    <2> SUFFICES ASSUME IInv, [Next]_vars
                 PROVE  [Abstract!Next]_(Abstract!vars)
      OBVIOUS
    <2>0. pc \in [Thread -> {"idle", "acquire", "locked", "wait", "release"}]
      BY DEF IInv, TypeOK
    <2>1. CASE DiskInterrupt \/ UNCHANGED vars
      BY <2>1 DEF DiskInterrupt, vars, Abstract!vars
    <2>2. ASSUME NEW t \in Thread, NEW r \in Request, Call(t, r)
          PROVE  Abstract!Next
      <3>1. phase[t] = "idle" /\ phase' = [phase EXCEPT ![t] = "called"]
        BY <2>0, <2>2 DEF Call, Acquire, Goto
      <3> QED
        BY <2>2, <3>1 DEF Call, Abstract!Next, Abstract!Call, Request, Abstract!Request
    <2>3. ASSUME NEW t \in Thread, RetryAcquire(t)
          PROVE  UNCHANGED Abstract!vars
      <3>1. phase' = phase
        BY <2>0, <2>3 DEF RetryAcquire, Acquire, Goto
      <3> QED
        BY <2>3, <3>1 DEF RetryAcquire, Abstract!vars
    <2>4. ASSUME NEW t \in Thread, MakeRequest(t)
          PROVE  Abstract!Next
      <3>1. phase[t] = "called" /\ phase' = [phase EXCEPT ![t] = "done"]
        BY <2>0, <2>4 DEF MakeRequest, AwaitInterrupt, Goto
      <3> QED
        BY <2>4, <3>1 DEF MakeRequest, DiskRequest, Abstract!Next, Abstract!Effect
    <2>5. ASSUME NEW t \in Thread, RetryWait(t)
          PROVE  UNCHANGED Abstract!vars
      <3>1. phase' = phase
        BY <2>0, <2>5 DEF RetryWait, AwaitInterrupt, Goto
      <3> QED
        BY <2>5, <3>1 DEF RetryWait, Abstract!vars
    <2>6. ASSUME NEW t \in Thread, Release(t)
          PROVE  Abstract!Next
      <3>1. phase[t] = "done" /\ phase' = [phase EXCEPT ![t] = "idle"]
        BY <2>0, <2>6 DEF Release, Goto
      <3> QED
        BY <2>6, <3>1 DEF Release, Abstract!Next, Abstract!Return
    <2> QED
      BY <2>1, <2>2, <2>3, <2>4, <2>5, <2>6 DEF Next, Step
  <1> QED
    BY <1>1, <1>2, SynchDiskInvariant, PTL DEF Spec, Implements, Abstract!Spec
=============================================================================
