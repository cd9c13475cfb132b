-------------------------- MODULE SchedulerProofs --------------------------
(***************************************************************************)
(* Every thread is in one place, and thread objects are destroyed safely,  *)
(* for any number of threads.                                              *)
(***************************************************************************)
EXTENDS Scheduler, QueueLemmas

(* The inductive invariant. *)
IInv == TypeOK /\ OnePlace /\ SafeDestruction

(* The state of the ready list that the actions rely on. *)
LEMMA HeadIsReady ==
    ASSUME TypeOK, OnePlace, readyList # << >>
    PROVE  /\ Head(readyList) \in Thread
           /\ status[Head(readyList)] = "READY"
           /\ waitFor[Head(readyList)] = "nothing"
           /\ Tail(readyList) \in Seq(Thread)
           /\ Range(Tail(readyList)) = {t \in Thread : status[t] = "READY"} \ {Head(readyList)}
           /\ IsInjective(Tail(readyList))
  <1>1. /\ Head(readyList) \in Thread
        /\ Tail(readyList) \in Seq(Thread)
        /\ Range(readyList) = Range(Tail(readyList)) \cup {Head(readyList)}
    BY TailRange DEF TypeOK
  <1>2. IsInjective(Tail(readyList)) /\ Head(readyList) \notin Range(Tail(readyList))
    BY TailNoDup DEF TypeOK, OnePlace
  <1> QED
    BY <1>1, <1>2 DEF OnePlace

(* ReadyToRun of a thread that is neither ready nor running. *)
LEMMA ReadyToRunInvariant ==
    ASSUME IInv, NEW t \in Thread, ReadyToRun(t),
           status[t] \in {"JUST_CREATED", "BLOCKED"}, ~Finished(t),
           UNCHANGED <<currentThread, toBeDestroyed, destroyed>>,
           cpu \in {"run", "tick", "sleep", "idle"}, cpu' \in CpuState,
           cpu \in {"run", "tick"} => cpu' \in {"run", "tick"},
           cpu \in {"sleep", "idle"} => cpu' \in {"sleep", "idle"},
           timer' \in BOOLEAN, disable' \in BOOLEAN, yieldOnReturn' \in BOOLEAN
    PROVE  IInv'
  <1> USE DEF IInv, ReadyToRun
  <1>1. t \notin Range(readyList)
    BY DEF OnePlace
  <1>2. /\ readyList' \in Seq(Thread) /\ readyList' # << >>
        /\ Range(readyList') = Range(readyList) \cup {t}
        /\ IsInjective(readyList')
    BY <1>1, AppendRange, AppendNoDup DEF TypeOK, OnePlace
  <1>3. TypeOK'
    BY <1>2 DEF TypeOK, Status, WaitFor
  <1>4. OnePlace'
    <2>1. Range(readyList') = {x \in Thread : status'[x] = "READY"}
      BY <1>2 DEF OnePlace, TypeOK
    <2>2. /\ \A x \in Thread : status'[x] = "RUNNING" => x = currentThread'
          /\ cpu' # "halted" =>
                 (status'[currentThread'] = "RUNNING" <=> cpu' \in {"run", "tick", "switch"})
      BY DEF OnePlace, TypeOK
    <2>3. \A x \in Thread : status'[x] = "BLOCKED" <=> waitFor'[x] # "nothing"
      BY DEF OnePlace, TypeOK
    <2> QED
      BY <1>2, <2>1, <2>2, <2>3 DEF OnePlace
  <1>5. SafeDestruction'
    BY DEF SafeDestruction, Finished, TypeOK
  <1> QED
    BY <1>3, <1>4, <1>5

(* Thread::Yield, called by the thread or at the end of a tick. *)
LEMMA YieldInvariant ==
    ASSUME IInv, cpu \in {"run", "tick"}, Yield,
           UNCHANGED <<waitFor, destroyed, timer, disable>>, yieldOnReturn' \in BOOLEAN
    PROVE  IInv'
  <1> USE DEF IInv, Yield
  <1>1. CASE readyList = << >>
    <2>1. TypeOK'
      BY <1>1 DEF TypeOK, CpuState
    <2>2. OnePlace'
      BY <1>1 DEF OnePlace
    <2>3. SafeDestruction'
      BY <1>1 DEF SafeDestruction, Finished
    <2> QED
      BY <2>1, <2>2, <2>3
  <1>2. CASE readyList # << >>
    <2> DEFINE h == Head(readyList)
    <2>1. /\ status' = [status EXCEPT ![currentThread] = "READY", ![h] = "RUNNING"]
          /\ readyList' = Append(Tail(readyList), currentThread)
          /\ toBeDestroyed' = toBeDestroyed /\ currentThread' = h /\ cpu' = "switch"
      BY <1>2 DEF Run
    <2>2. /\ h \in Thread /\ status[h] = "READY" /\ waitFor[h] = "nothing"
          /\ Tail(readyList) \in Seq(Thread)
          /\ Range(Tail(readyList)) = {t \in Thread : status[t] = "READY"} \ {h}
          /\ IsInjective(Tail(readyList))
      BY <1>2, HeadIsReady
    <2>3. currentThread \in Thread /\ status[currentThread] = "RUNNING"
      BY DEF TypeOK, OnePlace
    <2>4. /\ readyList' \in Seq(Thread)
          /\ Range(readyList') = ({t \in Thread : status[t] = "READY"} \ {h}) \cup {currentThread}
          /\ IsInjective(readyList')
      <3> DEFINE q == Tail(readyList)
      <3>1. q \in Seq(Thread) /\ currentThread \notin Range(q) /\ readyList' = Append(q, currentThread)
        BY <2>1, <2>2, <2>3
      <3>2. Append(q, currentThread) \in Seq(Thread)
            /\ Range(Append(q, currentThread)) = Range(q) \cup {currentThread}
        BY ZenonT(60), <3>1, <2>3, AppendRange
      <3>3. IsInjective(Append(q, currentThread))
        BY <3>1, <2>2, <2>3, AppendNoDup
      <3> QED
        BY <3>1, <3>2, <3>3, <2>2
    <2>5. TypeOK'
      BY <2>1, <2>2, <2>3, <2>4 DEF TypeOK, Status, CpuState
    <2>6. OnePlace'
      <3>1. Range(readyList') = {t \in Thread : status'[t] = "READY"}
        BY <2>1, <2>2, <2>3, <2>4 DEF TypeOK
      <3>2. /\ \A x \in Thread : status'[x] = "RUNNING" => x = currentThread'
            /\ cpu' # "halted" =>
                   (status'[currentThread'] = "RUNNING" <=> cpu' \in {"run", "tick", "switch"})
        BY <2>1, <2>2, <2>3 DEF OnePlace, TypeOK
      <3>3. \A x \in Thread : status'[x] = "BLOCKED" <=> waitFor'[x] # "nothing"
        BY <2>1, <2>2, <2>3 DEF OnePlace, TypeOK
      <3> QED
        BY <2>4, <3>1, <3>2, <3>3 DEF OnePlace
    <2>7. SafeDestruction'
      BY <2>1, <2>2, SchedulerAssumption DEF SafeDestruction, Finished
    <2> QED
      BY <2>5, <2>6, <2>7
  <1> QED
    BY <1>1, <1>2

(* Thread::Sleep for any reason, and Thread::Finish. *)
LEMMA SleepInvariant ==
    ASSUME IInv, NEW reason \in {"device", "thread", "exit"}, Sleep(reason)
    PROVE  IInv'
  <1> USE DEF IInv, Sleep
  <1>1. status[currentThread] = "RUNNING" /\ currentThread \in Thread
    BY DEF OnePlace, TypeOK
  <1>2. TypeOK'
    BY DEF TypeOK, Status, WaitFor, CpuState
  <1>3. OnePlace'
    <2>1. Range(readyList') = {t \in Thread : status'[t] = "READY"}
      BY <1>1 DEF OnePlace, TypeOK
    <2>2. /\ \A x \in Thread : status'[x] = "RUNNING" => x = currentThread'
          /\ cpu' # "halted" =>
                 (status'[currentThread'] = "RUNNING" <=> cpu' \in {"run", "tick", "switch"})
      BY <1>1 DEF OnePlace, TypeOK
    <2>3. \A x \in Thread : status'[x] = "BLOCKED" <=> waitFor'[x] # "nothing"
      BY <1>1 DEF OnePlace, TypeOK
    <2> QED
      BY <2>1, <2>2, <2>3 DEF OnePlace
  <1>4. SafeDestruction'
    BY <1>1 DEF SafeDestruction, Finished, TypeOK
  <1> QED
    BY <1>2, <1>3, <1>4

(* Thread::Sleep finds a ready thread and runs it. *)
LEMMA DispatchInvariant ==
    ASSUME IInv, Dispatch
    PROVE  IInv'
  <1> USE DEF IInv, Dispatch
  <1> DEFINE h == Head(readyList)
  <1>1. /\ status' = [status EXCEPT ![h] = "RUNNING"]
        /\ readyList' = Tail(readyList)
        /\ toBeDestroyed' = IF Finished(currentThread) THEN currentThread ELSE toBeDestroyed
        /\ currentThread' = h /\ cpu' = "switch"
    BY DEF Run
  <1>2. /\ h \in Thread /\ status[h] = "READY" /\ waitFor[h] = "nothing"
        /\ Tail(readyList) \in Seq(Thread)
        /\ Range(Tail(readyList)) = {t \in Thread : status[t] = "READY"} \ {h}
        /\ IsInjective(Tail(readyList))
    BY HeadIsReady
  <1>3. TypeOK'
    BY <1>1, <1>2 DEF TypeOK, Status, CpuState
  <1>4. OnePlace'
    <2>1. Range(readyList') = {t \in Thread : status'[t] = "READY"}
      BY <1>1, <1>2 DEF TypeOK
    <2>2. /\ \A x \in Thread : status'[x] = "RUNNING" => x = currentThread'
          /\ cpu' # "halted" =>
                 (status'[currentThread'] = "RUNNING" <=> cpu' \in {"run", "tick", "switch"})
      BY <1>1, <1>2 DEF OnePlace, TypeOK
    <2>3. \A x \in Thread : status'[x] = "BLOCKED" <=> waitFor'[x] # "nothing"
      BY <1>1, <1>2 DEF OnePlace, TypeOK
    <2> QED
      BY <1>1, <1>2, <2>1, <2>2, <2>3 DEF OnePlace
  <1>5. SafeDestruction'
    <2>1. toBeDestroyed = NoThread /\ NoThread \notin Thread
      BY SchedulerAssumption DEF SafeDestruction
    <2>2. toBeDestroyed' # h
      BY <1>1, <1>2, <2>1 DEF Finished
    <2>3. toBeDestroyed' \notin destroyed
      BY <1>1, <2>1 DEF SafeDestruction
    <2>4. h \notin destroyed
      BY <1>2 DEF SafeDestruction, Finished
    <2>5. \A t \in destroyed \cup ({toBeDestroyed'} \ {NoThread}) : waitFor[t] = "exit"
      BY <1>1, <2>1 DEF SafeDestruction, Finished
    <2> QED
      BY <1>1, <2>2, <2>3, <2>4, <2>5 DEF SafeDestruction, Finished
  <1> QED
    BY <1>3, <1>4, <1>5

(* The code after SWITCH deletes a finished thread. *)
LEMMA ResumeInvariant ==
    ASSUME IInv, Resume
    PROVE  IInv'
  <1> USE DEF IInv, Resume
  <1>1. TypeOK'
    BY DEF TypeOK, CpuState
  <1>2. OnePlace'
    BY DEF OnePlace
  <1>3. SafeDestruction'
    BY SchedulerAssumption DEF SafeDestruction, Finished, TypeOK
  <1> QED
    BY <1>1, <1>2, <1>3

(* A timer interrupt, a halt, and the steps that leave all threads where    *)
(* they are.                                                                *)
LEMMA OthersInvariant ==
    ASSUME IInv, UNCHANGED <<currentThread, status, waitFor, readyList, toBeDestroyed, destroyed>>,
           timer' \in BOOLEAN, disable' \in BOOLEAN, yieldOnReturn' \in BOOLEAN,
           \/ cpu \in {"run", "tick"} /\ cpu' \in {"run", "tick"}
           \/ cpu \in {"sleep", "idle"} /\ cpu' \in {"sleep", "idle"}
           \/ cpu \in {"run", "sleep"} /\ cpu' = "halted"
    PROVE  IInv'
  <1> USE DEF IInv
  <1>1. TypeOK'
    BY DEF TypeOK, CpuState
  <1>2. OnePlace'
    BY DEF OnePlace
  <1>3. SafeDestruction'
    BY DEF SafeDestruction, Finished
  <1> QED
    BY <1>1, <1>2, <1>3

(***************************************************************************)
(* The scheduler keeps every thread in one place and deletes thread        *)
(* objects safely.                                                         *)
(***************************************************************************)
THEOREM SchedulerInvariant == Spec => []IInv
  <1>1. Init => IInv
    <2> SUFFICES ASSUME Init PROVE IInv
      OBVIOUS
    <2>1. TypeOK
      BY SchedulerAssumption, EmptyQueue DEF Init, TypeOK, CpuState, Status, WaitFor
    <2>2. OnePlace
      BY SchedulerAssumption, EmptyQueue DEF Init, OnePlace
    <2>3. SafeDestruction
      BY SchedulerAssumption DEF Init, SafeDestruction
    <2> QED
      BY <2>1, <2>2, <2>3 DEF IInv
  <1>2. IInv /\ [Next]_vars => IInv'
    <2> SUFFICES ASSUME IInv, [Next]_vars
                 PROVE  IInv'
      OBVIOUS
    <2>1. ASSUME NEW t \in Thread, Fork(t)
          PROVE  IInv'
      <3>1. ~Finished(t)
        BY <2>1 DEF Fork, Finished, IInv, OnePlace
      <3> QED
        BY <2>1, <3>1, ReadyToRunInvariant DEF Fork, IInv, TypeOK
    <2>2. ASSUME NEW t \in Thread, WakeUp(t)
          PROVE  IInv'
      <3>1. status[t] = "BLOCKED" /\ ~Finished(t)
        BY <2>2 DEF WakeUp, Finished, IInv, OnePlace
      <3> QED
        BY <2>2, <3>1, ReadyToRunInvariant DEF WakeUp, IInv, TypeOK
    <2>3. CASE GiveUpCpu
      <3>1. CASE CallYield
        BY <3>1, YieldInvariant DEF CallYield, IInv, TypeOK
      <3>2. CASE Finish
        BY <3>2, SleepInvariant DEF Finish
      <3>3. ASSUME NEW reason \in {"device", "thread"}, Sleep(reason)
            PROVE  IInv'
        BY <3>3, SleepInvariant
      <3> QED
        BY <2>3, <3>1, <3>2, <3>3 DEF GiveUpCpu
    <2>4. ASSUME NEW t \in Thread, DeviceInterrupt(t),
                 UNCHANGED <<currentThread, toBeDestroyed, destroyed>>,
                 cpu \in {"run", "tick", "sleep", "idle"}, cpu' \in CpuState,
                 cpu \in {"run", "tick"} => cpu' \in {"run", "tick"},
                 cpu \in {"sleep", "idle"} => cpu' \in {"sleep", "idle"},
                 disable' \in BOOLEAN
          PROVE  IInv'
      <3>1. status[t] = "BLOCKED" /\ ~Finished(t)
        BY <2>4 DEF DeviceInterrupt, AwaitsDevice, Finished, IInv, OnePlace
      <3> QED
        BY <2>4, <3>1, ReadyToRunInvariant DEF DeviceInterrupt, IInv, TypeOK
    <2>5. CASE OneTick
      <3>1. ASSUME NEW t \in Thread, DeviceInterrupt(t)
            PROVE  IInv'
        BY <2>5, <3>1, <2>4 DEF OneTick, CpuState, IInv, TypeOK
      <3>2. CASE TimerInterrupt(FALSE, disable)
        BY <2>5, <3>2, OthersInvariant DEF OneTick, TimerInterrupt, IInv, TypeOK
      <3> QED
        BY <2>5, <3>1, <3>2 DEF OneTick
    <2>6. CASE AlsoDue
      <3>1. ASSUME NEW t \in Thread, DeviceInterrupt(t)
            PROVE  IInv'
        BY <2>6, <3>1, <2>4 DEF AlsoDue, CpuState, IInv, TypeOK
      <3>2. ASSUME NEW idle \in BOOLEAN, TimerInterrupt(idle, disable)
            PROVE  IInv'
        BY <2>6, <3>2, OthersInvariant DEF AlsoDue, TimerInterrupt, IInv, TypeOK
      <3> QED
        BY <2>6, <3>1, <3>2 DEF AlsoDue
    <2>7. CASE EndTick
      <3>1. CASE yieldOnReturn
        BY <2>7, <3>1, YieldInvariant DEF EndTick, IInv, TypeOK
      <3>2. CASE ~yieldOnReturn
        BY <2>7, <3>2, OthersInvariant DEF EndTick, IInv, TypeOK
      <3> QED
        BY <3>1, <3>2
    <2>8. CASE Dispatch
      BY <2>8, DispatchInvariant
    <2>9. CASE Resume
      BY <2>9, ResumeInvariant
    <2>10. CASE Idle
      <3>1. ASSUME NEW t \in Thread, DeviceInterrupt(t)
            PROVE  IInv'
        BY <2>10, <3>1, <2>4 DEF Idle, CpuState, IInv, TypeOK
      <3>2. CASE TimerInterrupt(TRUE, TRUE)
        BY <2>10, <3>2, OthersInvariant DEF Idle, TimerInterrupt, IInv, TypeOK
      <3> QED
        BY <2>10, <3>1, <3>2 DEF Idle
    <2>11. CASE EndIdle
      BY <2>11, OthersInvariant DEF EndIdle, IInv, TypeOK
    <2>12. CASE SysHalt \/ Halt
      BY <2>12, OthersInvariant DEF SysHalt, Halt, IInv, TypeOK
    <2>13. CASE UNCHANGED vars
      BY <2>13 DEF vars, IInv, TypeOK, OnePlace, SafeDestruction, Finished
    <2> QED
      BY <2>1, <2>2, <2>3, <2>5, <2>6, <2>7, <2>8, <2>9, <2>10, <2>11, <2>12, <2>13 DEF Next
  <1> QED
    BY <1>1, <1>2, PTL DEF Spec

(* Every thread is in one place: on the ready list, running, or blocked. *)
THEOREM ThreadsInOnePlace == Spec => []OnePlace
  BY SchedulerInvariant, PTL DEF IInv

(* Scheduler::Run and CheckToBeDestroyed never delete a thread in use. *)
THEOREM ThreadsDestroyedSafely == Spec => []SafeDestruction
  BY SchedulerInvariant, PTL DEF IInv
=============================================================================
