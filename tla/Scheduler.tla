----------------------------- MODULE Scheduler -----------------------------
(***************************************************************************)
(* Threads, the ready list and the CPU (threads/thread.cc, scheduler.cc,   *)
(* alarm.cc, kernel.cc, machine/interrupt.cc, timer.cc).                   *)
(*                                                                         *)
(* The machine has one CPU.  Interrupts, and with them time slices, only   *)
(* happen in Interrupt::OneTick, when a thread re-enables interrupts or    *)
(* executes a user instruction; the code of the scheduler runs with        *)
(* interrupts disabled.  The variable cpu says where the CPU is:           *)
(*   "run"     currentThread runs its own code, interrupts enabled         *)
(*   "tick"    OneTick is calling the handlers of the interrupts now due   *)
(*   "sleep"   the while loop of Thread::Sleep, on the stack of the        *)
(*             thread that went to sleep or finished                       *)
(*   "idle"    Interrupt::Idle is calling handlers, on that same stack     *)
(*   "switch"  between SWITCH and the code after it in the next thread     *)
(*   "halted"  Interrupt::Halt                                             *)
(* Simulated time is left out: any pending interrupt may be the next one   *)
(* due.  A blocked thread waits for a device, whose interrupt is pending,  *)
(* for a V() by another thread, or it has finished.  The poll of the       *)
(* console is left out: PrepareToEnd disables it with the timer, and it    *)
(* wakes nobody (only the self test of option -C reads the console).       *)
(***************************************************************************)
EXTENDS Naturals, Sequences, Functions

CONSTANTS Thread,    \* all thread objects
          Main,      \* the thread that Kernel::Initialize builds
          NoThread   \* NULL

ASSUME SchedulerAssumption == Main \in Thread /\ NoThread \notin Thread

VARIABLES cpu,
          currentThread,  \* kernel->currentThread
          status,         \* Thread::status
          waitFor,        \* what a blocked thread waits for
          readyList,      \* Scheduler::readyList
          toBeDestroyed,  \* Scheduler::toBeDestroyed
          destroyed,      \* the thread objects already deleted
          timer,          \* a timer interrupt is pending
          disable,        \* Timer::disable
          yieldOnReturn   \* Interrupt::yieldOnReturn

vars == <<cpu, currentThread, status, waitFor, readyList, toBeDestroyed,
          destroyed, timer, disable, yieldOnReturn>>

CpuState == {"run", "tick", "sleep", "idle", "switch", "halted"}
Status == {"JUST_CREATED", "RUNNING", "READY", "BLOCKED"}
WaitFor == {"nothing", "device", "thread", "exit"}

Finished(t) == waitFor[t] = "exit"
AwaitsDevice(t) == waitFor[t] = "device"
PendingInterrupts == {t \in Thread : AwaitsDevice(t)} \cup (IF timer THEN {NoThread} ELSE {})

Init == /\ cpu = "run"
        /\ currentThread = Main
        /\ status = [t \in Thread |-> IF t = Main THEN "RUNNING" ELSE "JUST_CREATED"]
        /\ waitFor = [t \in Thread |-> "nothing"]
        /\ readyList = << >>
        /\ toBeDestroyed = NoThread
        /\ destroyed = {}
        /\ timer = TRUE
        /\ disable = FALSE
        /\ yieldOnReturn = FALSE

-----------------------------------------------------------------------------
(* Scheduler::ReadyToRun *)
ReadyToRun(t) == /\ status' = [status EXCEPT ![t] = "READY"]
                 /\ waitFor' = [waitFor EXCEPT ![t] = "nothing"]
                 /\ readyList' = Append(readyList, t)

(* Scheduler::Run(nextThread, finishing), up to and including SWITCH. *)
Run(next, finishing) == /\ toBeDestroyed' = IF finishing THEN currentThread ELSE toBeDestroyed
                        /\ currentThread' = next
                        /\ cpu' = "switch"


(* Thread::Yield of currentThread. *)
Yield == IF readyList = << >>
         THEN cpu' = "run" /\ UNCHANGED <<currentThread, status, readyList, toBeDestroyed>>
         ELSE /\ status' = [status EXCEPT ![currentThread] = "READY", ![Head(readyList)] = "RUNNING"]
              /\ readyList' = Append(Tail(readyList), currentThread)
              /\ Run(Head(readyList), FALSE)

(* Mutants: CheckToBeDestroyed without its test for NULL, and without the   *)
(* assignment of NULL.                                                      *)
Resume_NoTest == /\ cpu = "switch"
                 /\ destroyed' = destroyed \cup {toBeDestroyed}
                 /\ toBeDestroyed' = NoThread
                 /\ cpu' = "run"
                 /\ UNCHANGED <<currentThread, status, waitFor, readyList, timer, disable, yieldOnReturn>>

Resume_NoReset == /\ cpu = "switch"
                  /\ destroyed' = destroyed \cup ({toBeDestroyed} \ {NoThread})
                  /\ cpu' = "run"
                  /\ UNCHANGED <<currentThread, status, waitFor, readyList, toBeDestroyed,
                                 timer, disable, yieldOnReturn>>

(* The code after SWITCH: the rest of Run(), or Thread::Begin for a new     *)
(* thread.  Both start with CheckToBeDestroyed.                             *)
Resume == /\ cpu = "switch"
          /\ destroyed' = destroyed \cup ({toBeDestroyed} \ {NoThread})
          /\ toBeDestroyed' = NoThread
          /\ cpu' = "run"
          /\ UNCHANGED <<currentThread, status, waitFor, readyList, timer, disable, yieldOnReturn>>

-----------------------------------------------------------------------------
(* What the running thread may do.                                         *)

Fork(t) == /\ cpu = "run"
           /\ status[t] = "JUST_CREATED"
           /\ ReadyToRun(t)
           /\ UNCHANGED <<cpu, currentThread, toBeDestroyed, destroyed, timer, disable, yieldOnReturn>>

(* V() on a semaphore on which t sleeps. *)
WakeUp(t) == /\ cpu = "run"
             /\ waitFor[t] = "thread"
             /\ ReadyToRun(t)
             /\ UNCHANGED <<cpu, currentThread, toBeDestroyed, destroyed, timer, disable, yieldOnReturn>>

CallYield == /\ cpu = "run"
             /\ Yield
             /\ UNCHANGED <<waitFor, destroyed, timer, disable, yieldOnReturn>>

(* Thread::Sleep(FALSE) from Semaphore::P; for a device, after the request. *)
Sleep(reason) == /\ cpu = "run"
                 /\ status' = [status EXCEPT ![currentThread] = "BLOCKED"]
                 /\ waitFor' = [waitFor EXCEPT ![currentThread] = reason]
                 /\ cpu' = "sleep"
                 /\ UNCHANGED <<currentThread, readyList, toBeDestroyed, destroyed,
                                timer, disable, yieldOnReturn>>

(* Thread::Finish, which is Sleep(TRUE). *)
Finish == Sleep("exit")

(* The system call Halt of a user program: Interrupt::Halt at once, whatever *)
(* threads are ready and whatever interrupts are pending.                    *)
SysHalt == /\ cpu = "run"
           /\ cpu' = "halted"
           /\ UNCHANGED <<currentThread, status, waitFor, readyList, toBeDestroyed, destroyed,
                          timer, disable, yieldOnReturn>>

-----------------------------------------------------------------------------
(* The loop of Thread::Sleep.                                              *)

(* Mutant: FindNextToRun leaves the thread on the list. *)
Dispatch_KeepsHead == /\ cpu = "sleep"
                      /\ readyList # << >>
                      /\ status' = [status EXCEPT ![Head(readyList)] = "RUNNING"]
                      /\ Run(Head(readyList), Finished(currentThread))
                      /\ UNCHANGED <<waitFor, readyList, destroyed, timer, disable, yieldOnReturn>>

(* FindNextToRun finds a thread. *)
Dispatch == /\ cpu = "sleep"
            /\ readyList # << >>
            /\ status' = [status EXCEPT ![Head(readyList)] = "RUNNING"]
            /\ readyList' = Tail(readyList)
            /\ Run(Head(readyList), Finished(currentThread))
            /\ UNCHANGED <<waitFor, destroyed, timer, disable, yieldOnReturn>>

(* The handler of a device: Semaphore::V for the thread that waits for it. *)
DeviceInterrupt(t) == /\ AwaitsDevice(t)
                      /\ ReadyToRun(t)
                      /\ UNCHANGED <<timer, yieldOnReturn>>

(* Timer::CallBack: Alarm::CallBack, then SetInterrupt unless disabled. *)
TimerInterrupt(idle, disabled) == /\ timer
                                  /\ yieldOnReturn' = ~idle
                                  /\ timer' = ~disabled
                                  /\ UNCHANGED <<status, waitFor, readyList>>

(* FindNextToRun returns NULL: PrepareToEnd, then Interrupt::Idle, which   *)
(* takes at least one pending interrupt.                                   *)
Idle == /\ cpu = "sleep"
        /\ readyList = << >>
        /\ \/ \E t \in Thread : DeviceInterrupt(t)
           \/ TimerInterrupt(TRUE, TRUE)
        /\ disable' = TRUE
        /\ cpu' = "idle"
        /\ UNCHANGED <<currentThread, toBeDestroyed, destroyed>>

(* Mutant: Idle halts whatever interrupts are pending. *)
Halt_Early == /\ cpu = "sleep"
              /\ readyList = << >>
              /\ disable' = TRUE
              /\ cpu' = "halted"
              /\ UNCHANGED <<currentThread, status, waitFor, readyList, toBeDestroyed, destroyed,
                             timer, yieldOnReturn>>

(* ... or finds none and halts the machine. *)
Halt == /\ cpu = "sleep"
        /\ readyList = << >>
        /\ PendingInterrupts = {}
        /\ disable' = TRUE
        /\ cpu' = "halted"
        /\ UNCHANGED <<currentThread, status, waitFor, readyList, toBeDestroyed, destroyed,
                       timer, yieldOnReturn>>

(* Interrupt::OneTick with an interrupt due. *)
OneTick == /\ cpu = "run"
           /\ \/ \E t \in Thread : DeviceInterrupt(t)
              \/ TimerInterrupt(FALSE, disable)
           /\ cpu' = "tick"
           /\ UNCHANGED <<currentThread, toBeDestroyed, destroyed, disable>>

(* CheckIfDue goes on while further interrupts are due.  The timer cannot  *)
(* be due twice: its next interrupt is at least one tick in the future.    *)
AlsoDue == /\ cpu \in {"tick", "idle"}
           /\ \/ \E t \in Thread : DeviceInterrupt(t)
              \/ cpu = "tick" /\ ~yieldOnReturn /\ TimerInterrupt(FALSE, disable)
              \/ cpu = "idle" /\ TimerInterrupt(TRUE, disable)
           /\ UNCHANGED <<cpu, currentThread, toBeDestroyed, destroyed, disable>>

(* OneTick returns from the handlers, and yields if the timer asked for it. *)
EndTick == /\ cpu = "tick"
           /\ yieldOnReturn' = FALSE
           /\ IF yieldOnReturn
              THEN Yield
              ELSE cpu' = "run" /\ UNCHANGED <<currentThread, status, readyList, toBeDestroyed>>
           /\ UNCHANGED <<waitFor, destroyed, timer, disable>>

(* Idle returns to the loop of Thread::Sleep. *)
EndIdle == /\ cpu = "idle"
           /\ cpu' = "sleep"
           /\ UNCHANGED <<currentThread, status, waitFor, readyList, toBeDestroyed, destroyed,
                          timer, disable, yieldOnReturn>>

-----------------------------------------------------------------------------
GiveUpCpu == CallYield \/ Finish \/ \E reason \in {"device", "thread"} : Sleep(reason)

Next == \/ \E t \in Thread : Fork(t) \/ WakeUp(t)
        \/ GiveUpCpu
        \/ SysHalt
        \/ OneTick \/ AlsoDue \/ EndTick
        \/ Dispatch \/ Resume
        \/ Idle \/ EndIdle \/ Halt

Spec == Init /\ [][Next]_vars

(***************************************************************************)
(* The CPU never stops in the middle of kernel code.  What the running     *)
(* thread does with the CPU is its own affair: it may compute for ever     *)
(* without a yield, a wait or an exit.  While it computes, every           *)
(* instruction is followed by OneTick, so time passes; pending interrupts  *)
(* are kept in time order, and later requests overtake the interrupt of a  *)
(* device or of the timer only finitely often.                             *)
(***************************************************************************)
FairSpec == /\ Spec
            /\ WF_vars(Dispatch \/ Resume)
            /\ WF_vars(Idle \/ EndIdle \/ Halt)
            /\ WF_vars(EndTick)
            /\ SF_vars((OneTick \/ AlsoDue) /\ yieldOnReturn')
            /\ \A t \in Thread : SF_vars((Idle \/ OneTick \/ AlsoDue) /\ DeviceInterrupt(t))

-----------------------------------------------------------------------------
TypeOK == /\ cpu \in CpuState
          /\ currentThread \in Thread
          /\ status \in [Thread -> Status]
          /\ waitFor \in [Thread -> WaitFor]
          /\ readyList \in Seq(Thread)
          /\ toBeDestroyed \in Thread \cup {NoThread}
          /\ destroyed \in SUBSET Thread
          /\ timer \in BOOLEAN
          /\ disable \in BOOLEAN
          /\ yieldOnReturn \in BOOLEAN

(***************************************************************************)
(* Every thread is in one place.  The ready list holds exactly the threads *)
(* whose status is READY, each once (ASSERT(!IsInList(item)) of            *)
(* List::Append never fails).  Only currentThread is ever RUNNING, and     *)
(* until the machine halts it is, unless it is in the loop of              *)
(* Thread::Sleep.                                                          *)
(***************************************************************************)
OnePlace == /\ Range(readyList) = {t \in Thread : status[t] = "READY"}
            /\ IsInjective(readyList)
            /\ \A t \in Thread : status[t] = "RUNNING" => t = currentThread
            /\ cpu # "halted" =>
                   (status[currentThread] = "RUNNING" <=> cpu \in {"run", "tick", "switch"})
            /\ \A t \in Thread : status[t] = "BLOCKED" <=> waitFor[t] # "nothing"

(***************************************************************************)
(* A thread object is deleted once, after it finished, never while the CPU *)
(* is still on its stack, and never while something could schedule it      *)
(* again: the ASSERTs of Scheduler::Run (toBeDestroyed == NULL) and of     *)
(* Thread::~Thread (this != kernel->currentThread) hold.                   *)
(***************************************************************************)
SafeDestruction ==
    /\ cpu # "switch" => toBeDestroyed = NoThread
    /\ toBeDestroyed # currentThread
    /\ toBeDestroyed \notin destroyed
    /\ currentThread \notin destroyed
    /\ \A t \in destroyed \cup ({toBeDestroyed} \ {NoThread}) : Finished(t)

(* A program called Halt; Interrupt::Idle halts under a sleeping thread. *)
HaltedByProgram == cpu = "halted" /\ status[currentThread] = "RUNNING"


(***************************************************************************)
(* A thread that waits for a device is woken, also when all threads wait   *)
(* (Interrupt::Idle advances time to the interrupt and does not halt) and  *)
(* also when the running thread never gives up the CPU.                    *)
(***************************************************************************)
DeviceWaitEnds == \A t \in Thread : AwaitsDevice(t) ~> status[t] = "READY" \/ HaltedByProgram

(***************************************************************************)
(* What the comment on Thread::Yield says: a thread put on the end of the  *)
(* ready list "will eventually be re-scheduled".                           *)
(***************************************************************************)
ReadyRuns == \A t \in Thread : status[t] = "READY" ~> status[t] = "RUNNING" \/ HaltedByProgram
=============================================================================
