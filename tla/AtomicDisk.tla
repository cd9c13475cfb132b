----------------------------- MODULE AtomicDisk -----------------------------
(***************************************************************************)
(* What SynchDisk promises the file system: ReadSector and WriteSector     *)
(* called by several threads take effect one at a time, each at some       *)
(* moment between its call and its return ("a synchronous disk": header    *)
(* comment of filesys/synchdisk.h).                                        *)
(***************************************************************************)
CONSTANTS Thread, Sector, Data

VARIABLES disk,   \* contents of the sectors
          phase,  \* "idle", "called", "done"
          req,    \* the arguments of the call of each thread
          buf     \* the buffer into which ReadSector reads

vars == <<disk, phase, req, buf>>

Request == [op : {"read", "write"}, sector : Sector, data : Data]

Init == /\ disk \in [Sector -> Data]
        /\ phase = [t \in Thread |-> "idle"]
        /\ \E r \in Request : req = [t \in Thread |-> r]
        /\ \E d \in Data : buf = [t \in Thread |-> d]

Call(t) == /\ phase[t] = "idle"
           /\ phase' = [phase EXCEPT ![t] = "called"]
           /\ \E r \in Request : req' = [req EXCEPT ![t] = r]
           /\ UNCHANGED <<disk, buf>>

Effect(t) == /\ phase[t] = "called"
             /\ phase' = [phase EXCEPT ![t] = "done"]
             /\ IF req[t].op = "read"
                THEN buf' = [buf EXCEPT ![t] = disk[req[t].sector]] /\ UNCHANGED disk
                ELSE disk' = [disk EXCEPT ![req[t].sector] = req[t].data] /\ UNCHANGED buf
             /\ UNCHANGED req

Return(t) == /\ phase[t] = "done"
             /\ phase' = [phase EXCEPT ![t] = "idle"]
             /\ UNCHANGED <<disk, req, buf>>

Next == \E t \in Thread : Call(t) \/ Effect(t) \/ Return(t)

Spec == Init /\ [][Next]_vars
=============================================================================
