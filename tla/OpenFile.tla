------------------------------ MODULE OpenFile ------------------------------
(***************************************************************************)
(* Reading and writing an open file (filesys/openfile.cc).  The disk       *)
(* transfers whole sectors, so that WriteAt reads the sectors it changes   *)
(* in part, copies the new bytes in, and writes all of them back.          *)
(*                                                                         *)
(* Several OpenFile objects, each used by one thread, may refer to the     *)
(* file.  A thread can lose the CPU in every ReadSector and WriteSector    *)
(* (module SynchDisk), so each of these is a step of its own.  The code    *)
(* has "no synchronization for concurrent accesses" (filesys.cc): a call   *)
(* is only made on sectors on which no other call is in progress.  The     *)
(* sectors are the logical ones, which module FileHeader shows to be       *)
(* mapped to different sectors of the disk.  pc[f] is                      *)
(*   "idle"       no call in progress                                      *)
(*   "first"      WriteAt, before it reads the first sector                *)
(*   "last"       WriteAt, before it reads the last sector                 *)
(*   "write"      WriteAt, before it writes sector next[f]                 *)
(*   "read"       ReadAt, before it reads sector next[f]                   *)
(***************************************************************************)
EXTENDS Integers

CONSTANTS OpenFile,     \* the OpenFile objects
          SectorSize, FileLength,
          Byte, Zero,   \* the values of a byte; what memset puts into buf
          MaxBytes      \* bound of the model: the numBytes of a call

ASSUME OpenFileAssumption == /\ SectorSize \in Nat \ {0}
                             /\ FileLength \in Nat \ {0}
                             /\ MaxBytes \in Nat
                             /\ Zero \in Byte

Offset == 0..(SectorSize - 1)
FileSector == 0..((FileLength - 1) \div SectorSize)
Contents == [Offset -> Byte]
NoBytes == [k \in {} |-> Zero]
Cleared == [s \in FileSector |-> [o \in Offset |-> Zero]]

VARIABLES disk,          \* contents of the sectors of the file
          seekPosition,  \* OpenFile::seekPosition
          pc,
          numBytes,      \* the argument, clipped to the end of the file
          from,          \* the bytes to write
          next,          \* the loop variable i
          buf            \* the buffer, as sectors

vars == <<disk, seekPosition, pc, numBytes, from, next, buf>>

(* The call in progress of f. *)
position(f) == seekPosition[f]
firstSector(f) == position(f) \div SectorSize
lastSector(f) == (position(f) + numBytes[f] - 1) \div SectorSize
firstAligned(f) == position(f) = firstSector(f) * SectorSize
lastAligned(f) == position(f) + numBytes[f] = (lastSector(f) + 1) * SectorSize

Init == /\ disk \in [FileSector -> Contents]
        /\ seekPosition = [f \in OpenFile |-> 0]
        /\ pc = [f \in OpenFile |-> "idle"]
        /\ numBytes = [f \in OpenFile |-> 0]
        /\ from = [f \in OpenFile |-> NoBytes]
        /\ next = [f \in OpenFile |-> 0]
        /\ buf = [f \in OpenFile |-> Cleared]

Goto(f, label) == pc' = [pc EXCEPT ![f] = label]

-----------------------------------------------------------------------------
(* Mutant: nothing is clipped at the end of the file. *)
Clipped_Not(f, n) == n

(* "check request": the number of bytes to transfer. *)
Clipped(f, n) == IF position(f) + n > FileLength THEN FileLength - position(f) ELSE n

Touched(f) == IF pc[f] = "idle" THEN {} ELSE firstSector(f)..lastSector(f)
Alone(f, n) == \A g \in OpenFile \ {f} : \A s \in Touched(g) :
                   s < firstSector(f) \/ s > (position(f) + n - 1) \div SectorSize

(* Entry of Read and Write; a request for nothing returns 0 at once. *)
Call(f, n) == /\ pc[f] = "idle"
              /\ n > 0 /\ position(f) < FileLength
              /\ Alone(f, Clipped(f, n))
              /\ numBytes' = [numBytes EXCEPT ![f] = Clipped(f, n)]
              /\ next' = [next EXCEPT ![f] = firstSector(f)]
              /\ UNCHANGED <<disk, seekPosition, buf>>

Read(f, n) == Call(f, n) /\ Goto(f, "read") /\ UNCHANGED from

(* The sectors that WriteAt reads first, those it changes in part. *)
NeedsFirst(f) == ~firstAligned(f)
(* Mutant: an aligned write within one sector does not read it. *)
NeedsLast_NotFirst(f) == ~lastAligned(f) /\ firstSector(f) # lastSector(f)

NeedsLast(f) == ~lastAligned(f) /\ (firstSector(f) # lastSector(f) \/ firstAligned(f))

Write(f, n, bytes) == /\ Call(f, n)
                      /\ from' = [from EXCEPT ![f] = bytes]
                      /\ Goto(f, IF NeedsFirst(f) THEN "first"
                                 ELSE IF NeedsLast(f)' THEN "last" ELSE "write")

Seek(f, pos) == /\ pc[f] = "idle"
                /\ seekPosition' = [seekPosition EXCEPT ![f] = pos]
                /\ UNCHANGED <<disk, pc, numBytes, from, next, buf>>

-----------------------------------------------------------------------------
(* ReadAt of one whole sector s, from WriteAt: what is past the end of the  *)
(* file is not copied.                                                      *)
Fetched(f, s) == [o \in Offset |-> IF s * SectorSize + o < FileLength THEN disk[s][o]
                                   ELSE buf[f][s][o]]

ReadFirst(f) == /\ pc[f] = "first"
                /\ buf' = [buf EXCEPT ![f][firstSector(f)] = Fetched(f, firstSector(f))]
                /\ Goto(f, IF NeedsLast(f) THEN "last" ELSE "write")
                /\ UNCHANGED <<disk, seekPosition, numBytes, from, next>>

ReadLast(f) == /\ pc[f] = "last"
               /\ buf' = [buf EXCEPT ![f][lastSector(f)] = Fetched(f, lastSector(f))]
               /\ Goto(f, "write")
               /\ UNCHANGED <<disk, seekPosition, numBytes, from, next>>

(* The end of Read and Write, or the next turn of the loop. *)
Return(f) == /\ seekPosition' = [seekPosition EXCEPT ![f] = @ + numBytes[f]]
             /\ Goto(f, "idle")
             /\ numBytes' = [numBytes EXCEPT ![f] = 0]
             /\ from' = [from EXCEPT ![f] = NoBytes]
             /\ next' = [next EXCEPT ![f] = 0]
             /\ buf' = [buf EXCEPT ![f] = Cleared]

Loop(f) == next' = [next EXCEPT ![f] = @ + 1] /\ UNCHANGED <<seekPosition, pc, numBytes, from>>

(* The bytes of a call, by their place in the file. *)
InRequest(f, i) == i >= position(f) /\ i < position(f) + numBytes[f]

(* Sector s of buf after the bcopy of WriteAt. *)
Copied(f, s) == [o \in Offset |-> IF InRequest(f, s * SectorSize + o)
                                  THEN from[f][s * SectorSize + o - position(f)]
                                  ELSE buf[f][s][o]]

(* Mutant: the loop ends before the last sector. *)
WriteSector_StopsEarly(f) == /\ pc[f] = "write"
                             /\ disk' = [disk EXCEPT ![next[f]] = Copied(f, next[f])]
                             /\ IF next[f] + 1 >= lastSector(f) THEN Return(f)
                                ELSE Loop(f) /\ UNCHANGED buf

WriteSector(f) == /\ pc[f] = "write"
                  /\ disk' = [disk EXCEPT ![next[f]] = Copied(f, next[f])]
                  /\ IF next[f] = lastSector(f) THEN Return(f) ELSE Loop(f) /\ UNCHANGED buf

(* Mutant: every sector is read to the start of buf. *)
Filled_AtStart(f) == [buf[f] EXCEPT ![firstSector(f)] = disk[next[f]]]

(* buf after the ReadSector of ReadAt, and what is then copied into "into". *)
Filled(f) == [buf[f] EXCEPT ![next[f]] = disk[next[f]]]
Into(f) == [k \in 0..(numBytes[f] - 1) |->
                Filled(f)[(position(f) + k) \div SectorSize][(position(f) + k) % SectorSize]]

ReadSector(f) == /\ pc[f] = "read"
                 /\ IF next[f] = lastSector(f) THEN Return(f)
                    ELSE Loop(f) /\ buf' = [buf EXCEPT ![f] = Filled(f)]
                 /\ UNCHANGED disk

Step(f) == ReadFirst(f) \/ ReadLast(f) \/ WriteSector(f) \/ ReadSector(f)

Next == \E f \in OpenFile : \/ Step(f)
                            \/ \E n \in 1..MaxBytes : Read(f, n)
                            \/ \E n \in 1..MaxBytes : \E bytes \in [0..(n - 1) -> Byte] : Write(f, n, bytes)
                            \/ \E pos \in 0..FileLength : Seek(f, pos)

Spec == Init /\ [][Next]_vars

-----------------------------------------------------------------------------
TypeOK == /\ disk \in [FileSector -> Contents]
          /\ seekPosition \in [OpenFile -> 0..FileLength]
          /\ pc \in [OpenFile -> {"idle", "first", "last", "write", "read"}]
          /\ numBytes \in [OpenFile -> Nat]
          /\ \A f \in OpenFile : position(f) + numBytes[f] <= FileLength
          /\ next \in [OpenFile -> FileSector]
          /\ buf \in [OpenFile -> [FileSector -> Contents]]

(* Byte i of the file when its sectors are d. *)
At(d, i) == d[i \div SectorSize][i % SectorSize]

(***************************************************************************)
(* WriteAt changes nothing but the bytes of the request, at any moment: a  *)
(* byte of the file that changes is in the request of a Write in progress  *)
(* and gets the value that this Write has for it.                          *)
(***************************************************************************)
OnlyTheRequest ==
    [][ \A i \in 0..(FileLength - 1) : At(disk', i) # At(disk, i) =>
            \E f \in OpenFile : /\ pc[f] = "write"
                                /\ InRequest(f, i)
                                /\ At(disk', i) = from[f][i - position(f)] ]_vars

(* When Write returns, all the bytes of the request are on the disk. *)
WriteIsComplete ==
    [][ \A f \in OpenFile : pc[f] = "write" /\ pc'[f] = "idle" =>
            \A k \in 0..(numBytes[f] - 1) : At(disk', position(f) + k) = from[f][k] ]_vars

(***************************************************************************)
(* Read returns the bytes of the file at the seek position, in order,      *)
(* whatever other calls do to the sectors around them.                     *)
(***************************************************************************)
ReadReturnsTheFile ==
    [][ \A f \in OpenFile : pc[f] = "read" /\ pc'[f] = "idle" =>
            \A k \in 0..(numBytes[f] - 1) : Into(f)[k] = At(disk, position(f) + k) ]_vars
=============================================================================
