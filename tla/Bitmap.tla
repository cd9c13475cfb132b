------------------------------- MODULE Bitmap -------------------------------
(***************************************************************************)
(* The map of free sectors as the file system uses it: built when the disk *)
(* is formatted, kept in a file, read back at the start of every operation *)
(* that changes it, and written to the file before the object is deleted   *)
(* -- or not (filesys/filesys.cc).                                         *)
(***************************************************************************)
EXTENDS BitmapOps, FiniteSets

CONSTANT NumBits   \* number of sectors

ASSUME BitmapAssumption == NumBits \in Nat /\ NumBits >= 2

VARIABLES b,       \* the bitmap object
          inUse,   \* the object exists
          file,    \* contents of the bitmap file; {} on an unformatted disk
          found    \* what FindAndSet returned last

vars == <<b, inUse, file, found>>

NotCalled == -3

Init == /\ b = NewBitmap(NumBits)
        /\ inUse = FALSE
        /\ file = {}
        /\ found = NotCalled

(* FileSystem(TRUE): a new bitmap, with the header sectors 0 and 1 marked. *)
Format == /\ ~inUse
          /\ b' = Mark(Mark(NewBitmap(NumBits), 0), 1)
          /\ inUse' = TRUE
          /\ found' = NotCalled
          /\ UNCHANGED file

(* new PersistentBitmap(freeMapFile, NumSectors), after a format. *)
Load == /\ ~inUse
        /\ file # {}
        /\ b' = BitmapFrom(file, NumBits)
        /\ inUse' = TRUE
        /\ found' = NotCalled
        /\ UNCHANGED file

CallFindAndSet == /\ inUse
                  /\ found # Aborted
                  /\ found' = Found(b, NumBits)
                  /\ b' = FindAndSet(b, NumBits)
                  /\ UNCHANGED <<inUse, file>>

(* The callers ASSERT that the bit is set before they clear it; the header  *)
(* sectors 0 and 1 are never returned.                                      *)
CallClear(i) == /\ inUse
                /\ i >= 2
                /\ found # Aborted
                /\ Test(b, i)
                /\ b' = Clear(b, i)
                /\ found' = NotCalled
                /\ UNCHANGED <<inUse, file>>

WriteBack == /\ inUse
             /\ found # Aborted
             /\ file' = b.map
             /\ UNCHANGED <<b, inUse, found>>

(* delete freeMap, or the end of the process after an abort. *)
Delete == /\ inUse
          /\ inUse' = FALSE
          /\ found' = NotCalled
          /\ UNCHANGED <<b, file>>

Next == \/ Format \/ Load \/ CallFindAndSet \/ WriteBack \/ Delete
        \/ \E i \in Bits(NumBits) : CallClear(i)

Spec == Init /\ [][Next]_vars

-----------------------------------------------------------------------------
TypeOK == /\ b \in Bitmaps(NumBits)
          /\ inUse \in BOOLEAN
          /\ file \in SUBSET Bits(NumBits)
          /\ found \in {NotCalled, Aborted, -1} \cup Bits(NumBits)

ClearBits == Bits(NumBits) \ b.map

(***************************************************************************)
(* "Start looking for clear bit here": no clear bit is ever left behind    *)
(* cur, however Mark, FindAndSet and Clear follow each other.              *)
(***************************************************************************)
NothingBehindCur == \A i \in Bits(NumBits) : i < b.cur => i \in b.map

(***************************************************************************)
(* FindAndSet only fails (returns -1 or runs into ASSERTNOTREACHED) when   *)
(* every sector is in use: the cached numClear and cur never hide a free   *)
(* sector from it.                                                         *)
(***************************************************************************)
FailsOnlyWhenFull == found \in {Aborted, -1} => ClearBits = {}

(***************************************************************************)
(* FindAndSet returns "the number of the first bit which is clear" and     *)
(* sets that bit and no other: a sector is never handed out twice.         *)
(***************************************************************************)
FirstFit == [][ CallFindAndSet /\ found' >= 0 =>
                   /\ found' \in ClearBits
                   /\ \A i \in ClearBits : found' <= i
                   /\ b'.map = b.map \cup {found'} ]_vars

(***************************************************************************)
(* The comment of FindAndSet: "If no bits are clear, return -1."           *)
(***************************************************************************)
FullReturnsMinusOne == found # Aborted
=============================================================================
