----------------------------- MODULE BitmapOps -----------------------------
(***************************************************************************)
(* class Bitmap and class PersistentBitmap (lib/bitmap.cc,                 *)
(* filesys/pbitmap.cc) as operators on a record                            *)
(*   [map |-> the bits that are set, numClear |-> ..., cur |-> ...]        *)
(* of a bitmap of n bits, numbered from 0.  The words in which the bits    *)
(* are packed are left out.                                                *)
(***************************************************************************)
EXTENDS Integers

Bits(n) == 0..(n - 1)
Bitmaps(n) == [map : SUBSET Bits(n), numClear : Nat, cur : Nat]

(* Bitmap(numItems): all bits clear. *)
NewBitmap(n) == [map |-> {}, numClear |-> n, cur |-> 0]

(***************************************************************************)
(* PersistentBitmap(file, numItems): the bits come from the file, numClear *)
(* and cur are what the constructor of an empty Bitmap left in them.       *)
(***************************************************************************)
BitmapFrom(file, n) == [NewBitmap(n) EXCEPT !.map = file]

Test(b, which) == which \in b.map

Mark(b, which) == IF Test(b, which) THEN b
                  ELSE [map |-> b.map \cup {which}, numClear |-> b.numClear - 1, cur |-> which]

(* Mutants: cur is not moved back; numClear is not counted up. *)
Clear_KeepsCur(b, which) == [map |-> b.map \ {which},
                             numClear |-> IF Test(b, which) THEN b.numClear + 1 ELSE b.numClear,
                             cur |-> b.cur]

Clear_NoCount(b, which) == [map |-> b.map \ {which}, numClear |-> b.numClear,
                            cur |-> IF which < b.cur THEN which ELSE b.cur]

Clear(b, which) == [map |-> b.map \ {which},
                    numClear |-> IF Test(b, which) THEN b.numClear + 1 ELSE b.numClear,
                    cur |-> IF which < b.cur THEN which ELSE b.cur]

(***************************************************************************)
(* FindAndSet(): -1 when numClear is 0, otherwise the first clear bit from *)
(* cur on.  When there is none the loop runs off the end of the bitmap     *)
(* into ASSERTNOTREACHED, which aborts the program.                        *)
(***************************************************************************)
Aborted == -2
(* Mutant: the loop runs one bit too far. *)
ClearFrom_TooFar(b, n) == {i \in 0..n : i >= b.cur /\ ~Test(b, i)}

ClearFrom(b, n) == {i \in Bits(n) : i >= b.cur /\ ~Test(b, i)}

Found(b, n) == IF b.numClear = 0 THEN -1
               ELSE IF ClearFrom(b, n) = {} THEN Aborted
               ELSE CHOOSE i \in ClearFrom(b, n) : \A j \in ClearFrom(b, n) : i <= j

(* Mutant: the bit is found but not set. *)
FindAndSet_NoMark(b, n) == IF Found(b, n) < 0 THEN b ELSE [b EXCEPT !.numClear = @ - 1]

FindAndSet(b, n) == IF Found(b, n) < 0 THEN b ELSE Mark(b, Found(b, n))
=============================================================================
