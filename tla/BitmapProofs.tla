---------------------------- MODULE BitmapProofs ----------------------------
(***************************************************************************)
(* FindAndSet hands out the first clear bit, and finds one whenever there  *)
(* is one, for a bitmap of any size.  The cached numClear and cur are the  *)
(* reason why that needs a proof.                                          *)
(***************************************************************************)
EXTENDS Bitmap, FiniteSetTheorems, WellFoundedInduction, TLAPS

(* numClear is never too small (it may be too large, after a Load). *)
NumClearSuffices == b.numClear >= Cardinality(ClearBits)

(* The inductive invariant. *)
IInv == TypeOK /\ NothingBehindCur /\ NumClearSuffices /\ FailsOnlyWhenFull

(* Every set of naturals with an element has a least element. *)
LEMMA LeastElement ==
    ASSUME NEW S \in SUBSET Nat, S # {}
    PROVE  \E i \in S : \A j \in S : i <= j
  <1> DEFINE R == {ss \in Nat \X Nat : ss[1] < ss[2]}
  <1>1. IsWellFoundedOn(R, Nat)
    BY NatLessThanWellFounded, Zenon DEF OpToRel
  <1>2. \A i, j \in Nat : <<j, i>> \in R <=> j < i
    OBVIOUS
  <1> HIDE DEF R
  <1>3. \E i \in S : \A j \in S : ~ (<<j, i>> \in R)
    BY <1>1, WFMin
  <1>4. PICK i \in S : \A j \in S : ~ (<<j, i>> \in R)
    BY <1>3
  <1>5. \A j \in S : i <= j
    <2> TAKE j \in S
    <2>1. i \in Nat /\ j \in Nat
      OBVIOUS
    <2>2. ~ (j < i)
      BY <1>2, <1>4, <2>1
    <2> QED
      BY <2>1, <2>2
  <1> QED
    BY <1>5

(* A bitmap has finitely many bits. *)
LEMMA ClearBitsFinite ==
    ASSUME NEW S \in SUBSET Bits(NumBits)
    PROVE  IsFiniteSet(S) /\ Cardinality(S) \in Nat
  <1>1. IsFiniteSet(Bits(NumBits))
    BY FS_Interval, BitmapAssumption DEF Bits
  <1> QED
    BY <1>1, FS_Subset, FS_CardinalityType

(* A bitmap with a clear bit from cur on: FindAndSet finds the first one. *)
LEMMA FoundIsFirst ==
    ASSUME NEW c \in Bitmaps(NumBits), c.numClear # 0, ClearFrom(c, NumBits) # {}
    PROVE  /\ Found(c, NumBits) \in ClearFrom(c, NumBits)
           /\ \A i \in ClearFrom(c, NumBits) : Found(c, NumBits) <= i
  <1>1. ClearFrom(c, NumBits) \in SUBSET Nat
    BY BitmapAssumption DEF ClearFrom, Bits
  <1>2. \E i \in ClearFrom(c, NumBits) : \A j \in ClearFrom(c, NumBits) : i <= j
    BY <1>1, LeastElement
  <1>3. Found(c, NumBits) =
            CHOOSE i \in ClearFrom(c, NumBits) : \A j \in ClearFrom(c, NumBits) : i <= j
    BY DEF Found
  <1> QED
    BY <1>2, <1>3

(***************************************************************************)
(* With the invariant, FindAndSet hands out the first clear bit of the     *)
(* whole bitmap, and leaves the bitmap alone only when it is full.         *)
(***************************************************************************)
LEMMA FindAndSetFacts ==
    ASSUME IInv
    PROVE  /\ Found(b, NumBits) < 0 => ClearBits = {} /\ FindAndSet(b, NumBits) = b
           /\ Found(b, NumBits) >= 0 =>
                  /\ Found(b, NumBits) \in ClearBits
                  /\ \A i \in ClearBits : Found(b, NumBits) <= i
                  /\ FindAndSet(b, NumBits) = Mark(b, Found(b, NumBits))
           /\ Found(b, NumBits) \in {Aborted, -1} \cup Bits(NumBits)
  <1> USE DEF IInv, TypeOK
  <1>1. ClearBits = ClearFrom(b, NumBits)
    BY BitmapAssumption DEF ClearBits, ClearFrom, NothingBehindCur, Bits, Bitmaps, Test
  <1>2. ClearBits \subseteq Bits(NumBits) /\ Cardinality(ClearBits) \in Nat /\ IsFiniteSet(ClearBits)
    BY ClearBitsFinite DEF ClearBits
  <1>3. CASE b.numClear = 0
    <2>1. ClearBits = {}
      BY <1>2, <1>3, FS_EmptySet DEF NumClearSuffices
    <2>2. Found(b, NumBits) = -1
      BY <1>3 DEF Found
    <2> QED
      BY <2>1, <2>2 DEF FindAndSet
  <1>4. CASE b.numClear # 0 /\ ClearBits = {}
    <2>1. Found(b, NumBits) = -2
      BY <1>1, <1>4 DEF Found, Aborted
    <2> QED
      BY <2>1, <1>4 DEF FindAndSet, Aborted
  <1>5. CASE b.numClear # 0 /\ ClearBits # {}
    <2>1. Found(b, NumBits) \in ClearBits /\ \A i \in ClearBits : Found(b, NumBits) <= i
      BY <1>1, <1>5, FoundIsFirst
    <2>2. Found(b, NumBits) \in Bits(NumBits)
      BY <2>1, <1>2, Zenon
    <2>3. \A i \in Bits(NumBits) : i >= 0 /\ ~(i < 0)
      BY BitmapAssumption DEF Bits
    <2>4. Found(b, NumBits) >= 0 /\ ~(Found(b, NumBits) < 0)
      BY <2>2, <2>3, Zenon
    <2>5. FindAndSet(b, NumBits) = Mark(b, Found(b, NumBits))
      BY <2>4, Zenon DEF FindAndSet
    <2> QED
      BY <2>1, <2>2, <2>4, <2>5, Zenon
  <1> QED
    BY <1>3, <1>4, <1>5

(* Mark of the first clear bit leaves no clear bit behind cur. *)
LEMMA MarkFirst ==
    ASSUME NEW c \in Bitmaps(NumBits), NEW i \in Bits(NumBits) \ c.map,
           \A j \in Bits(NumBits) \ c.map : i <= j,
           c.numClear >= Cardinality(Bits(NumBits) \ c.map)
    PROVE  LET d == Mark(c, i)
           IN  /\ d \in Bitmaps(NumBits)
               /\ d.map = c.map \cup {i}
               /\ \A j \in Bits(NumBits) : j < d.cur => j \in d.map
               /\ d.numClear >= Cardinality(Bits(NumBits) \ d.map)
  <1> DEFINE d == Mark(c, i)
             C == Bits(NumBits) \ c.map
             D == Bits(NumBits) \ d.map
  <1>1. d = [map |-> c.map \cup {i}, numClear |-> c.numClear - 1, cur |-> i]
    BY DEF Mark, Test
  <1>2. D = C \ {i}
    BY <1>1
  <1>3. IsFiniteSet(C) /\ Cardinality(C) \in Nat
    BY ClearBitsFinite
  <1>4. Cardinality(D) = Cardinality(C) - 1 /\ Cardinality(D) \in Nat
    BY SMTT(30), <1>2, <1>3, ClearBitsFinite, FS_RemoveElement
  <1>5. c.map \in SUBSET Bits(NumBits) /\ c.numClear \in Nat /\ i \in Nat
    BY BitmapAssumption DEF Bitmaps, Bits
  <1>6. c.numClear - 1 \in Nat /\ c.numClear - 1 >= Cardinality(D)
    BY <1>3, <1>4, <1>5
  <1>7. d \in Bitmaps(NumBits)
    BY <1>1, <1>5, <1>6 DEF Bitmaps
  <1>8. \A j \in Bits(NumBits) : j < i => j \in c.map
    BY BitmapAssumption DEF Bits
  <1> QED
    BY <1>1, <1>6, <1>7, <1>8

(* What the invariant says of a bitmap object. *)
Sound(c) == /\ c \in Bitmaps(NumBits)
            /\ \A j \in Bits(NumBits) : j < c.cur => j \in c.map
            /\ c.numClear >= Cardinality(Bits(NumBits) \ c.map)

(* A new bitmap and one read from the file are sound. *)
LEMMA LoadedSound ==
    ASSUME NEW f \in SUBSET Bits(NumBits)
    PROVE  Sound(BitmapFrom(f, NumBits)) /\ BitmapFrom(f, NumBits).map = f
  <1> DEFINE c == [map |-> f, numClear |-> NumBits, cur |-> 0]
  <1>1. BitmapFrom(f, NumBits) = c
    BY DEF BitmapFrom, NewBitmap
  <1>2. c \in Bitmaps(NumBits) /\ \A j \in Bits(NumBits) : ~(j < 0)
    BY BitmapAssumption DEF Bitmaps, Bits
  <1>3. NumBits >= Cardinality(Bits(NumBits) \ f)
    <2>1. IsFiniteSet(Bits(NumBits)) /\ Cardinality(Bits(NumBits)) = NumBits
      BY FS_Interval, BitmapAssumption DEF Bits
    <2>2. Cardinality(Bits(NumBits) \ f) <= Cardinality(Bits(NumBits))
      BY <2>1, FS_Subset
    <2> QED
      BY <2>1, <2>2, ClearBitsFinite, BitmapAssumption
  <1> QED
    BY <1>1, <1>2, <1>3 DEF Sound

(* Marking the first clear bit keeps a bitmap sound. *)
LEMMA MarkSound ==
    ASSUME NEW c, Sound(c), NEW i \in Bits(NumBits) \ c.map,
           \A j \in Bits(NumBits) \ c.map : i <= j
    PROVE  Sound(Mark(c, i)) /\ Mark(c, i).map = c.map \cup {i}
  BY MarkFirst DEF Sound

(* So does the marking of the two header sectors. *)
LEMMA FormatSound ==
    Sound(Mark(Mark(NewBitmap(NumBits), 0), 1))
  <1> DEFINE c0 == NewBitmap(NumBits)
             c1 == Mark(c0, 0)
  <1>1. Sound(c0) /\ c0.map = {}
    <2>1. {} \in SUBSET Bits(NumBits) /\ c0 = BitmapFrom({}, NumBits)
      BY DEF BitmapFrom, NewBitmap
    <2> QED
      BY <2>1, LoadedSound
  <1>2. 0 \in Bits(NumBits) /\ 1 \in Bits(NumBits) /\ \A j \in Bits(NumBits) : 0 <= j
    BY BitmapAssumption DEF Bits
  <1>3. Sound(c1) /\ c1.map = {0}
    BY <1>1, <1>2, MarkSound
  <1>4. \A j \in Bits(NumBits) \ {0} : 1 <= j
    BY BitmapAssumption DEF Bits
  <1> HIDE DEF c1
  <1>5. Sound(Mark(c1, 1))
    BY <1>2, <1>3, <1>4, MarkSound
  <1> QED
    BY <1>5 DEF c1

(* Clearing a bit that is set keeps a bitmap sound. *)
LEMMA ClearSound ==
    ASSUME NEW c, Sound(c), NEW i \in c.map
    PROVE  Sound(Clear(c, i))
  <1> DEFINE d == Clear(c, i)
             C == Bits(NumBits) \ c.map
             D == Bits(NumBits) \ d.map
  <1>1. /\ c.map \in SUBSET Bits(NumBits) /\ c.numClear \in Nat /\ c.cur \in Nat
        /\ i \in Bits(NumBits) /\ i \in Nat
    BY BitmapAssumption DEF Sound, Bitmaps, Bits
  <1>2. d = [map |-> c.map \ {i}, numClear |-> c.numClear + 1,
             cur |-> IF i < c.cur THEN i ELSE c.cur]
    BY DEF Clear, Test
  <1>3. D = C \cup {i} /\ i \notin C
    BY <1>1, <1>2
  <1>4. IsFiniteSet(C) /\ Cardinality(C) \in Nat
    BY ClearBitsFinite
  <1>5. Cardinality(D) = Cardinality(C) + 1
    BY <1>3, <1>4, FS_AddElement
  <1>6. d.numClear >= Cardinality(D)
    BY <1>1, <1>2, <1>4, <1>5 DEF Sound
  <1>7. d \in Bitmaps(NumBits)
    BY <1>1, <1>2 DEF Bitmaps
  <1>8. \A j \in Bits(NumBits) : j < d.cur => j \in d.map
    <2>1. ASSUME NEW j \in Bits(NumBits), j < d.cur
          PROVE  j < c.cur /\ j # i
      BY <1>1, <1>2, <2>1, BitmapAssumption DEF Bits
    <2> QED
      BY <1>2, <2>1 DEF Sound
  <1> QED
    BY <1>6, <1>7, <1>8 DEF Sound

(* FindAndSet keeps a sound bitmap sound. *)
LEMMA FindAndSetSound ==
    ASSUME IInv
    PROVE  Sound(FindAndSet(b, NumBits))
  <1> DEFINE f == Found(b, NumBits)
  <1>1. Sound(b)
    BY DEF IInv, TypeOK, NothingBehindCur, NumClearSuffices, ClearBits, Sound
  <1>2. CASE f < 0
    BY <1>1, <1>2, FindAndSetFacts
  <1>3. CASE f >= 0
    BY <1>1, <1>3, FindAndSetFacts, MarkSound DEF ClearBits
  <1>4. f \in Int
    BY FindAndSetFacts, BitmapAssumption DEF Bits, Aborted
  <1> QED
    BY <1>2, <1>3, <1>4

(***************************************************************************)
(* The cached numClear and cur of the bitmap stay sound whatever sequence  *)
(* of formats, loads, FindAndSets, Clears and write-backs the file system  *)
(* makes.                                                                  *)
(***************************************************************************)
THEOREM BitmapInvariant == Spec => []IInv
  <1> DEFINE Rest == /\ inUse \in BOOLEAN
                     /\ file \in SUBSET Bits(NumBits)
                     /\ found \in {NotCalled, Aborted, -1} \cup Bits(NumBits)
                     /\ FailsOnlyWhenFull
  <1>1. IInv <=> Sound(b) /\ Rest
    BY DEF IInv, TypeOK, NothingBehindCur, NumClearSuffices, ClearBits, Sound
  <1>2. (IInv <=> Sound(b) /\ Rest)'
    BY <1>1, PTL
  <1> USE DEF Aborted, NotCalled
  <1>3. Init => IInv
    <2> SUFFICES ASSUME Init PROVE Sound(b) /\ Rest
      BY <1>1
    <2>1. Sound(b)
      <3>1. {} \in SUBSET Bits(NumBits) /\ b = BitmapFrom({}, NumBits)
        BY DEF Init, BitmapFrom, NewBitmap
      <3> QED
        BY <3>1, LoadedSound
    <2>2. inUse \in BOOLEAN
      BY Zenon DEF Init
    <2> QED
      BY <2>1, <2>2 DEF Init, FailsOnlyWhenFull
  <1>4. IInv /\ [Next]_vars => IInv'
    <2> SUFFICES ASSUME IInv, [Next]_vars PROVE (Sound(b) /\ Rest)'
      BY <1>2
    <2>1. CASE Format
      BY <2>1, <1>1, FormatSound DEF Format, FailsOnlyWhenFull
    <2>2. CASE Load
      BY <2>2, <1>1, LoadedSound DEF Load, FailsOnlyWhenFull
    <2>3. CASE CallFindAndSet
      <3>1. Sound(b')
        BY <2>3, FindAndSetSound DEF CallFindAndSet
      <3>2. FailsOnlyWhenFull'
        BY <2>3, FindAndSetFacts DEF CallFindAndSet, FailsOnlyWhenFull, ClearBits
      <3>3. found' \in {NotCalled, Aborted, -1} \cup Bits(NumBits)
        BY <2>3, FindAndSetFacts DEF CallFindAndSet
      <3> QED
        BY <2>3, <1>1, <3>1, <3>2, <3>3 DEF CallFindAndSet
    <2>4. CASE WriteBack
      <3>1. b.map \in SUBSET Bits(NumBits)
        BY <1>1 DEF Sound, Bitmaps
      <3> QED
        BY <2>4, <1>1, <3>1 DEF WriteBack, FailsOnlyWhenFull, ClearBits
    <2>5. CASE Delete
      <3>1. inUse' \in BOOLEAN
        BY <2>5, Zenon DEF Delete
      <3> QED
        BY <2>5, <1>1, <3>1 DEF Delete, FailsOnlyWhenFull
    <2>6. ASSUME NEW i \in Bits(NumBits), CallClear(i)
          PROVE  (Sound(b) /\ Rest)'
      BY <2>6, <1>1, ClearSound DEF CallClear, Test, FailsOnlyWhenFull
    <2>7. CASE UNCHANGED vars
      BY <2>7, <1>1 DEF vars, FailsOnlyWhenFull, ClearBits
    <2> QED
      BY <2>1, <2>2, <2>3, <2>4, <2>5, <2>6, <2>7 DEF Next
  <1> QED
    BY <1>3, <1>4, PTL DEF Spec

(* No clear bit is ever behind Bitmap::cur. *)
THEOREM ScanStartsEarlyEnough == Spec => []NothingBehindCur
  BY BitmapInvariant, PTL DEF IInv

(* Bitmap::FindAndSet fails only when every bit is set. *)
THEOREM FindAndSetFindsFreeBits == Spec => []FailsOnlyWhenFull
  BY BitmapInvariant, PTL DEF IInv

(* Bitmap::FindAndSet returns the first clear bit and sets it alone. *)
THEOREM FindAndSetIsFirstFit == Spec => FirstFit
  <1>1. ASSUME IInv, CallFindAndSet, found' >= 0
        PROVE  /\ found' \in ClearBits
               /\ \A i \in ClearBits : found' <= i
               /\ b'.map = b.map \cup {found'}
    <2>1. /\ found' \in ClearBits
          /\ \A i \in ClearBits : found' <= i
          /\ b' = Mark(b, found')
      BY <1>1, FindAndSetFacts DEF CallFindAndSet
    <2> QED
      BY <2>1 DEF Mark, Test, ClearBits
  <1> QED
    BY <1>1, BitmapInvariant, PTL DEF FirstFit, Spec
=============================================================================
