----------------------------- MODULE FileHeader -----------------------------
(***************************************************************************)
(* class FileHeader (filesys/filehdr.cc): the multi-level index of a file. *)
(* A header in memory is a record with its children and the mapping from   *)
(* logical to physical sectors; its image on disk has only numBytes,       *)
(* numDataSectors and dataSectors (the entries that are not                *)
(* INVALID_SECTOR).  The operators are the methods; the state machine is   *)
(* the use the file system makes of them: files are created one after the  *)
(* other on a formatted disk, and removed.                                 *)
(***************************************************************************)
EXTENDS FileLayout, BitmapOps, SequencesExt

CONSTANTS NumSectors,
          FreeMapFileSize, DirectoryFileSize,
          Sizes                                \* sizes of the files created

NoImage == [numBytes |-> -1, numDataSectors |-> -1, dataSectors |-> << >>]

FreeMapSector == 0
DirectorySector == 1

-----------------------------------------------------------------------------
(* FileHeader::Allocate.  A state of its loops is [outcome, b, hdr]; an     *)
(* "abort" is a failed ASSERT, "full" is the return of FALSE.               *)

NewHeader(fileSize) == [numBytes |-> fileSize, numDataSectors |-> NumDataSectors(fileSize),
                        dataSectors |-> << >>, children |-> << >>, mapping |-> << >>]

(* Mutant: without the ASSERT. *)
Take_NoAssert(st) == [st EXCEPT !.b = FindAndSet(st.b, NumSectors),
                                !.hdr.dataSectors = Append(@, Found(st.b, NumSectors))]

(* dataSectors[i] = freeMap->FindAndSet(); ASSERT(dataSectors[i] >= 0); *)
Take(st) == LET f == Found(st.b, NumSectors)
            IN  IF st.outcome = "abort" \/ f < 0 THEN [st EXCEPT !.outcome = "abort"]
                ELSE [st EXCEPT !.b = FindAndSet(st.b, NumSectors),
                                !.hdr.dataSectors = Append(@, f)]

TakeData(st) == LET t == Take(st)
                IN  IF t.outcome = "abort" THEN t
                    ELSE [t EXCEPT !.hdr.mapping = Append(@, Last(t.hdr.dataSectors))]

(* Mutant: it is the lengths that are compared. *)
Join_Lengths(mapping, pSectors) == IF Len(mapping) # Len(pSectors) THEN pSectors \o mapping
                                   ELSE pSectors

(* if (dataSectorMapping != pSectors) pSectors.insert(...) *)
Join(mapping, pSectors) == IF mapping # pSectors THEN pSectors \o mapping ELSE pSectors

RECURSIVE Allocate(_, _), AllocateChildren(_, _, _)

Allocate(b, fileSize) ==
    LET st == [outcome |-> "ok", b |-> b, hdr |-> NewHeader(fileSize)]
    IN  IF b.numClear < NumDataSectors(fileSize) THEN [st EXCEPT !.outcome = "full"]
        ELSE IF ~Supported(fileSize) THEN [st EXCEPT !.outcome = "abort"]
        ELSE IF whichLv(fileSize) = 0
             THEN FoldLeft(LAMBDA s, i : TakeData(s), st, [i \in 1..NumDataSectors(fileSize) |-> i])
        ELSE AllocateChildren(st, fileSize, MAX_SIZE(whichLv(fileSize) - 1))

(* The while loop; whether a child found enough space is not looked at. *)
AllocateChildren(st, fileSize, full) ==
    IF fileSize <= 0 \/ st.outcome = "abort" THEN st
    ELSE LET t == Take(st)
             subHdrSize == IF fileSize < full THEN fileSize ELSE full
             c == Allocate(t.b, subHdrSize)
         IN  IF t.outcome = "abort" \/ c.outcome = "abort" THEN [st EXCEPT !.outcome = "abort"]
             ELSE AllocateChildren([t EXCEPT !.b = c.b,
                                             !.hdr.children = Append(@, c.hdr),
                                             !.hdr.mapping = Join(c.hdr.mapping, @)],
                                   fileSize - subHdrSize, full)

-----------------------------------------------------------------------------
Image(h) == [numBytes |-> h.numBytes, numDataSectors |-> h.numDataSectors,
             dataSectors |-> h.dataSectors]

RECURSIVE WriteBack(_, _, _), FetchFrom(_, _), Deallocate(_, _)

(* Mutant: the children are not written. *)
WriteBack_NoChildren(disk, h, sector) == [disk EXCEPT ![sector] = Image(h)]

(* FileHeader::WriteBack(sector): the header, then its children. *)
WriteBack(disk, h, sector) ==
    FoldLeft(LAMBDA d, i : WriteBack(d, h.children[i], h.dataSectors[i]),
             [disk EXCEPT ![sector] = Image(h)],
             [i \in 1..Len(h.children) |-> i])

(* FileHeader::FetchFrom(sector): rebuild children and mapping.  The code   *)
(* reads numDataSectors entries of a leaf; a leaf has as many valid ones,   *)
(* unless its Allocate returned FALSE, and so in Deallocate.  With the real *)
(* constants a child's Allocate never does: numClear is NumSectors at each  *)
(* load, and a file and its index take fewer.                               *)
FetchFrom(disk, sector) ==
    LET im == disk[sector]
        h == [numBytes |-> im.numBytes, numDataSectors |-> im.numDataSectors,
              dataSectors |-> im.dataSectors, children |-> << >>, mapping |-> << >>]
    IN  IF whichLv(im.numBytes) = 0
        THEN [h EXCEPT !.mapping = im.dataSectors]
        ELSE FoldLeft(LAMBDA g, s : LET c == FetchFrom(disk, s)
                                    IN  [g EXCEPT !.children = Append(@, c),
                                                  !.mapping = Join(c.mapping, @)],
                      h, im.dataSectors)

(* Mutant: the mapping is returned at every level. *)
Deallocate_Twice(st, h) ==
    FoldLeft(Deallocate,
             FoldLeft(LAMBDA s, x : IF s.outcome # "abort" /\ Test(s.b, x)
                                    THEN [s EXCEPT !.b = Clear(@, x)]
                                    ELSE [s EXCEPT !.outcome = "abort"],
                      st, h.mapping),
             h.children)

(* FileHeader::Deallocate(freeMap), on [outcome, b]. *)
Deallocate(st, h) ==
    IF whichLv(h.numBytes) = 0
    THEN FoldLeft(LAMBDA s, x : IF s.outcome # "abort" /\ Test(s.b, x)
                                THEN [s EXCEPT !.b = Clear(@, x)]
                                ELSE [s EXCEPT !.outcome = "abort"],
                  st, h.dataSectors)
    ELSE FoldLeft(Deallocate, st, h.children)

(* FileHeader::ByteToSector(offset); its ASSERT is the first conjunct. *)
InRange(h, offset) == /\ offset \div SectorSize < Len(h.mapping)
                      /\ Len(h.mapping) = h.numDataSectors
ByteToSector(h, offset) == h.mapping[(offset \div SectorSize) + 1]

-----------------------------------------------------------------------------
VARIABLES freeMap,  \* contents of the bitmap file
          disk,     \* the headers on the disk
          files,    \* the in-memory header that Create made, for each header sector
          outcome   \* of the last operation

vars == <<freeMap, disk, files, outcome>>

(* FileSystem(TRUE) *)
Formatted == LET b0 == Mark(Mark(NewBitmap(NumSectors), FreeMapSector), DirectorySector)
                 mapHdr == Allocate(b0, FreeMapFileSize)
                 dirHdr == Allocate(mapHdr.b, DirectoryFileSize)
                 empty == [s \in Bits(NumSectors) |-> NoImage]
             IN  [map |-> dirHdr.b.map,
                  disk |-> WriteBack(WriteBack(empty, mapHdr.hdr, FreeMapSector),
                                     dirHdr.hdr, DirectorySector),
                  hdrs |-> (FreeMapSector :> mapHdr.hdr) @@ (DirectorySector :> dirHdr.hdr)]

Init == /\ freeMap = Formatted.map
        /\ disk = Formatted.disk
        /\ files = Formatted.hdrs
        /\ outcome = "ok"

(* Mutants: the bitmap is written before Allocate; a sector is taken twice  *)
(* for the header.                                                          *)
Create_MapFirst(fileSize) ==
    LET b0 == BitmapFrom(freeMap, NumSectors)
        sector == Found(b0, NumSectors)
        r == Allocate(FindAndSet(b0, NumSectors), fileSize)
    IN  IF sector >= 0 /\ r.outcome = "ok"
        THEN /\ disk' = WriteBack(disk, r.hdr, sector)
             /\ freeMap' = FindAndSet(b0, NumSectors).map
             /\ files' = (sector :> r.hdr) @@ files
             /\ outcome' = "ok"
        ELSE /\ outcome' = "abort"
             /\ UNCHANGED <<freeMap, disk, files>>

Create_TakesTwice(fileSize) ==
    LET b0 == FindAndSet(BitmapFrom(freeMap, NumSectors), NumSectors)
        sector == Found(b0, NumSectors)
        r == Allocate(FindAndSet(b0, NumSectors), fileSize)
    IN  IF sector >= 0 /\ r.outcome = "ok"
        THEN /\ disk' = WriteBack(disk, r.hdr, sector)
             /\ freeMap' = r.b.map
             /\ files' = (sector :> r.hdr) @@ files
             /\ outcome' = "ok"
        ELSE /\ outcome' = "abort"
             /\ UNCHANGED <<freeMap, disk, files>>

(* FileSystem::createFileOrDir, steps 2 to 4, without the directory. *)
Create(fileSize) ==
    LET b0 == BitmapFrom(freeMap, NumSectors)
        sector == Found(b0, NumSectors)
        r == Allocate(FindAndSet(b0, NumSectors), fileSize)
    IN  IF sector >= 0 /\ r.outcome = "ok"
        THEN /\ disk' = WriteBack(disk, r.hdr, sector)
             /\ freeMap' = r.b.map
             /\ files' = (sector :> r.hdr) @@ files
             /\ outcome' = "ok"
        ELSE /\ outcome' = "abort"     \* ASSERT(sector >= 0), ASSERT(fh->Allocate(...))
             /\ UNCHANGED <<freeMap, disk, files>>

(* FileSystem::Remove: returnSectorsToFreeMap, and the bitmap written back. *)
RemoveFile(sector) ==
    LET b0 == BitmapFrom(freeMap, NumSectors)
        r == Deallocate([outcome |-> "ok", b |-> Clear(b0, sector)], FetchFrom(disk, sector))
    IN  IF Test(b0, sector) /\ r.outcome = "ok"
        THEN /\ freeMap' = r.b.map
             /\ files' = [s \in DOMAIN files \ {sector} |-> files[s]]
             /\ outcome' = "ok"
             /\ UNCHANGED disk
        ELSE /\ outcome' = "remove aborted"
             /\ UNCHANGED <<freeMap, disk, files>>

Next == \/ \E size \in Sizes : Create(size)
        \/ \E s \in DOMAIN files \ {FreeMapSector, DirectorySector} : RemoveFile(s)

Spec == Init /\ [][Next]_vars

-----------------------------------------------------------------------------
RECURSIVE Below(_)

(* The sectors of the headers below h, and all the sectors of a file. *)
Below(h) == FlattenSeq([i \in 1..Len(h.children) |-> <<h.dataSectors[i]>> \o Below(h.children[i])])
SectorsOf(f) == <<f>> \o Below(files[f]) \o files[f].mapping

TypeOK == /\ freeMap \in SUBSET Bits(NumSectors)
          /\ DOMAIN disk = Bits(NumSectors)
          /\ \A s \in DOMAIN disk : ToSet(disk[s].dataSectors) \subseteq Bits(NumSectors)
          /\ DOMAIN files \subseteq Bits(NumSectors)
          /\ outcome \in {"ok", "abort", "remove aborted"}

(***************************************************************************)
(* What FetchFrom reads back is what Allocate built, children, mapping and *)
(* all, however many files were created and removed since (the comparison  *)
(* of vectors in Allocate and FetchFrom never drops a child's sectors).    *)
(***************************************************************************)
FetchRestores == \A f \in DOMAIN files : FetchFrom(disk, f) = files[f]

(***************************************************************************)
(* Every byte of a file has a sector (the ASSERT of ByteToSector holds),   *)
(* and two bytes are in the same sector only if they belong together.      *)
(***************************************************************************)
EveryByteHasItsSector ==
    \A f \in DOMAIN files : \A i, j \in 0..(files[f].numBytes - 1) :
        /\ InRange(files[f], i)
        /\ ByteToSector(files[f], i) = ByteToSector(files[f], j)
               <=> i \div SectorSize = j \div SectorSize

(***************************************************************************)
(* No sector belongs to two files, or twice to one, as header, index or    *)
(* data, and every sector of a file is marked in the free map.             *)
(***************************************************************************)
NoSharedSector ==
    /\ \A f \in DOMAIN files : IsInjective(SectorsOf(f)) /\ ToSet(SectorsOf(f)) \subseteq freeMap
    /\ \A f, g \in DOMAIN files : f # g => ToSet(SectorsOf(f)) \cap ToSet(SectorsOf(g)) = {}

(* The ASSERTs of Deallocate ("ought to be marked!") never fail. *)
RemoveNeverAborts == outcome # "remove aborted"

(***************************************************************************)
(* Create takes the first SectorsFor(size) + 1 free sectors, no more and   *)
(* no less, puts the index and the data where FileLayout says, and fails   *)
(* only if there are not that many.                                        *)
(***************************************************************************)
TakesFirstFree ==
    [][ \A size \in Sizes : Create(size) =>
            LET free == Bits(NumSectors) \ freeMap
                taken == freeMap' \ freeMap
            IN  IF outcome' = "abort"
                THEN ~Supported(size) \/ Cardinality(free) < SectorsFor(size) + 1
                ELSE \E f \in DOMAIN files' \ DOMAIN files :
                         /\ files'[f].numBytes = size
                         /\ taken = ToSet(SectorsOf(f)')
                         /\ Cardinality(taken) = SectorsFor(size) + 1
                         /\ \A s \in taken, t \in free \ taken : s < t
                         /\ ToSet(Below(files[f])') =
                                {s \in taken \ {f} : Cardinality({t \in taken \ {f} : t < s})
                                                         \in IndexPositions[size]} ]_vars

(***************************************************************************)
(* The comment of FileSystem::returnSectorsToFreeMap: "Return data and     *)
(* header sectors to freeMap".  What is marked is in use.                  *)
(***************************************************************************)
NoLeak == freeMap = UNION {ToSet(SectorsOf(f)) : f \in DOMAIN files}
=============================================================================
