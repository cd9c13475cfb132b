----------------------------- MODULE FileLayout -----------------------------
(***************************************************************************)
(* The sizes of the index of a file (filesys/filehdr.h, filehdr.cc): how   *)
(* many data sectors a header of each level covers, the level of a file,   *)
(* and how many sectors FileHeader::Allocate takes for it.                 *)
(***************************************************************************)
EXTENDS Integers, FiniteSets

CONSTANTS SectorSize,   \* bytes in a sector
          NUM_DIRECT,   \* sector numbers in a header
          LEVEL_LIMIT   \* number of levels

ASSUME LayoutAssumption == /\ SectorSize \in Nat \ {0}
                           /\ NUM_DIRECT \in Nat \ {0, 1}
                           /\ LEVEL_LIMIT \in Nat \ {0}

Levels == 0..(LEVEL_LIMIT - 1)

divRoundUp(n, s) == n \div s + (IF n % s > 0 THEN 1 ELSE 0)

(* MAX_SIZE[lv] *)
MAX_SIZE(lv) == NUM_DIRECT^(lv + 1) * SectorSize

(* FileHeader::whichLv; it aborts on a file beyond the last level. *)
Supported(fileSize) == fileSize <= MAX_SIZE(LEVEL_LIMIT - 1)
whichLv(fileSize) == CHOOSE lv \in Levels : /\ fileSize <= MAX_SIZE(lv)
                                            /\ \A k \in Levels : k < lv => fileSize > MAX_SIZE(k)

NumDataSectors(fileSize) == divRoundUp(fileSize, SectorSize)

(***************************************************************************)
(* Allocate takes the sectors of a file in the order in which it walks     *)
(* down the headers: the sector of a child, then everything below it.  The *)
(* positions, from 0, at which it takes an index sector, that is the       *)
(* sector of a header below the file's own.  All children but the last are *)
(* full; the last one is a header of whatever level its remainder needs.   *)
(***************************************************************************)
IndexPositions[fileSize \in Nat] ==
    IF fileSize <= MAX_SIZE(0) THEN {}
    ELSE LET full == MAX_SIZE(whichLv(fileSize) - 1)
             others == divRoundUp(fileSize, full) - 1
             step == 1 + Cardinality(IndexPositions[full]) + NumDataSectors(full)
             At(c, size) == {c * step} \cup {c * step + 1 + p : p \in IndexPositions[size]}
         IN  UNION {At(c, full) : c \in 0..(others - 1)} \cup At(others, fileSize - others * full)

(* All the sectors that Allocate takes, the header's own not included. *)
SectorsFor(fileSize) == Cardinality(IndexPositions[fileSize]) + NumDataSectors(fileSize)
=============================================================================
