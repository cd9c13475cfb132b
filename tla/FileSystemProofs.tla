-------------------------- MODULE FileSystemProofs --------------------------
(***************************************************************************)
(* The tree on the disk stays sound through every operation and restart,   *)
(* for a disk of any size, any names, sizes of files and depth of paths.   *)
(***************************************************************************)
EXTENDS FileSystem, WellFoundedInduction, TLAPS

(* The inductive invariant.  What holds of the disk: *)
DiskInv == /\ freeMap \in SUBSET Sector
           /\ DOMAIN headers \subseteq Sector
           /\ \A s \in DOMAIN headers : headers[s] \in Header
           /\ DOMAIN tables \subseteq DOMAIN headers
           /\ \A d \in DOMAIN tables : tables[d] \in SUBSET Entry
           /\ NoSharedSector
           /\ Sound
           /\ SystemFiles \subseteq DOMAIN headers
           /\ DirectorySector \in DOMAIN tables /\ FreeMapSector \notin DOMAIN tables
           /\ Connected

(* What holds of the process. *)
ProcessInv == /\ OpenFileTable \in [FileId -> Sector \cup {INVALID_SECTOR}]
              /\ running \in BOOLEAN
              /\ outcome \in {"ok", "no", "abort"}

IInv == DiskInv /\ ProcessInv

(* What is left of it when a program has written to a directory. *)
Overwritten == TypeOK /\ NoSharedSector /\ outcome = "overwritten"

-----------------------------------------------------------------------------
(* The numbers that are and are not sectors. *)
LEMMA SectorFacts == SystemFiles \subseteq Sector /\ INVALID_SECTOR \notin Sector
  BY FileSystemAssumption DEF SystemFiles, FreeMapSector, DirectorySector, Sector, INVALID_SECTOR

(* Allocate takes free sectors only, each as an index or as a data sector. *)
LEMMA AllocateFacts ==
    ASSUME NEW free \in SUBSET Sector, NEW size
    PROVE  /\ Allocate(free, size) \in Header
           /\ Allocate(free, size).index \subseteq free
           /\ Allocate(free, size).data \subseteq free
  <1>1. FirstFree(free, SectorsFor(size)) \subseteq free
    BY DEF FirstFree
  <1> QED
    BY <1>1 DEF Allocate, Header

(* Directory::Find returns the sector of an entry that matches, or says     *)
(* that there is none.                                                      *)
LEMMA FindFacts ==
    ASSUME DiskInv, NEW d, NEW name, NEW isDir
    PROVE  \/ /\ Find(d, name, isDir) = INVALID_SECTOR
              /\ \A e \in Entries(d) : ~Matches(e, name, isDir)
           \/ /\ d \in DOMAIN tables
              /\ \E e \in tables[d] : Matches(e, name, isDir) /\ Find(d, name, isDir) = e.sector
              /\ Find(d, name, isDir) \in DOMAIN headers \ SystemFiles
              /\ Find(d, name, isDir) # INVALID_SECTOR
  <1>1. CASE ~\E e \in Entries(d) : Matches(e, name, isDir)
    BY <1>1 DEF Find
  <1>2. CASE \E e \in Entries(d) : Matches(e, name, isDir)
    <2> DEFINE c == CHOOSE e \in Entries(d) : Matches(e, name, isDir)
    <2>1. c \in Entries(d) /\ Matches(c, name, isDir)
      BY <1>2
    <2>2. Find(d, name, isDir) = c.sector
      BY <1>2 DEF Find
    <2>3. d \in DOMAIN tables /\ c \in tables[d]
      BY <2>1 DEF Entries
    <2> HIDE DEF c
    <2>4. c.sector \in DOMAIN headers \ SystemFiles
      BY <2>3 DEF DiskInv, Sound
    <2>5. c.sector # INVALID_SECTOR
      BY <2>4, SectorFacts DEF DiskInv
    <2> QED
      BY <2>1, <2>2, <2>3, <2>4, <2>5
  <1> QED
    BY <1>1, <1>2

(* A set of numbers from 1 to n with an element has a greatest one. *)
LEMMA GreatestElement ==
    ASSUME NEW n \in Nat, NEW S \in SUBSET (1..n), S # {}
    PROVE  \E i \in S : \A j \in S : j <= i
  <1> DEFINE R == {ss \in Nat \X Nat : ss[1] < ss[2]}
             T == {k \in Nat : n - k \in S}
  <1>1. IsWellFoundedOn(R, Nat)
    BY NatLessThanWellFounded, Zenon DEF OpToRel
  <1>2. \A i, j \in Nat : <<j, i>> \in R <=> j < i
    OBVIOUS
  <1>3. \A i \in S : i \in Nat /\ n - i \in Nat /\ n - (n - i) = i
    OBVIOUS
  <1>4. T \subseteq Nat /\ T # {}
    BY <1>3
  <1> HIDE DEF R, T
  <1>5. PICK k \in T : \A j \in T : ~ (<<j, k>> \in R)
    BY <1>1, <1>4, WFMin
  <1>6. \A j \in S : j <= n - k
    <2> TAKE j \in S
    <2>1. n - j \in T
      BY <1>3 DEF T
    <2>2. ~ (n - j < k)
      BY <1>2, <1>3, <1>4, <1>5, <2>1
    <2> QED
      BY <1>3, <1>4, <1>5, <2>2
  <1> QED
    BY <1>5, <1>6 DEF T

(* The tokens of a path are a sequence of names. *)
LEMMA TokensFacts ==
    ASSUME NEW path \in Tokens, path # << >>
    PROVE  /\ Len(path) \in Nat \ {0}
           /\ \A i \in 1..Len(path) : path[i] \in Name
  <1>1. PICK n \in 0..MaxDepth : path \in [1..n -> Name]
    BY DEF Tokens
  <1>2. n \in Nat
    BY FileSystemAssumption, <1>1
  <1>3. path \in Seq(Name) /\ Len(path) = n
    BY <1>1, <1>2
  <1> QED
    BY <1>1, <1>2, <1>3

(* The loop of find ends in a directory that exists: the one that it looked *)
(* for the last name in if that one was found.                              *)
LEMMA LastVisitedFacts ==
    ASSUME DiskInv, NEW path \in Tokens, path # << >>, NEW dirs \in Walks(path)
    PROVE  /\ LastVisited(path, dirs) \in DOMAIN tables
           /\ Visited(dirs, Len(path)) \in DOMAIN tables =>
                  LastVisited(path, dirs) = Visited(dirs, Len(path))
  <1> DEFINE n == Len(path)
             IsLast(d, i) == /\ d = Visited(dirs, i)
                             /\ \A j \in (i + 1)..n : dirs[j] = INVALID_SECTOR
             S == {i \in 1..n : Visited(dirs, i) \in DOMAIN tables}
             last == LastVisited(path, dirs)
  <1>1. n \in Nat \ {0}
    BY TokensFacts
  <1> HIDE DEF n
  <1>2. dirs \in [2..n -> DOMAIN tables \cup {INVALID_SECTOR}]
    BY DEF Walks, n
  <1>3. INVALID_SECTOR \notin DOMAIN tables
    BY SectorFacts DEF DiskInv
  <1>4. 1 \in S
    BY <1>1 DEF Visited, DiskInv
  <1>5. PICK i \in S : \A j \in S : j <= i
    <2>1. S \in SUBSET (1..n) /\ S # {}
      BY <1>4
    <2> HIDE DEF S
    <2>2. \E i \in S : \A j \in S : j <= i
      BY <1>1, <2>1, GreatestElement
    <2> QED
      BY <2>2
  <1>6. \A j \in (i + 1)..n : dirs[j] = INVALID_SECTOR
    <2> TAKE j \in (i + 1)..n
    <2>1. j \in 2..n /\ j \in 1..n /\ ~(j <= i) /\ j # 1
      BY <1>1, <1>5
    <2>2. j \notin S
      BY <1>5, <2>1
    <2>3. dirs[j] \notin DOMAIN tables
      BY <2>1, <2>2 DEF Visited
    <2> QED
      BY <1>2, <2>1, <2>3
  <1>7. \E d \in DOMAIN tables : \E k \in 1..n : IsLast(d, k)
    BY <1>5, <1>6
  <1>8. last \in DOMAIN tables /\ \E k \in 1..n : IsLast(last, k)
    BY <1>7 DEF LastVisited, n
  <1>9. ASSUME Visited(dirs, n) \in DOMAIN tables
        PROVE  last = Visited(dirs, n)
    <2>1. PICK k \in 1..n : IsLast(last, k)
      BY <1>8
    <2>2. CASE k = n
      BY <2>1, <2>2
    <2>3. CASE k # n
      <3>1. n \in (k + 1)..n /\ n # 1
        BY <1>1, <2>3
      <3>2. dirs[n] = INVALID_SECTOR
        BY <2>1, <3>1
      <3> QED
        BY <1>3, <1>9, <3>1, <3>2 DEF Visited
    <2> QED
      BY <2>2, <2>3
  <1> QED
    BY <1>8, <1>9 DEF n

(* What find says of a path: that it does not exist, with a directory to    *)
(* create it in or none; that it is the root; that it has no '/', with no   *)
(* sector; or which entry of which directory it is.                         *)
LEMMA FinderFacts ==
    ASSUME DiskInv, NEW path \in Path, NEW isDir \in BOOLEAN, NEW finder \in Finder(path, isDir)
    PROVE  LET p == finder.pFhSector
               f == finder.fhSector
           IN  \/ ~finder.exist /\ f = INVALID_SECTOR /\ p = INVALID_SECTOR
               \/ ~finder.exist /\ f = INVALID_SECTOR /\ p \in DOMAIN tables /\ finder.filename \in Name
               \/ finder.exist /\ f = DirectorySector /\ p = INVALID_SECTOR /\ path = RootPath
               \/ finder.exist /\ f = INVALID_SECTOR
               \/ /\ finder.exist /\ p \in DOMAIN tables
                  /\ f \in DOMAIN headers \ SystemFiles
                  /\ \E e \in tables[p] : Matches(e, finder.filename, isDir) /\ e.sector = f
  <1>1. CASE path \in {LongPath, RootPath, << >>}
    BY <1>1 DEF Finder, Nowhere
  <1>2. CASE path \notin {LongPath, RootPath, << >>}
    <2>1. path \in Tokens /\ path # << >>
      BY <1>2 DEF Path
    <2>2. PICK dirs \in Walks(path) : finder = Found(path, isDir, dirs)
      BY <1>2 DEF Finder
    <2> DEFINE n == Len(path)
               d == Visited(dirs, n)
    <2>3. path[n] \in Name
      BY <2>1, TokensFacts
    <2>4. /\ finder.exist <=> Find(d, path[n], isDir) # INVALID_SECTOR
          /\ finder.fhSector = Find(d, path[n], isDir)
          /\ finder.pFhSector = LastVisited(path, dirs)
          /\ finder.filename = path[n]
      BY <2>2 DEF Found
    <2>5. /\ LastVisited(path, dirs) \in DOMAIN tables
          /\ d \in DOMAIN tables => LastVisited(path, dirs) = d
      BY <2>1, LastVisitedFacts
    <2> HIDE DEF d, n
    <2>6. \/ Find(d, path[n], isDir) = INVALID_SECTOR
          \/ /\ d \in DOMAIN tables
             /\ \E e \in tables[d] : Matches(e, path[n], isDir) /\ Find(d, path[n], isDir) = e.sector
             /\ Find(d, path[n], isDir) \in DOMAIN headers \ SystemFiles
             /\ Find(d, path[n], isDir) # INVALID_SECTOR
      BY FindFacts
    <2> QED
      BY <2>3, <2>4, <2>5, <2>6
  <1> QED
    BY <1>1, <1>2

-----------------------------------------------------------------------------
(* Below(d) is closed, contains no file of the system but d, and every      *)
(* entry for something strictly below d is in a directory that is below d.  *)
LEMMA BelowFacts ==
    ASSUME DiskInv, NEW d \in DOMAIN headers
    PROVE  /\ d \in Below(d) /\ Below(d) \subseteq DOMAIN headers
           /\ Closed(Below(d))
           /\ (Below(d) \ {d}) \cap SystemFiles = {}
           /\ \A s \in DOMAIN tables : \A e \in tables[s] :
                  e.sector \in Below(d) \ {d} => s \in Below(d)
  <1>1. d \in Below(d) /\ Below(d) \subseteq DOMAIN headers
    BY DEF Below
  <1>2. \A s : \A e \in Entries(s) : e.sector \in DOMAIN headers \ SystemFiles
    BY DEF DiskInv, Sound, Entries
  <1>3. Closed(Below(d))
    BY <1>2 DEF Below, Closed
  <1>4. ASSUME NEW y \in Below(d) \ {d}
        PROVE  \E x \in Below(d) : \E f \in Entries(x) : f.sector = y
    <2> DEFINE S == Below(d) \ {y}
    <2>1. SUFFICES ASSUME \A x \in Below(d) : \A f \in Entries(x) : f.sector # y
                   PROVE  FALSE
      OBVIOUS
    <2>2. Closed(S)
      BY <1>3, <2>1 DEF Closed
    <2>3. S \in SUBSET DOMAIN headers /\ d \in S
      BY <1>1, <1>4
    <2> QED
      BY <1>4, <2>2, <2>3 DEF Below
  <1>5. (Below(d) \ {d}) \cap SystemFiles = {}
    BY <1>2, <1>4
  <1>6. ASSUME NEW s \in DOMAIN tables, NEW e \in tables[s], e.sector \in Below(d) \ {d}
        PROVE  s \in Below(d)
    <2>1. PICK x \in Below(d) : \E f \in Entries(x) : f.sector = e.sector
      BY <1>4, <1>6
    <2>2. x \in DOMAIN tables /\ \E f \in tables[x] : f.sector = e.sector
      BY <2>1 DEF Entries
    <2>3. x = s
      BY <2>2 DEF DiskInv, Sound
    <2> QED
      BY <2>3
  <1> QED
    BY <1>1, <1>3, <1>5, <1>6

(* The sectors that removal returns are marked, and none is returned twice. *)
LEMMA ReturnableFacts ==
    ASSUME DiskInv, NEW G \in SUBSET DOMAIN headers
    PROVE  /\ Returnable(G)
           /\ \A d \in DOMAIN headers \ G : Returned(d) \cap UNION {Returned(s) : s \in G} = {}
  <1>1. \A s \in DOMAIN headers : Returned(s) \subseteq SectorsOf(s, headers[s])
    BY DEF Returned, SectorsOf
  <1>2. \A s \in DOMAIN headers : Returned(s) \subseteq freeMap
    BY <1>1 DEF DiskInv, NoSharedSector
  <1>3. \A s, t \in DOMAIN headers : s # t => Returned(s) \cap Returned(t) = {}
    <2> TAKE s, t \in DOMAIN headers
    <2>1. s # t => SectorsOf(s, headers[s]) \cap SectorsOf(t, headers[t]) = {}
      BY DEF DiskInv, NoSharedSector
    <2>2. Returned(s) \subseteq SectorsOf(s, headers[s]) /\ Returned(t) \subseteq SectorsOf(t, headers[t])
      BY <1>1
    <2> QED
      BY <2>1, <2>2
  <1>4. Returnable(G)
    BY <1>2, <1>3 DEF Returnable
  <1>5. \A d \in DOMAIN headers \ G : Returned(d) \cap UNION {Returned(s) : s \in G} = {}
    BY <1>3
  <1> QED
    BY <1>4, <1>5

(* Nothing refers to the file of the bitmap. *)
LEMMA FreeMapApart ==
    ASSUME Sound', SystemFiles \subseteq DOMAIN headers'
    PROVE  Below(DirectorySector)' \subseteq DOMAIN headers' \ {FreeMapSector}
  <1> DEFINE S == DOMAIN headers' \ {FreeMapSector}
  <1>1. \A d : \A e \in Entries(d)' : e.sector \in DOMAIN headers' \ SystemFiles
    BY DEF Sound, Entries, SystemFiles, FreeMapSector, DirectorySector
  <1>2. \A d \in S : \A e \in Entries(d)' : e.sector \in S
    BY <1>1 DEF SystemFiles
  <1>3. S \in SUBSET DOMAIN headers' /\ DirectorySector \in S
    BY DEF SystemFiles, FreeMapSector, DirectorySector
  <1> HIDE DEF S
  <1>4. \A s \in Below(DirectorySector)' : s \in S /\ s \in DOMAIN headers'
    BY <1>2, <1>3 DEF Below, Closed, DirectorySector
  <1> QED
    BY <1>4 DEF S

(***************************************************************************)
(* Removal in general: the files in G, which hold everything below them,   *)
(* go, with the entries that refer to them; what those in F return is      *)
(* freed.                                                                  *)
(***************************************************************************)
LEMMA RemovalInvariant ==
    ASSUME DiskInv,
           NEW G \in SUBSET (DOMAIN headers \ SystemFiles), Closed(G),
           NEW F \in SUBSET G, freeMap' = freeMap \ UNION {Returned(s) : s \in F},
           headers' = [s \in DOMAIN headers \ G |-> headers[s]],
           DOMAIN tables' = DOMAIN tables \ G,
           \A s \in DOMAIN tables \ G : tables'[s] = {e \in tables[s] : e.sector \notin G}
    PROVE  DiskInv'
  <1>1. DOMAIN headers' = DOMAIN headers \ G /\ \A s \in DOMAIN headers' : headers'[s] = headers[s]
    OBVIOUS
  <1>2. /\ freeMap' \in SUBSET Sector
        /\ DOMAIN headers' \subseteq Sector
        /\ \A s \in DOMAIN headers' : headers'[s] \in Header
    BY <1>1 DEF DiskInv
  <1>3. /\ DOMAIN tables' \subseteq DOMAIN headers'
        /\ \A d \in DOMAIN tables' : tables'[d] \in SUBSET Entry
    BY <1>1 DEF DiskInv
  <1>4. /\ SystemFiles \subseteq DOMAIN headers'
        /\ DirectorySector \in DOMAIN tables' /\ FreeMapSector \notin DOMAIN tables'
    BY <1>1 DEF DiskInv, SystemFiles
  <1>5. NoSharedSector'
    <2>1. \A s \in DOMAIN headers' : SectorsOf(s, headers'[s]) \subseteq freeMap'
      <3> TAKE s \in DOMAIN headers'
      <3>1. s \in DOMAIN headers \ G /\ headers'[s] = headers[s]
        BY <1>1
      <3>2. SectorsOf(s, headers[s]) \subseteq freeMap
        BY <3>1 DEF DiskInv, NoSharedSector
      <3>3. ASSUME NEW t \in G
            PROVE  SectorsOf(s, headers[s]) \cap Returned(t) = {}
        <4>1. SectorsOf(s, headers[s]) \cap SectorsOf(t, headers[t]) = {}
          BY <3>1 DEF DiskInv, NoSharedSector
        <4> QED
          BY <4>1 DEF SectorsOf, Returned
      <3>4. freeMap \ UNION {Returned(t) : t \in G} \subseteq freeMap'
        OBVIOUS
      <3>5. SectorsOf(s, headers[s]) \cap UNION {Returned(t) : t \in G} = {}
        BY <3>3
      <3> QED
        BY <3>1, <3>2, <3>4, <3>5
    <2>2. \A s, t \in DOMAIN headers' :
              s # t => SectorsOf(s, headers'[s]) \cap SectorsOf(t, headers'[t]) = {}
      BY <1>1 DEF DiskInv, NoSharedSector
    <2> QED
      BY <2>1, <2>2 DEF NoSharedSector, SectorsOf
  <1>6. \A d \in DOMAIN tables' : /\ d \in DOMAIN tables
                                  /\ tables'[d] = {e \in tables[d] : e.sector \notin G}
    OBVIOUS
  <1>7. Sound'
    <2>1. ASSUME NEW d \in DOMAIN tables', NEW e \in tables'[d]
          PROVE  /\ e.sector \in DOMAIN headers' \ SystemFiles
                 /\ e.isDir <=> e.sector \in DOMAIN tables'
                 /\ \A f \in tables'[d] : Matches(e, f.name, f.isDir) => e = f
      <3>1. d \in DOMAIN tables /\ e \in tables[d] /\ e.sector \notin G
        BY <1>6
      <3>2. \A f \in tables'[d] : f \in tables[d]
        BY <1>6
      <3>3. /\ e.sector \in DOMAIN headers \ SystemFiles
            /\ e.isDir <=> e.sector \in DOMAIN tables
            /\ \A f \in tables[d] : Matches(e, f.name, f.isDir) => e = f
        BY <3>1 DEF DiskInv, Sound
      <3> QED
        BY <1>1, <3>1, <3>2, <3>3
    <2>2. \A d, c \in DOMAIN tables' : \A e \in tables'[d], f \in tables'[c] :
              e.sector = f.sector => d = c /\ e = f
      BY <1>6 DEF DiskInv, Sound
    <2> QED
      BY <2>1, <2>2 DEF Sound, Matches, SystemFiles, FreeMapSector, DirectorySector
  <1>8. Connected'
    <2>1. Below(DirectorySector)' \subseteq DOMAIN headers' \ {FreeMapSector}
      BY <1>4, <1>7, FreeMapApart
    <2>2. ASSUME NEW y \in DOMAIN headers' \ {FreeMapSector},
                 NEW T \in SUBSET DOMAIN headers', DirectorySector \in T,
                 \A d \in T : \A e \in Entries(d)' : e.sector \in T
          PROVE  y \in T
      <3> DEFINE S == T \cup G
      <3>1. ASSUME NEW d \in T, NEW e \in Entries(d), e.sector \notin G
            PROVE  e.sector \in T
        <4>1. d \in DOMAIN tables \ G /\ e \in tables[d]
          BY <1>1, <3>1 DEF Entries
        <4>2. d \in DOMAIN tables' /\ e \in tables'[d]
          BY <3>1, <4>1
        <4> QED
          BY <2>2, <4>2 DEF Entries
      <3>2. Closed(S)
        BY <3>1 DEF Closed
      <3>3. S \in SUBSET DOMAIN headers /\ DirectorySector \in S
        BY <1>1, <2>2
      <3>4. y \in Below(DirectorySector)
        BY <1>1, <2>2 DEF DiskInv, Connected
      <3>5. y \in S
        BY <3>2, <3>3, <3>4 DEF Below
      <3> QED
        BY <1>1, <2>2, <3>5
    <2>3. DOMAIN headers' \ {FreeMapSector} \subseteq Below(DirectorySector)'
      BY <2>2 DEF Below, Closed, DirectorySector
    <2> QED
      BY <2>1, <2>3 DEF Connected, FreeMapSector
  <1> QED
    BY <1>2, <1>3, <1>4, <1>5, <1>7, <1>8 DEF DiskInv, SystemFiles, FreeMapSector, DirectorySector,
       Sector, Entry, Header

(* What createFileOrDir does to the disk: a header on a free sector, for a  *)
(* name that is new in directory p.                                         *)
LEMMA CreationInvariant ==
    ASSUME DiskInv,
           NEW p \in DOMAIN tables, NEW name \in Name, NEW isDir \in BOOLEAN,
           \A e \in Entries(p) : ~Matches(e, name, isDir),
           NEW sector \in Sector \ freeMap, NEW fh \in Header,
           fh.index \subseteq (Sector \ freeMap) \ {sector},
           fh.data \subseteq (Sector \ freeMap) \ {sector},
           NEW entry, entry = [name |-> name, isDir |-> isDir, sector |-> sector],
           freeMap' = freeMap \cup SectorsOf(sector, fh),
           headers' = [s \in DOMAIN headers \cup {sector} |-> IF s = sector THEN fh ELSE headers[s]],
           DOMAIN tables' = DOMAIN tables \cup (IF isDir THEN {sector} ELSE {}),
           isDir => tables'[sector] = {},
           \A s \in DOMAIN tables : tables'[s] = tables[s] \cup (IF s = p THEN {entry} ELSE {})
    PROVE  /\ DiskInv'
           /\ \A s \in DOMAIN headers : s \in DOMAIN headers' /\ headers'[s] = headers[s]
  <1>1. sector \notin DOMAIN headers /\ sector \notin SystemFiles /\ sector \notin DOMAIN tables
    BY DEF DiskInv, NoSharedSector, SectorsOf
  <1>2. /\ DOMAIN headers' = DOMAIN headers \cup {sector}
        /\ headers'[sector] = fh
        /\ \A s \in DOMAIN headers : s \in DOMAIN headers' /\ headers'[s] = headers[s]
    BY <1>1
  <1>3. /\ freeMap' \in SUBSET Sector
        /\ DOMAIN headers' \subseteq Sector
        /\ \A s \in DOMAIN headers' : headers'[s] \in Header
    BY <1>2 DEF DiskInv, SectorsOf
  <1>4. entry \in Entry /\ entry.name = name /\ entry.isDir = isDir /\ entry.sector = sector
    BY DEF Entry
  <1>5. /\ DOMAIN tables' \subseteq DOMAIN headers'
        /\ \A d \in DOMAIN tables' : tables'[d] \in SUBSET Entry
    BY <1>1, <1>2, <1>4 DEF DiskInv
  <1>6. /\ SystemFiles \subseteq DOMAIN headers'
        /\ DirectorySector \in DOMAIN tables' /\ FreeMapSector \notin DOMAIN tables'
    BY <1>1, <1>2 DEF DiskInv, SystemFiles
  <1>7. NoSharedSector'
    <2>1. SectorsOf(sector, fh) \subseteq Sector \ freeMap
      BY DEF SectorsOf
    <2>2. \A s \in DOMAIN headers : SectorsOf(s, headers[s]) \subseteq freeMap
      BY DEF DiskInv, NoSharedSector
    <2>3. \A s \in DOMAIN headers' : SectorsOf(s, headers'[s]) \subseteq freeMap'
      BY <1>2, <2>2
    <2>4. \A s \in DOMAIN headers : SectorsOf(s, headers[s]) \cap SectorsOf(sector, fh) = {}
      BY <2>1, <2>2
    <2>5. \A s, t \in DOMAIN headers' :
              s # t => SectorsOf(s, headers'[s]) \cap SectorsOf(t, headers'[t]) = {}
      <3> TAKE s, t \in DOMAIN headers'
      <3>1. CASE s = sector \/ t = sector
        BY <1>2, <2>4, <3>1
      <3>2. CASE s # sector /\ t # sector
        BY <1>2, <3>2 DEF DiskInv, NoSharedSector
      <3> QED
        BY <3>1, <3>2
    <2> QED
      BY <2>3, <2>5 DEF NoSharedSector, SectorsOf
  <1>8. \A d \in DOMAIN tables' : \A e \in tables'[d] :
            \/ d \in DOMAIN tables /\ e \in tables[d] /\ e.sector # sector
            \/ d = p /\ e = entry
    <2> TAKE d \in DOMAIN tables'
    <2> TAKE e \in tables'[d]
    <2>1. d \in DOMAIN tables
      OBVIOUS
    <2>2. e \in tables[d] => e.sector # sector
      BY <1>1, <2>1 DEF DiskInv, Sound
    <2> QED
      BY <2>1, <2>2
  <1>9. Sound'
    <2>1. ASSUME NEW d \in DOMAIN tables', NEW e \in tables'[d]
          PROVE  /\ e.sector \in DOMAIN headers' \ SystemFiles
                 /\ e.isDir <=> e.sector \in DOMAIN tables'
      <3>1. CASE d \in DOMAIN tables /\ e \in tables[d] /\ e.sector # sector
        <4>1. e.sector \in DOMAIN headers \ SystemFiles /\ (e.isDir <=> e.sector \in DOMAIN tables)
          BY <3>1 DEF DiskInv, Sound
        <4> QED
          BY <1>2, <3>1, <4>1
      <3>2. CASE e = entry
        BY <1>1, <1>2, <1>4, <3>2
      <3> QED
        BY <1>8, <3>1, <3>2
    <2>2. ASSUME NEW d \in DOMAIN tables', NEW e \in tables'[d], NEW f \in tables'[d],
                 Matches(e, f.name, f.isDir)
          PROVE  e = f
      <3>1. CASE d \in DOMAIN tables /\ e \in tables[d] /\ f \in tables[d]
        BY <2>2, <3>1 DEF DiskInv, Sound
      <3>2. CASE d = p /\ (e = entry \/ f = entry) /\ e # f
        <4>1. (e \in tables[p] /\ f = entry) \/ (f \in tables[p] /\ e = entry)
          BY <1>8, <3>2
        <4> QED
          BY <1>4, <2>2, <4>1 DEF Entries, Matches
      <3> QED
        BY <1>8, <3>1, <3>2
    <2>3. ASSUME NEW d \in DOMAIN tables', NEW c \in DOMAIN tables',
                 NEW e \in tables'[d], NEW f \in tables'[c], e.sector = f.sector
          PROVE  d = c /\ e = f
      <3>1. CASE d \in DOMAIN tables /\ e \in tables[d] /\ c \in DOMAIN tables /\ f \in tables[c]
        BY <2>3, <3>1 DEF DiskInv, Sound
      <3>2. CASE e.sector = sector
        BY <1>8, <2>3, <3>2
      <3> QED
        BY <1>4, <1>8, <2>3, <3>1, <3>2
    <2> QED
      BY <2>1, <2>2, <2>3 DEF Sound, Matches, SystemFiles, FreeMapSector, DirectorySector
  <1>10. Connected'
    <2>1. Below(DirectorySector)' \subseteq DOMAIN headers' \ {FreeMapSector}
      BY <1>6, <1>9, FreeMapApart
    <2>2. ASSUME NEW y \in DOMAIN headers' \ {FreeMapSector},
                 NEW T \in SUBSET DOMAIN headers', DirectorySector \in T,
                 \A d \in T : \A e \in Entries(d)' : e.sector \in T
          PROVE  y \in T
      <3> DEFINE S == T \ {sector}
      <3>1. ASSUME NEW d \in S, NEW e \in Entries(d)
            PROVE  e.sector \in S
        <4>1. d \in DOMAIN tables /\ e \in tables[d]
          BY <3>1 DEF Entries
        <4>2. e.sector # sector
          BY <1>1, <4>1 DEF DiskInv, Sound
        <4>3. d \in DOMAIN tables' /\ e \in tables'[d]
          BY <4>1
        <4> QED
          BY <2>2, <3>1, <4>2, <4>3 DEF Entries
      <3>2. Closed(S)
        BY <3>1 DEF Closed
      <3>3. S \in SUBSET DOMAIN headers /\ DirectorySector \in S
        BY <1>1, <1>2, <2>2 DEF SystemFiles
      <3>4. \A z \in DOMAIN headers \ {FreeMapSector} : z \in S
        BY <3>2, <3>3 DEF DiskInv, Connected, Below
      <3>5. p \in T
        BY <3>4 DEF DiskInv
      <3>6. CASE y # sector
        BY <1>2, <2>2, <3>4, <3>6
      <3>7. CASE y = sector
        <4>1. p \in DOMAIN tables' /\ entry \in tables'[p]
          OBVIOUS
        <4> QED
          BY <1>4, <2>2, <3>5, <3>7, <4>1 DEF Entries
      <3> QED
        BY <3>6, <3>7
    <2>3. DOMAIN headers' \ {FreeMapSector} \subseteq Below(DirectorySector)'
      BY <2>2 DEF Below, Closed, DirectorySector
    <2> QED
      BY <2>1, <2>3 DEF Connected, FreeMapSector
  <1> QED
    BY <1>2, <1>3, <1>5, <1>6, <1>7, <1>9, <1>10 DEF DiskInv, SystemFiles, FreeMapSector,
       DirectorySector, Sector, Entry, Header

-----------------------------------------------------------------------------
(* An operation that does not write to the disk. *)
LEMMA DiskUnchanged ==
    ASSUME DiskInv, UNCHANGED disk
    PROVE  DiskInv' /\ headers' = headers
  BY DEF disk, DiskInv, NoSharedSector, Sound, Connected, Below, Closed, Entries, SectorsOf,
         SystemFiles, FreeMapSector, DirectorySector, Sector, Entry, Header, Matches

(* A process that ends, by itself or by an ASSERT, leaves no file open. *)
LEMMA EndOfProcessInvariant ==
    ASSUME EndOfProcess, outcome' \in {"ok", "no", "abort"}
    PROVE  ProcessInv'
  <1>1. running' \in BOOLEAN
    BY Zenon DEF EndOfProcess
  <1> QED
    BY <1>1 DEF EndOfProcess, ProcessInv, Sector, FileId, INVALID_SECTOR

(* An operation that returns. *)
LEMMA ReturnsInvariant ==
    ASSUME ProcessInv, NEW answer \in {"ok", "no"}, Returns(answer)
    PROVE  ProcessInv'
  BY DEF Returns, process, ProcessInv, Sector, FileId, INVALID_SECTOR

(* Create and Mkdir. *)
LEMMA CreateInvariant ==
    ASSUME IInv, NEW path \in Path, NEW isDir \in BOOLEAN, NEW initialSize,
           createFileOrDir(path, isDir, initialSize)
    PROVE  IInv'
  <1> DEFINE free == Sector \ freeMap
             size == IF isDir THEN DirectoryFileSize ELSE initialSize
  <1>1. CASE Abort /\ UNCHANGED disk
    BY <1>1, DiskUnchanged, EndOfProcessInvariant DEF IInv, Abort
  <1>2. CASE Returns("no") /\ UNCHANGED disk
    BY <1>2, DiskUnchanged, ReturnsInvariant DEF IInv
  <1>3. ASSUME NEW finder \in Finder(path, isDir),
               ~finder.exist, finder.pFhSector # INVALID_SECTOR,
               Addable(finder.pFhSector, finder.filename, isDir),
               NEW sector \in FirstFree(free, 1),
               freeMap' = freeMap \cup SectorsOf(sector, Allocate(free \ {sector}, size)),
               headers' = [s \in DOMAIN headers \cup {sector} |->
                              IF s = sector THEN Allocate(free \ {sector}, size) ELSE headers[s]],
               LET entry == [name |-> finder.filename, isDir |-> isDir, sector |-> sector]
                   pTable == [tables EXCEPT ![finder.pFhSector] = @ \cup {entry}]
               IN  tables' = IF isDir THEN [d \in DOMAIN tables \cup {sector} |->
                                               IF d = sector THEN {} ELSE pTable[d]]
                             ELSE pTable,
               Returns("ok")
        PROVE  IInv'
    <2> DEFINE fh == Allocate(free \ {sector}, size)
               p == finder.pFhSector
               entry == [name |-> finder.filename, isDir |-> isDir, sector |-> sector]
    <2>1. sector \in Sector \ freeMap
      BY <1>3 DEF FirstFree
    <2>2. /\ fh \in Header
          /\ fh.index \subseteq (Sector \ freeMap) \ {sector}
          /\ fh.data \subseteq (Sector \ freeMap) \ {sector}
      BY AllocateFacts
    <2>3. p \in DOMAIN tables /\ finder.filename \in Name
      BY <1>3, FinderFacts DEF IInv
    <2>4. \A e \in Entries(p) : ~Matches(e, finder.filename, isDir)
      BY <1>3, FindFacts DEF IInv, Addable
    <2>5. sector \notin DOMAIN tables
      BY <2>1 DEF IInv, DiskInv, NoSharedSector, SectorsOf
    <2>6. /\ DOMAIN tables' = DOMAIN tables \cup (IF isDir THEN {sector} ELSE {})
          /\ isDir => tables'[sector] = {}
          /\ \A s \in DOMAIN tables : tables'[s] = tables[s] \cup (IF s = p THEN {entry} ELSE {})
      BY <1>3, <2>3, <2>5
    <2>. /\ freeMap' = freeMap \cup SectorsOf(sector, fh)
         /\ headers' = [s \in DOMAIN headers \cup {sector} |-> IF s = sector THEN fh ELSE headers[s]]
         /\ entry = [name |-> finder.filename, isDir |-> isDir, sector |-> sector]
         /\ DiskInv
      BY <1>3 DEF IInv
    <2> HIDE DEF fh, p, entry, free, size
    <2>7. DiskInv'
      BY <2>1, <2>2, <2>3, <2>4, <2>6, CreationInvariant
    <2> QED
      BY <1>3, <2>7, ReturnsInvariant DEF IInv
  <1> QED
    BY <1>1, <1>2, <1>3 DEF createFileOrDir

(* Remove of a file: the only entry for it is the one that it is found by. *)
LEMMA RemoveOneInvariant ==
    ASSUME IInv, NEW path \in Path, RemoveOne(path)
    PROVE  IInv'
  <1>1. PICK finder \in Finder(path, FILE) :
            LET f == finder.fhSector
                p == finder.pFhSector
            IN  \/ Abort /\ UNCHANGED disk
                \/ Returns("no") /\ UNCHANGED disk
                \/ /\ path # RootPath /\ finder.exist /\ f # INVALID_SECTOR
                   /\ \/ ~Returnable({f})
                      \/ /\ freeMap' = freeMap \ Returned(f)
                         /\ headers' = [s \in DOMAIN headers \ {f} |-> headers[s]]
                         /\ tables' = [tables EXCEPT
                                          ![p] = Unlink(@, finder.filename, FILE)]
                         /\ Returns("ok")
    BY DEF RemoveOne
  <1> DEFINE f == finder.fhSector
             p == finder.pFhSector
             name == finder.filename
  <1>2. CASE Abort /\ UNCHANGED disk
    BY <1>2, DiskUnchanged, EndOfProcessInvariant DEF IInv, Abort
  <1>3. CASE Returns("no") /\ UNCHANGED disk
    BY <1>3, DiskUnchanged, ReturnsInvariant DEF IInv
  <1>4. CASE /\ path # RootPath /\ finder.exist /\ f # INVALID_SECTOR
             /\ \/ ~Returnable({f})
                \/ /\ freeMap' = freeMap \ Returned(f)
                   /\ headers' = [s \in DOMAIN headers \ {f} |-> headers[s]]
                   /\ tables' = [tables EXCEPT ![p] = Unlink(@, name, FILE)]
                   /\ Returns("ok")
    <2>1. /\ p \in DOMAIN tables /\ f \in DOMAIN headers \ SystemFiles
          /\ \E e \in tables[p] : Matches(e, name, FILE) /\ e.sector = f
      <3>1. FILE \in BOOLEAN
        BY Zenon DEF FILE
      <3> QED
        BY <1>4, <3>1, FinderFacts DEF IInv
    <2>2. PICK e \in tables[p] : Matches(e, name, FILE) /\ e.sector = f
      BY <2>1
    <2> HIDE DEF f, p, name
    <2>3. f \notin DOMAIN tables
      BY <2>1, <2>2 DEF IInv, DiskInv, Sound, Matches, FILE
    <2>4. \A s \in DOMAIN tables : \A g \in tables[s] : g.sector = f <=> s = p /\ Matches(g, name, FILE)
      <3> TAKE s \in DOMAIN tables
      <3> TAKE g \in tables[s]
      <3>1. g.sector = f => s = p /\ g = e
        BY <2>1, <2>2 DEF IInv, DiskInv, Sound
      <3>2. s = p /\ Matches(g, name, FILE) => Matches(e, g.name, g.isDir)
        BY <2>2 DEF Matches
      <3>3. s = p /\ Matches(g, name, FILE) => e = g
        BY <2>1, <3>2 DEF IInv, DiskInv, Sound
      <3> QED
        BY <2>2, <3>1, <3>3
    <2>5. Returnable({f})
      BY <2>1, ReturnableFacts DEF IInv
    <2>6. /\ freeMap' = freeMap \ Returned(f)
          /\ headers' = [s \in DOMAIN headers \ {f} |-> headers[s]]
          /\ tables' = [tables EXCEPT ![p] = Unlink(@, name, FILE)]
          /\ Returns("ok")
      BY <1>4, <2>5
    <2>7. DiskInv'
      <3> DEFINE G == {f}
      <3>1. G \in SUBSET (DOMAIN headers \ SystemFiles) /\ G \in SUBSET G
        BY <2>1
      <3>2. Closed(G)
        BY <2>3 DEF Closed, Entries
      <3>3. freeMap' = freeMap \ UNION {Returned(s) : s \in G}
        BY <2>6
      <3>4. DOMAIN tables' = DOMAIN tables \ G
        BY <2>3, <2>6
      <3>5. \A s \in DOMAIN tables \ G : tables'[s] = {g \in tables[s] : g.sector \notin G}
        BY <2>4, <2>6 DEF Unlink
      <3>6. headers' = [s \in DOMAIN headers \ G |-> headers[s]]
        BY <2>6
      <3> HIDE DEF G
      <3> QED
        BY <3>1, <3>2, <3>3, <3>4, <3>5, <3>6, RemovalInvariant DEF IInv
    <2> QED
      BY <2>6, <2>7, ReturnsInvariant DEF IInv
  <1> QED
    BY <1>1, <1>2, <1>3, <1>4

(* The ASSERTs of a recursive removal hold, so it runs to its end. *)
LEMMA RemoveDirSucceeds ==
    ASSUME DiskInv, NEW d \in DOMAIN headers, NEW p, NEW filename, RemoveDir(d, p, filename)
    PROVE  /\ freeMap' = freeMap \ UNION {Returned(s) : s \in RemoveAll(d)}
           /\ Returns("ok")
           /\ p = INVALID_SECTOR =>
                  /\ headers' = [s \in DOMAIN headers \ RemoveAll(d) |-> headers[s]]
                  /\ tables' = Kept(RemoveAll(d), d)
           /\ p # INVALID_SECTOR =>
                  /\ headers' = [s \in DOMAIN headers \ (RemoveAll(d) \cup {d}) |-> headers[s]]
                  /\ DOMAIN tables' = DOMAIN tables \ (RemoveAll(d) \cup {d})
                  /\ \A s \in DOMAIN tables' \ {p} : tables'[s] = tables[s]
                  /\ p \in DOMAIN tables' => tables'[p] = Unlink(tables[p], filename, DIR)
  <1> DEFINE gone == RemoveAll(d)
  <1>1. gone \in SUBSET DOMAIN headers /\ d \notin gone
    BY DEF RemoveAll, Below
  <1> HIDE DEF gone
  <1>2. Returnable(gone)
    BY <1>1, ReturnableFacts
  <1>3. Returned(d) \cap UNION {Returned(s) : s \in gone} = {}
    BY <1>1, ReturnableFacts
  <1>4. Returned(d) \subseteq freeMap
    BY DEF DiskInv, NoSharedSector, SectorsOf, Returned
  <1>5. freeMap' = freeMap \ UNION {Returned(s) : s \in gone}
    BY <1>2 DEF RemoveDir, gone
  <1>6. Returned(d) \subseteq freeMap'
    BY <1>3, <1>4, <1>5
  <1>7. CASE p = INVALID_SECTOR
    BY <1>2, <1>5, <1>7 DEF RemoveDir, gone
  <1>8. CASE p # INVALID_SECTOR
    <2>1. /\ headers' = [s \in DOMAIN headers \ (gone \cup {d}) |-> headers[s]]
          /\ tables' = [Kept(gone \cup {d}, d) EXCEPT
                           ![p] = Unlink(@, filename, DIR)]
          /\ Returns("ok")
      BY <1>2, <1>6, <1>8 DEF RemoveDir, gone
    <2> QED
      BY <1>5, <1>8, <2>1 DEF Kept, gone
  <1> QED
    BY <1>7, <1>8

(* The root directory is emptied. *)
LEMMA RemoveRootInvariant ==
    ASSUME DiskInv, NEW filename, RemoveDir(DirectorySector, INVALID_SECTOR, filename)
    PROVE  DiskInv'
  <1> DEFINE d == DirectorySector
             G == RemoveAll(d)
  <1>1. d \in DOMAIN headers /\ d \in SystemFiles
    BY DEF DiskInv, SystemFiles
  <1> HIDE DEF d
  <1>2. /\ freeMap' = freeMap \ UNION {Returned(s) : s \in G}
        /\ headers' = [s \in DOMAIN headers \ G |-> headers[s]]
        /\ tables' = Kept(G, d)
    BY <1>1, RemoveDirSucceeds DEF d
  <1>3. /\ d \in Below(d) /\ Below(d) \subseteq DOMAIN headers
        /\ Closed(Below(d))
        /\ (Below(d) \ {d}) \cap SystemFiles = {}
        /\ \A s \in DOMAIN tables : \A e \in tables[s] :
               e.sector \in Below(d) \ {d} => s \in Below(d)
    BY <1>1, BelowFacts
  <1>4. G = Below(d) \ {d}
    BY DEF RemoveAll
  <1> HIDE DEF G
  <1>5. \A s : \A e \in Entries(s) : e.sector # d
    BY <1>1 DEF DiskInv, Sound, Entries
  <1>6. G \in SUBSET (DOMAIN headers \ SystemFiles) /\ G \in SUBSET G
    BY <1>3, <1>4
  <1>7. Closed(G)
    BY <1>3, <1>4, <1>5 DEF Closed
  <1>8. DOMAIN tables' = DOMAIN tables \ G
    BY <1>2 DEF Kept
  <1>9. ASSUME NEW s \in DOMAIN tables \ G
        PROVE  tables'[s] = {e \in tables[s] : e.sector \notin G}
    <2>1. CASE s = d
      <3>1. \A e \in tables[d] : e.sector \in G
        BY <1>3, <1>4, <1>5, <2>1 DEF Closed, Entries
      <3> QED
        BY <1>2, <2>1, <3>1 DEF Kept
    <2>2. CASE s # d
      <3>1. \A e \in tables[s] : e.sector \notin G
        BY <1>3, <1>4, <2>2
      <3> QED
        BY <1>2, <2>2, <3>1 DEF Kept
    <2> QED
      BY <2>1, <2>2
  <1> QED
    BY <1>2, <1>6, <1>7, <1>8, <1>9, RemovalInvariant

(* A directory goes, with everything below it and the entry for it; its own *)
(* sectors are not freed.                                                   *)
LEMMA RemoveBelowInvariant ==
    ASSUME DiskInv, NEW d \in DOMAIN headers \ SystemFiles, NEW p \in DOMAIN tables, NEW filename,
           NEW e0 \in tables[p], Matches(e0, filename, DIR), e0.sector = d,
           RemoveDir(d, p, filename)
    PROVE  DiskInv'
  <1> DEFINE F == RemoveAll(d)
             G == F \cup {d}
  <1>1. p # INVALID_SECTOR
    BY SectorFacts DEF DiskInv
  <1>2. /\ freeMap' = freeMap \ UNION {Returned(s) : s \in F}
        /\ headers' = [s \in DOMAIN headers \ G |-> headers[s]]
        /\ DOMAIN tables' = DOMAIN tables \ G
        /\ \A s \in DOMAIN tables' \ {p} : tables'[s] = tables[s]
        /\ p \in DOMAIN tables' => tables'[p] = Unlink(tables[p], filename, DIR)
    <2>1. d \in DOMAIN headers
      OBVIOUS
    <2>2. freeMap' = freeMap \ UNION {Returned(s) : s \in RemoveAll(d)}
      BY <2>1, RemoveDirSucceeds
    <2>3. headers' = [s \in DOMAIN headers \ (RemoveAll(d) \cup {d}) |-> headers[s]]
      BY <1>1, <2>1, RemoveDirSucceeds
    <2>4. DOMAIN tables' = DOMAIN tables \ (RemoveAll(d) \cup {d})
      BY <1>1, <2>1, RemoveDirSucceeds
    <2>5. \A s \in DOMAIN tables' \ {p} : tables'[s] = tables[s]
      BY <1>1, <2>1, RemoveDirSucceeds
    <2>6. p \in DOMAIN tables' => tables'[p] = Unlink(tables[p], filename, DIR)
      BY ZenonT(30), <1>1, <2>1, RemoveDirSucceeds
    <2> QED
      BY <2>2, <2>3, <2>4, <2>5, <2>6
  <1>3. /\ d \in Below(d) /\ Below(d) \subseteq DOMAIN headers
        /\ Closed(Below(d))
        /\ (Below(d) \ {d}) \cap SystemFiles = {}
        /\ \A s \in DOMAIN tables : \A e \in tables[s] :
               e.sector \in Below(d) \ {d} => s \in Below(d)
    BY BelowFacts
  <1>4. G = Below(d) /\ F \in SUBSET G
    BY <1>3 DEF RemoveAll
  <1> HIDE DEF F, G
  <1>5. G \in SUBSET (DOMAIN headers \ SystemFiles)
    BY <1>3, <1>4
  <1>6. Closed(G)
    BY <1>3, <1>4
  <1>7. ASSUME NEW s \in DOMAIN tables \ G
        PROVE  tables'[s] = {e \in tables[s] : e.sector \notin G}
    <2>1. tables'[s] = IF s = p THEN Unlink(tables[s], filename, DIR) ELSE tables[s]
      BY <1>2
    <2>2. ASSUME NEW e \in tables[s]
          PROVE  e.sector \in G <=> s = p /\ Matches(e, filename, DIR)
      <3>1. e.sector \in G => e.sector = d
        BY <1>3, <1>4, <1>7
      <3>2. e.sector = d => s = p /\ e = e0
        BY DEF DiskInv, Sound
      <3>3. s = p /\ Matches(e, filename, DIR) => Matches(e0, e.name, e.isDir)
        BY DEF Matches
      <3>4. s = p /\ Matches(e, filename, DIR) => e0 = e
        BY <3>3 DEF DiskInv, Sound
      <3> QED
        BY <1>3, <1>4, <3>1, <3>2, <3>4
    <2> QED
      BY <2>1, <2>2 DEF Unlink
  <1> QED
    BY <1>2, <1>4, <1>5, <1>6, <1>7, RemovalInvariant

(* Remove with the flag for recursive removal. *)
LEMMA RecursivelyRemoveInvariant ==
    ASSUME IInv, NEW path \in Path, recursivelyRemove(path)
    PROVE  IInv'
  <1>1. PICK finder \in Finder(path, DIR) :
            \/ RemoveOne(path)
            \/ Abort /\ UNCHANGED disk
            \/ /\ finder.exist /\ finder.fhSector # INVALID_SECTOR
               /\ RemoveDir(finder.fhSector, finder.pFhSector, finder.filename)
    BY DEF recursivelyRemove
  <1>2. CASE RemoveOne(path)
    BY <1>2, RemoveOneInvariant
  <1>3. CASE Abort /\ UNCHANGED disk
    BY <1>3, DiskUnchanged, EndOfProcessInvariant DEF IInv, Abort
  <1>4. CASE /\ finder.exist /\ finder.fhSector # INVALID_SECTOR
             /\ RemoveDir(finder.fhSector, finder.pFhSector, finder.filename)
    <2> DEFINE d == finder.fhSector
               p == finder.pFhSector
               name == finder.filename
    <2>1. DIR \in BOOLEAN
      BY Zenon DEF DIR
    <2>2. \/ d = DirectorySector /\ p = INVALID_SECTOR
          \/ /\ p \in DOMAIN tables
             /\ d \in DOMAIN headers \ SystemFiles
             /\ \E e \in tables[p] : Matches(e, name, DIR) /\ e.sector = d
      BY <1>4, <2>1, FinderFacts DEF IInv
    <2>3. RemoveDir(d, p, name)
      BY <1>4
    <2> HIDE DEF d, p, name
    <2>4. d \in DOMAIN headers
      BY <2>2 DEF IInv, DiskInv, SystemFiles
    <2>5. Returns("ok")
      BY <2>3, <2>4, RemoveDirSucceeds DEF IInv
    <2>6. CASE d = DirectorySector /\ p = INVALID_SECTOR
      <3>1. RemoveDir(DirectorySector, INVALID_SECTOR, name)
        BY <2>3, <2>6
      <3>2. DiskInv'
        BY <3>1, RemoveRootInvariant DEF IInv
      <3> QED
        BY <2>5, <3>2, ReturnsInvariant DEF IInv
    <2>7. CASE /\ p \in DOMAIN tables
               /\ d \in DOMAIN headers \ SystemFiles
               /\ \E e \in tables[p] : Matches(e, name, DIR) /\ e.sector = d
      <3>1. DiskInv'
        BY <2>3, <2>7, RemoveBelowInvariant DEF IInv
      <3> QED
        BY <2>5, <3>1, ReturnsInvariant DEF IInv
    <2> QED
      BY <2>2, <2>6, <2>7
  <1> QED
    BY <1>1, <1>2, <1>3, <1>4

(* The commands that only read the disk. *)
LEMMA ReadingInvariant ==
    ASSUME IInv, NEW path \in Path, List(path) \/ PrintHeader(path)
    PROVE  IInv'
  <1>1. UNCHANGED disk /\ (Abort \/ Returns("ok") \/ Returns("no"))
    BY DEF List, PrintHeader
  <1>2. DiskInv' /\ headers' = headers
    BY <1>1, DiskUnchanged DEF IInv
  <1> QED
    BY <1>1, <1>2, EndOfProcessInvariant, ReturnsInvariant DEF IInv, Abort

(* The system calls that open, read and close files. *)
LEMMA OpenCloseInvariant ==
    ASSUME IInv, UNCHANGED disk,
           \/ \E path \in Path : OpenAFile(path)
           \/ \E id \in FileId \cup {-1} : CloseFile(id)
           \/ \E id \in FileId \cup {-1}, size \in InitialSize : ReadFile(size, id)
    PROVE  IInv'
  <1>1. DiskInv'
    BY DiskUnchanged DEF IInv
  <1>2. CASE Returns("no") \/ Returns("ok")
    BY <1>1, <1>2, ReturnsInvariant DEF IInv
  <1>3. CASE Abort
    BY <1>1, <1>3, EndOfProcessInvariant DEF IInv, Abort
  <1>4. ASSUME NEW id \in FileId, NEW f \in Sector \cup {INVALID_SECTOR},
               OpenFileTable' = [OpenFileTable EXCEPT ![id] = f],
               outcome' = "ok", UNCHANGED running
        PROVE  IInv'
    <2>1. OpenFileTable' \in [FileId -> Sector \cup {INVALID_SECTOR}]
      BY <1>4 DEF IInv, ProcessInv
    <2> QED
      BY <1>1, <1>4, <2>1 DEF IInv, ProcessInv, Sector, FileId, INVALID_SECTOR
  <1>5. ASSUME NEW path \in Path, OpenAFile(path)
        PROVE  IInv'
    <2>1. PICK file \in Finder(path, FILE), dir \in Finder(path, DIR) :
              LET f == IF file.exist THEN file.fhSector ELSE dir.fhSector
              IN  \/ Returns("no")
                  \/ Abort
                  \/ /\ path # RootPath /\ f # INVALID_SECTOR
                     /\ \E id \in FileId : /\ OpenFileTable' = [OpenFileTable EXCEPT ![id] = f]
                                           /\ outcome' = "ok"
                                           /\ UNCHANGED running
      BY <1>5 DEF OpenAFile
    <2> DEFINE f == IF file.exist THEN file.fhSector ELSE dir.fhSector
    <2>2. FILE \in BOOLEAN /\ DIR \in BOOLEAN
      BY Zenon DEF FILE, DIR
    <2>3. path # RootPath /\ f # INVALID_SECTOR => f \in DOMAIN headers
      BY <2>2, FinderFacts DEF IInv
    <2> HIDE DEF f
    <2>4. f \in DOMAIN headers => f \in Sector
      BY DEF IInv, DiskInv
    <2> QED
      BY <1>2, <1>3, <1>4, <2>1, <2>3, <2>4 DEF f
  <1>6. ASSUME NEW id \in FileId \cup {-1}, CloseFile(id)
        PROVE  IInv'
    BY <1>2, <1>4, <1>6 DEF CloseFile, isValidFileId
  <1>7. ASSUME NEW id \in FileId \cup {-1}, NEW size \in InitialSize, ReadFile(size, id)
        PROVE  IInv'
    BY <1>2, <1>7 DEF ReadFile
  <1> QED
    BY <1>5, <1>6, <1>7

(* A write to a regular file, and to a directory. *)
LEMMA WriteInvariant ==
    ASSUME IInv, NEW id \in FileId \cup {-1}, NEW size \in InitialSize, WriteFile_(size, id)
    PROVE  IInv' \/ Overwritten'
  <1>1. CASE (Returns("no") \/ Returns("ok")) /\ UNCHANGED disk
    BY <1>1, DiskUnchanged, ReturnsInvariant DEF IInv
  <1>2. ASSUME isValidFileId(id), OpenFileTable[id] \in DOMAIN tables, NEW table \in Written,
               tables' = [tables EXCEPT ![OpenFileTable[id]] = table],
               outcome' = "overwritten",
               UNCHANGED <<freeMap, headers, OpenFileTable, running>>
        PROVE  Overwritten'
    <2>1. table \in SUBSET Entry
      BY <1>2, SectorFacts DEF Written, Entry
    <2>2. /\ DOMAIN tables' = DOMAIN tables
          /\ \A d \in DOMAIN tables : tables'[d] \in SUBSET Entry
      BY <1>2, <2>1 DEF IInv, DiskInv
    <2>3. NoSharedSector'
      BY <1>2 DEF IInv, DiskInv, NoSharedSector, SectorsOf
    <2>4. TypeOK'
      BY <1>2, <2>2 DEF IInv, DiskInv, ProcessInv, TypeOK, Sector, Header, Entry, FileId,
         INVALID_SECTOR
    <2> QED
      BY <1>2, <2>3, <2>4 DEF Overwritten
  <1> QED
    BY <1>1, <1>2 DEF WriteFile_

(* A formatted disk. *)
LEMMA FormattedInvariant == Formatted(freeMap, headers, tables) => DiskInv
  <1> SUFFICES ASSUME Formatted(freeMap, headers, tables)
               PROVE  DiskInv
    OBVIOUS
  <1> DEFINE mapHdr == Allocate(Sector \ SystemFiles, FreeMapFileSize)
             used == SystemFiles \cup mapHdr.index \cup mapHdr.data
             dirHdr == Allocate(Sector \ used, DirectoryFileSize)
  <1>1. /\ freeMap = used \cup dirHdr.index \cup dirHdr.data
        /\ headers = [s \in SystemFiles |-> IF s = FreeMapSector THEN mapHdr ELSE dirHdr]
        /\ tables = [s \in {DirectorySector} |-> {}]
    BY DEF Formatted
  <1>2. /\ mapHdr \in Header
        /\ mapHdr.index \subseteq Sector \ SystemFiles
        /\ mapHdr.data \subseteq Sector \ SystemFiles
    BY AllocateFacts
  <1>3. /\ dirHdr \in Header
        /\ dirHdr.index \subseteq Sector \ used
        /\ dirHdr.data \subseteq Sector \ used
    BY AllocateFacts
  <1> HIDE DEF mapHdr, dirHdr
  <1>4. FreeMapSector # DirectorySector
    BY DEF FreeMapSector, DirectorySector
  <1>5. /\ DOMAIN headers = {FreeMapSector, DirectorySector}
        /\ headers[FreeMapSector] = mapHdr /\ headers[DirectorySector] = dirHdr
        /\ DOMAIN tables = {DirectorySector} /\ tables[DirectorySector] = {}
    BY <1>1, <1>4 DEF SystemFiles
  <1>6. NoSharedSector
    <2>1. SectorsOf(FreeMapSector, mapHdr) \cap SectorsOf(DirectorySector, dirHdr) = {}
      BY <1>2, <1>3, <1>4 DEF SectorsOf, SystemFiles
    <2>2. /\ SectorsOf(FreeMapSector, mapHdr) \subseteq freeMap
          /\ SectorsOf(DirectorySector, dirHdr) \subseteq freeMap
      BY <1>1 DEF SectorsOf, SystemFiles
    <2> QED
      BY <1>5, <2>1, <2>2 DEF NoSharedSector
  <1>7. Sound
    BY <1>5 DEF Sound
  <1>8. Connected
    <2>1. Closed({DirectorySector})
      BY <1>5 DEF Closed, Entries
    <2> QED
      BY <1>4, <1>5, <2>1 DEF Connected, Below
  <1>9. /\ freeMap \in SUBSET Sector
        /\ DOMAIN headers \subseteq Sector
        /\ \A s \in DOMAIN headers : headers[s] \in Header
    BY <1>1, <1>2, <1>3, <1>5, SectorFacts DEF SystemFiles
  <1> QED
    BY <1>4, <1>5, <1>6, <1>7, <1>8, <1>9 DEF DiskInv, SystemFiles

(* The first process, and a later one that formats the disk. *)
LEMMA InitInvariant == Init => IInv
  <1> SUFFICES ASSUME Init
               PROVE  IInv
    OBVIOUS
  <1>1. DiskInv
    BY FormattedInvariant DEF Init
  <1>2. running \in BOOLEAN
    BY Zenon DEF Init
  <1> QED
    BY <1>1, <1>2 DEF Init, IInv, ProcessInv

LEMMA FormatInvariant == Format => IInv'
  <1>1. Formatted(freeMap, headers, tables)' => DiskInv'
    BY FormattedInvariant, PTL
  <1>2. Format => Formatted(freeMap, headers, tables)'
    BY DEF Format, Formatted
  <1>3. Format => ProcessInv'
    BY EndOfProcessInvariant DEF Format
  <1> QED
    BY <1>1, <1>2, <1>3 DEF IInv

(***************************************************************************)
(* The inductive invariant: the directories form a tree of files that      *)
(* share no sector, after any history of commands, system calls, failed    *)
(* ASSERTs, restarts and formats, until a program writes to a directory    *)
(* that it has opened; from then until the next format nothing but the     *)
(* tables has changed.                                                     *)
(***************************************************************************)
THEOREM FileSystemInvariant == Spec => [](IInv \/ Overwritten)
  <1>1. IInv /\ [Next]_vars => (IInv \/ Overwritten)'
    <2> SUFFICES ASSUME IInv, [Next]_vars
                 PROVE  IInv' \/ Overwritten'
      OBVIOUS
    <2>1. CASE Command
      <3>1. PICK path \in Path : \/ \E size \in InitialSize : Create(path, size)
                                 \/ Mkdir(path)
                                 \/ RemoveOne(path)
                                 \/ recursivelyRemove(path)
                                 \/ List(path)
                                 \/ PrintHeader(path)
        BY <2>1 DEF Command
      <3>2. FILE \in BOOLEAN /\ DIR \in BOOLEAN
        BY Zenon DEF FILE, DIR
      <3>3. CASE \E size \in InitialSize : Create(path, size)
        BY <3>2, <3>3, CreateInvariant DEF Create
      <3>4. CASE Mkdir(path)
        BY <3>2, <3>4, CreateInvariant DEF Mkdir
      <3>5. CASE RemoveOne(path)
        BY <3>5, RemoveOneInvariant
      <3>6. CASE recursivelyRemove(path)
        BY <3>6, RecursivelyRemoveInvariant
      <3>7. CASE List(path) \/ PrintHeader(path)
        BY <3>7, ReadingInvariant
      <3> QED
        BY <3>1, <3>3, <3>4, <3>5, <3>6, <3>7
    <2>2. CASE ExecAll
      <3>1. UNCHANGED disk
        BY <2>2 DEF ExecAll, disk
      <3>2. DiskInv' /\ headers' = headers
        BY <3>1, DiskUnchanged DEF IInv
      <3>3. running' \in BOOLEAN
        BY <2>2, Zenon DEF ExecAll
      <3> QED
        BY <2>2, <3>2, <3>3 DEF IInv, ExecAll, ProcessInv, Sector, FileId, INVALID_SECTOR
    <2>3. CASE SystemCall
      <3>1. CASE \E path \in Path, size \in InitialSize : Create(path, size)
        <4>1. FILE \in BOOLEAN
          BY Zenon DEF FILE
        <4> QED
          BY <3>1, <4>1, CreateInvariant DEF Create
      <3>2. CASE \E path \in Path : OpenAFile(path) /\ UNCHANGED disk
        BY <3>2, OpenCloseInvariant
      <3>3. CASE \E id \in FileId \cup {-1} : CloseFile(id) /\ UNCHANGED disk
        BY <3>3, OpenCloseInvariant
      <3>4. CASE \E id \in FileId \cup {-1}, size \in InitialSize : ReadFile(size, id) /\ UNCHANGED disk
        BY <3>4, OpenCloseInvariant
      <3>5. CASE \E id \in FileId \cup {-1}, size \in InitialSize : WriteFile_(size, id)
        BY <3>5, WriteInvariant
      <3> QED
        BY <2>3, <3>1, <3>2, <3>3, <3>4, <3>5 DEF SystemCall
    <2>4. CASE Restart
      <3>1. UNCHANGED disk /\ EndOfProcess /\ outcome' = outcome
        BY <2>4 DEF Restart, disk
      <3>2. DiskInv'
        BY <3>1, DiskUnchanged DEF IInv
      <3>3. outcome' \in {"ok", "no", "abort"}
        BY <3>1 DEF IInv, ProcessInv
      <3> QED
        BY <3>1, <3>2, <3>3, EndOfProcessInvariant DEF IInv
    <2>5. CASE Format
      BY <2>5, FormatInvariant
    <2>6. CASE UNCHANGED vars
      <3>1. UNCHANGED disk /\ UNCHANGED process /\ outcome' = outcome
        BY <2>6 DEF vars, disk, process
      <3>2. DiskInv'
        BY <3>1, DiskUnchanged DEF IInv
      <3> QED
        BY <3>1, <3>2 DEF IInv, process, ProcessInv, Sector, FileId, INVALID_SECTOR
    <2> QED
      BY <2>1, <2>2, <2>3, <2>4, <2>5, <2>6 DEF Next
  <1>2. Overwritten /\ [Next]_vars => (IInv \/ Overwritten)'
    <2> SUFFICES ASSUME Overwritten, [Next]_vars
                 PROVE  IInv' \/ Overwritten'
      OBVIOUS
    <2>1. Format \/ UNCHANGED vars
      BY DEF Overwritten, Next, Command, ExecAll, SystemCall, Restart, Intact
    <2>2. CASE UNCHANGED vars
      BY <2>2 DEF vars, Overwritten, TypeOK, NoSharedSector, SectorsOf, Sector, Header, Entry,
                  FileId, INVALID_SECTOR
    <2> QED
      BY <2>1, <2>2, FormatInvariant
  <1> QED
    BY <1>1, <1>2, InitInvariant, PTL DEF Spec

(* No sector belongs to two files or is free while a file holds it. *)
THEOREM SectorsAreNotShared == Spec => []NoSharedSector
  <1>1. IInv \/ Overwritten => NoSharedSector
    BY DEF IInv, DiskInv, Overwritten
  <1> QED
    BY <1>1, FileSystemInvariant, PTL

(* Entries refer to existing files of their kind, one entry to each, until  *)
(* a program writes to a directory that it has opened.                      *)
THEOREM DirectoriesAreSound == Spec => []TreeIsSound
  <1>1. IInv \/ Overwritten => TreeIsSound
    BY DEF IInv, DiskInv, Overwritten, TreeIsSound, Intact
  <1> QED
    BY <1>1, FileSystemInvariant, PTL

(* Removal of a directory leaves nothing behind that cannot be reached,     *)
(* again until a program writes to a directory.                             *)
THEOREM NothingIsLost == Spec => []AllReachable
  <1>1. IInv \/ Overwritten => AllReachable
    BY DEF IInv, DiskInv, Overwritten, AllReachable, Intact
  <1> QED
    BY <1>1, FileSystemInvariant, PTL

(* The ASSERTs on the sectors that Remove and RemoveAll return never fail. *)
THEOREM RemovalNeverAborts == Spec => []RemovalSucceeds
  <1>1. IInv \/ Overwritten => RemovalSucceeds
    BY DEF IInv, ProcessInv, Overwritten, RemovalSucceeds
  <1> QED
    BY <1>1, FileSystemInvariant, PTL

(* The variables have their types. *)
THEOREM FileSystemTypes == Spec => []TypeOK
  <1>1. IInv \/ Overwritten => TypeOK
    BY DEF IInv, DiskInv, ProcessInv, Overwritten, TypeOK
  <1> QED
    BY <1>1, FileSystemInvariant, PTL
=============================================================================
