----------------------------- MODULE FileSystem -----------------------------
(***************************************************************************)
(* The file system (filesys/filesys.cc, directory.cc): a tree of           *)
(* directories and files on a disk whose free sectors are kept in a        *)
(* bitmap.  One nachos process runs the commands of its command line, then *)
(* user programs, which create, open, read, write and close files; the     *)
(* disk outlives the process.  An operation is one step: the code "assumes *)
(* there is no concurrent access to the file system".  A failed ASSERT     *)
(* ends the process; all of them come before the operation writes to the   *)
(* disk, except one in recursivelyRemove.                                  *)
(*                                                                         *)
(* A program that opens a directory may write to it, and so put anything   *)
(* into its table.  What the code does with such a table is not modelled:  *)
(* the next step is then to format the disk again.                         *)
(*                                                                         *)
(* A header is abstracted to the sets of its index and data sectors, the   *)
(* table of a directory to the set of its entries in use.  The headers and *)
(* tables of removed files are forgotten: nothing on the disk refers to    *)
(* them any more (TreeIsSound).                                            *)
(***************************************************************************)
EXTENDS FileLayout, Sequences

CONSTANTS NumSectors, FreeMapFileSize, DirectoryFileSize,
          NumDirEntries,     \* entries of a directory
          FILE_OPEN_LIMIT,   \* entries of OpenFileTable
          Name,              \* the names that occur in paths
          FileSize,          \* the sizes of the files created
          MaxDepth,          \* bound of the model: names in a path
          RootPath,          \* the path "/"
          LongPath           \* a path of PATH_NAME_MAX_LEN characters or more

(* The disk is large enough for the two files of the system: the ASSERTs of *)
(* the constructor.                                                         *)
ASSUME FileSystemAssumption ==
    /\ NumSectors \in Nat \ {0, 1} /\ NumDirEntries \in Nat /\ FILE_OPEN_LIMIT \in Nat /\ MaxDepth \in Nat
    /\ FreeMapFileSize \in Nat /\ DirectoryFileSize \in Nat /\ FileSize \subseteq Nat
    /\ 2 + SectorsFor(FreeMapFileSize) + SectorsFor(DirectoryFileSize) <= NumSectors

DIR == TRUE
FILE == FALSE
INVALID_SECTOR == -1
FreeMapSector == 0
DirectorySector == 1
SystemFiles == {FreeMapSector, DirectorySector}
Sector == 0..(NumSectors - 1)
FileId == 0..(FILE_OPEN_LIMIT - 1)

(* What splitPath makes of a path, the part before the first '/' dropped:   *)
(* << >> if it contains no '/'.                                             *)
Tokens == UNION {[1..n -> Name] : n \in 0..MaxDepth}
Path == Tokens \cup {RootPath, LongPath}

Entry == [name : Name, isDir : BOOLEAN, sector : Sector]
Header == [index : SUBSET Sector, data : SUBSET Sector]

VARIABLES freeMap,        \* the bitmap file: the sectors in use
          headers,        \* the header in each header sector
          tables,         \* the entries of each directory
          OpenFileTable,  \* header sector of each open file
          running,        \* user programs are running
          outcome         \* of the last operation

disk == <<freeMap, headers, tables>>
process == <<OpenFileTable, running>>
vars == <<freeMap, headers, tables, OpenFileTable, running, outcome>>

-----------------------------------------------------------------------------
(* The k first free sectors, those that k calls of FindAndSet return. *)
FirstFree(free, k) == {s \in free : Cardinality({t \in free : t < s}) < k}

(* FileHeader::Allocate, when there is space (see module FileHeader). *)
Allocate(free, size) ==
    LET taken == FirstFree(free, SectorsFor(size))
        IsIndex(s) == Cardinality({t \in taken : t < s}) \in IndexPositions[size]
    IN  [index |-> {s \in taken : IsIndex(s)}, data |-> {s \in taken : ~IsIndex(s)}]

SectorsOf(s, h) == {s} \cup h.index \cup h.data

(* FileSystem(TRUE) formats the disk. *)
Formatted(fm, hdrs, tbls) ==
    LET mapHdr == Allocate(Sector \ SystemFiles, FreeMapFileSize)
        used == SystemFiles \cup mapHdr.index \cup mapHdr.data
        dirHdr == Allocate(Sector \ used, DirectoryFileSize)
    IN  /\ fm = used \cup dirHdr.index \cup dirHdr.data
        /\ hdrs = [s \in SystemFiles |-> IF s = FreeMapSector THEN mapHdr ELSE dirHdr]
        /\ tbls = [s \in {DirectorySector} |-> {}]

Init == /\ Formatted(freeMap, headers, tables)
        /\ OpenFileTable = [id \in FileId |-> INVALID_SECTOR]
        /\ running = FALSE
        /\ outcome = "ok"

-----------------------------------------------------------------------------
(* Directory::Find *)
Matches(e, name, isDir) == e.name = name /\ e.isDir = isDir
Entries(d) == IF d \in DOMAIN tables THEN tables[d] ELSE {}
Find(d, name, isDir) == IF \E e \in Entries(d) : Matches(e, name, isDir)
                        THEN (CHOOSE e \in Entries(d) : Matches(e, name, isDir)).sector
                        ELSE INVALID_SECTOR

(* Directory::Add succeeds. *)
Addable(d, name, isDir) == /\ Find(d, name, isDir) = INVALID_SECTOR
                           /\ Cardinality(Entries(d)) < NumDirEntries

(* Directory::Remove *)
Unlink(table, name, isDir) == {e \in table : ~Matches(e, name, isDir)}

(***************************************************************************)
(* FileFinder::find.  The directories that the loop visits: it looks for   *)
(* name i in directory Visited(dirs, i).  Once one is missing the rest is  *)
(* INVALID_SECTOR; the loop then leaves pFhSector at the last directory    *)
(* that it did find.                                                       *)
(***************************************************************************)
Visited(dirs, i) == IF i = 1 THEN DirectorySector ELSE dirs[i]

Walks(path) == {dirs \in [2..Len(path) -> DOMAIN tables \cup {INVALID_SECTOR}] :
                    \A i \in 2..Len(path) : dirs[i] = Find(Visited(dirs, i - 1), path[i - 1], DIR)}

LastVisited(path, dirs) ==
    CHOOSE d \in DOMAIN tables :
        \E i \in 1..Len(path) : /\ d = Visited(dirs, i)
                                /\ \A j \in (i + 1)..Len(path) : dirs[j] = INVALID_SECTOR

(* Mutant: the name of the file is the whole path. *)
Found_WholePath(path, isDir, dirs) ==
    LET leaf == Find(Visited(dirs, Len(path)), path[Len(path)], isDir)
    IN  [exist |-> leaf # INVALID_SECTOR, pFhSector |-> LastVisited(path, dirs),
         fhSector |-> leaf, filename |-> path]

Found(path, isDir, dirs) ==
    LET leaf == Find(Visited(dirs, Len(path)), path[Len(path)], isDir)
    IN  [exist |-> leaf # INVALID_SECTOR, pFhSector |-> LastVisited(path, dirs),
         fhSector |-> leaf, filename |-> path[Len(path)]]

Nowhere(exist, fhSector) == [exist |-> exist, pFhSector |-> INVALID_SECTOR,
                             fhSector |-> fhSector, filename |-> CHOOSE n \in Name : TRUE]

(* The result of find, as a set with one element. *)
Finder(path, isDir) ==
    IF path = LongPath THEN {Nowhere(FALSE, INVALID_SECTOR)}
    ELSE IF path = RootPath THEN {Nowhere(TRUE, DirectorySector)}
    ELSE IF path = << >> THEN {Nowhere(TRUE, INVALID_SECTOR)}
    ELSE {Found(path, isDir, dirs) : dirs \in Walks(path)}

-----------------------------------------------------------------------------
(* How an operation ends.  After an abort a new process starts. *)
Returns(answer) == outcome' = answer /\ UNCHANGED process
EndOfProcess == /\ OpenFileTable' = [id \in FileId |-> INVALID_SECTOR]
                /\ running' = FALSE
Abort == outcome' = "abort" /\ EndOfProcess

(* FileSystem::createFileOrDir.  When space runs out it aborts: in           *)
(* FindAndSet or in ASSERT(fh->Allocate(...)).  Allocate ignores the FALSE   *)
(* of a child.  That takes a disk smaller than the largest file: the real    *)
(* one has 2^20 sectors, a file at most 30^4 and their index sectors.        *)
createFileOrDir(path, isDir, initialSize) ==
    \E finder \in Finder(path, isDir) :
        LET free == Sector \ freeMap
            size == IF isDir THEN DirectoryFileSize ELSE initialSize
            p == finder.pFhSector
        IN  IF path = RootPath /\ ~isDir THEN Abort /\ UNCHANGED disk     \* ASSERT(isDir)
            ELSE IF finder.exist THEN Returns("no") /\ UNCHANGED disk
            ELSE IF \/ p = INVALID_SECTOR                                 \* the other ASSERTs
                    \/ ~Addable(p, finder.filename, isDir)
                    \/ size < 0
                    \/ ~Supported(size)
                    \/ Cardinality(free) < 1 + SectorsFor(size)
                 THEN Abort /\ UNCHANGED disk
            ELSE \E sector \in FirstFree(free, 1) :
                    LET fh == Allocate(free \ {sector}, size)
                        entry == [name |-> finder.filename, isDir |-> isDir, sector |-> sector]
                        pTable == [tables EXCEPT ![p] = @ \cup {entry}]
                    IN  /\ freeMap' = freeMap \cup SectorsOf(sector, fh)
                        /\ headers' = [s \in DOMAIN headers \cup {sector} |->
                                          IF s = sector THEN fh ELSE headers[s]]
                        /\ tables' = IF isDir
                                     THEN [d \in DOMAIN tables \cup {sector} |->
                                              IF d = sector THEN {} ELSE pTable[d]]
                                     ELSE pTable
                        /\ Returns("ok")

Create(path, initialSize) == createFileOrDir(path, FILE, initialSize)
Mkdir(path) == createFileOrDir(path, DIR, -1)

-----------------------------------------------------------------------------
(* What returnSectorsToFreeMap gives back for the header in sector s: the   *)
(* sector and the data sectors, not the index sectors.                      *)
Returned(s) == {s} \cup headers[s].data

(* The ASSERTs that every sector returned is marked, and so not returned    *)
(* twice.                                                                   *)
Returnable(S) == /\ \A s \in S : Returned(s) \subseteq freeMap
                 /\ \A s, t \in S : s # t => Returned(s) \cap Returned(t) = {}

(* Mutants: the directory is not written back; the entries of both kinds    *)
(* with the name are removed from it.                                       *)
RemoveOne_NoWriteBack(path) ==
    \E finder \in Finder(path, FILE) :
        LET f == finder.fhSector
        IN  IF path = RootPath THEN Abort /\ UNCHANGED disk
            ELSE IF ~finder.exist THEN Returns("no") /\ UNCHANGED disk
            ELSE IF f = INVALID_SECTOR \/ ~Returnable({f}) THEN Abort /\ UNCHANGED disk
            ELSE /\ freeMap' = freeMap \ Returned(f)
                 /\ UNCHANGED <<headers, tables>>
                 /\ Returns("ok")

RemoveOne_OfDirectory(path) ==
    \E finder \in Finder(path, DIR) :
        LET f == finder.fhSector
            p == finder.pFhSector
        IN  IF path = RootPath THEN Abort /\ UNCHANGED disk
            ELSE IF ~finder.exist THEN Returns("no") /\ UNCHANGED disk
            ELSE IF f = INVALID_SECTOR \/ ~Returnable({f}) THEN Abort /\ UNCHANGED disk
            ELSE /\ freeMap' = freeMap \ Returned(f)
                 /\ headers' = [s \in DOMAIN headers \ {f} |-> headers[s]]
                 /\ tables' = [d \in DOMAIN tables \ {f} |->
                                  IF d = p THEN Unlink(tables[d], finder.filename, DIR) ELSE tables[d]]
                 /\ Returns("ok")

(* FileSystem::Remove(name, FALSE) *)
RemoveOne(path) ==
    \E finder \in Finder(path, FILE) :
        LET f == finder.fhSector
            p == finder.pFhSector
        IN  IF path = RootPath THEN Abort /\ UNCHANGED disk                \* ASSERT(isDir)
            ELSE IF ~finder.exist THEN Returns("no") /\ UNCHANGED disk
            ELSE IF f = INVALID_SECTOR THEN Abort /\ UNCHANGED disk        \* Test(-1)
            ELSE IF ~Returnable({f}) THEN outcome' = "lost" /\ EndOfProcess /\ UNCHANGED disk
            ELSE /\ freeMap' = freeMap \ Returned(f)
                 /\ headers' = [s \in DOMAIN headers \ {f} |-> headers[s]]
                 /\ tables' = [tables EXCEPT ![p] = Unlink(@, finder.filename, FILE)]
                 /\ Returns("ok")

(* The header sectors of directory d and of everything below it: the least *)
(* set that contains d and is closed under the entries of directories.     *)
Closed(S) == \A d \in S : \A e \in Entries(d) : e.sector \in S
Below(d) == {s \in DOMAIN headers : \A S \in SUBSET DOMAIN headers : d \in S /\ Closed(S) => s \in S}

(* Mutants: only the entries of the directory itself; the directory too. *)
RemoveAll_OneLevel(d) == {e.sector : e \in Entries(d)}

RemoveAll_Itself(d) == IF d = DirectorySector THEN Below(d) \ {d} ELSE Below(d)

(* Directory::RemoveAll: the files whose sectors it returns. *)
RemoveAll(d) == Below(d) \ {d}

(* Mutant: dir->WriteBack is missing. *)
Kept_NotWritten(S, d) == [s \in DOMAIN tables \ S |-> tables[s]]

(* The tables after the files in S are removed and d is written back empty. *)
Kept(S, d) == [s \in DOMAIN tables \ S |-> IF s = d THEN {} ELSE tables[s]]

(***************************************************************************)
(* FileSystem::recursivelyRemove of a directory.  RemoveAll returns the    *)
(* sectors of everything below it, and the bitmap is written; what the     *)
(* directory itself occupies is returned in memory only, after that.       *)
(***************************************************************************)
RemoveDir(d, p, filename) ==
    LET gone == RemoveAll(d)
        without(S) == [s \in DOMAIN headers \ S |-> headers[s]]
    IN  IF ~Returnable(gone) THEN outcome' = "lost" /\ EndOfProcess /\ UNCHANGED disk
        ELSE /\ freeMap' = freeMap \ UNION {Returned(s) : s \in gone}
             /\ IF p = INVALID_SECTOR
                THEN headers' = without(gone) /\ tables' = Kept(gone, d) /\ Returns("ok")
                ELSE IF ~(Returned(d) \subseteq freeMap')
                THEN /\ headers' = without(gone) /\ tables' = Kept(gone, d)
                     /\ outcome' = "lost" /\ EndOfProcess
                ELSE /\ headers' = without(gone \cup {d})
                     /\ tables' = [Kept(gone \cup {d}, d) EXCEPT ![p] = Unlink(@, filename, DIR)]
                     /\ Returns("ok")

(* FileSystem::Remove(name, TRUE) *)
recursivelyRemove(path) ==
    \E finder \in Finder(path, DIR) :
        IF ~finder.exist THEN RemoveOne(path)
        ELSE IF finder.fhSector = INVALID_SECTOR THEN Abort /\ UNCHANGED disk  \* FetchFrom(-1)
        ELSE RemoveDir(finder.fhSector, finder.pFhSector, finder.filename)

(* FileSystem::List, which ends in its ASSERT for a path without '/'. *)
List(path) == \E finder \in Finder(path, DIR) :
                 /\ IF ~finder.exist THEN Returns("no")
                    ELSE IF finder.fhSector = INVALID_SECTOR THEN Abort
                    ELSE Returns("ok")
                 /\ UNCHANGED disk

(* FileSystem::PrintHeader, which ends in its ASSERT for a missing file. *)
PrintHeader(path) == \E dir \in Finder(path, DIR), file \in Finder(path, FILE) :
                        LET f == IF dir.exist THEN dir.fhSector ELSE file.fhSector
                        IN  /\ IF f = INVALID_SECTOR THEN Abort ELSE Returns("ok")
                            /\ UNCHANGED disk

-----------------------------------------------------------------------------
(* The system calls of user programs. *)

(* FileSystem::OpenAFile and FileSystem::Open *)
OpenAFile(path) ==
    \E file \in Finder(path, FILE), dir \in Finder(path, DIR) :
        LET f == IF file.exist THEN file.fhSector ELSE dir.fhSector
            unused == {id \in FileId : OpenFileTable[id] = INVALID_SECTOR}
        IN  IF unused = {} THEN Returns("no")
            ELSE IF path = RootPath \/ f = INVALID_SECTOR THEN Abort      \* the ASSERTs
            ELSE \E id \in {i \in unused : \A j \in unused : i <= j} :
                    /\ OpenFileTable' = [OpenFileTable EXCEPT ![id] = f]
                    /\ outcome' = "ok"
                    /\ UNCHANGED running

isValidFileId(id) == id \in FileId /\ OpenFileTable[id] # INVALID_SECTOR

(* FileSystem::CloseFile *)
CloseFile(id) == IF ~isValidFileId(id) THEN Returns("no")
                 ELSE /\ OpenFileTable' = [OpenFileTable EXCEPT ![id] = INVALID_SECTOR]
                      /\ outcome' = "ok"
                      /\ UNCHANGED running

(* FileSystem::ReadFile *)
ReadFile(size, id) == Returns(IF size >= 0 /\ isValidFileId(id) THEN "ok" ELSE "no")

(* Bound of the model: the tables that a program may write over a directory, *)
(* empty or with one entry, for a file of the system.                        *)
Written == {{}} \cup {{e} : e \in [name : Name, isDir : BOOLEAN, sector : SystemFiles]}

(* FileSystem::WriteFile_ and OpenFile::Write, whatever the file is.  The   *)
(* contents of regular files are not modelled.  At the end of a file        *)
(* nothing is written.                                                      *)
WriteFile_(size, id) ==
    IF size < 0 \/ ~isValidFileId(id) THEN Returns("no") /\ UNCHANGED disk
    ELSE \/ Returns("ok") /\ UNCHANGED disk
         \/ /\ OpenFileTable[id] \in DOMAIN tables
            /\ \E table \in Written : tables' = [tables EXCEPT ![OpenFileTable[id]] = table]
            /\ outcome' = "overwritten"
            /\ UNCHANGED <<freeMap, headers, OpenFileTable, running>>

(* The sizes in Create, ReadFile and WriteFile_, a negative one among them. *)
InitialSize == FileSize \cup {-1}

(* No program has written to a directory since the disk was formatted. *)
Intact == outcome # "overwritten"

(* main(): the commands of the command line, then Kernel::ExecAll. *)
Command == /\ Intact /\ ~running
           /\ \E path \in Path : \/ \E size \in InitialSize : Create(path, size)
                                 \/ Mkdir(path)
                                 \/ RemoveOne(path)
                                 \/ recursivelyRemove(path)
                                 \/ List(path)
                                 \/ PrintHeader(path)

ExecAll == /\ Intact /\ ~running
           /\ running' = TRUE
           /\ UNCHANGED <<freeMap, headers, tables, OpenFileTable, outcome>>

SystemCall == /\ Intact /\ running
              /\ \/ \E path \in Path, size \in InitialSize : Create(path, size)
                 \/ \E path \in Path : OpenAFile(path) /\ UNCHANGED disk
                 \/ \E id \in FileId \cup {-1} : CloseFile(id) /\ UNCHANGED disk
                 \/ \E id \in FileId \cup {-1}, size \in InitialSize :
                        (ReadFile(size, id) /\ UNCHANGED disk) \/ WriteFile_(size, id)

(* The machine halts, and nachos is started again without -f. *)
Restart == Intact /\ running /\ EndOfProcess /\ UNCHANGED <<freeMap, headers, tables, outcome>>

(* nachos is started again with -f. *)
Format == Formatted(freeMap', headers', tables') /\ EndOfProcess /\ outcome' = "ok"

Next == Command \/ ExecAll \/ SystemCall \/ Restart \/ Format

Spec == Init /\ [][Next]_vars

-----------------------------------------------------------------------------
TypeOK == /\ freeMap \in SUBSET Sector
          /\ DOMAIN headers \subseteq Sector
          /\ \A s \in DOMAIN headers : headers[s] \in Header
          /\ DOMAIN tables \subseteq DOMAIN headers
          /\ \A d \in DOMAIN tables : tables[d] \in SUBSET Entry
          /\ OpenFileTable \in [FileId -> Sector \cup {INVALID_SECTOR}]
          /\ running \in BOOLEAN
          /\ outcome \in {"ok", "no", "abort", "lost", "overwritten"}

(***************************************************************************)
(* No sector is in two files, as header, index or data sector, and no      *)
(* sector of a file is free: what createFileOrDir allocates from the       *)
(* bitmap, after any history of removals, belongs to nobody else (until a  *)
(* program writes to a directory: from there only Format goes on).         *)
(***************************************************************************)
NoSharedSector ==
    /\ \A s \in DOMAIN headers : SectorsOf(s, headers[s]) \subseteq freeMap
    /\ \A s, t \in DOMAIN headers :
           s # t => SectorsOf(s, headers[s]) \cap SectorsOf(t, headers[t]) = {}

(* The entries of directories are sound, and lead everywhere. *)
Sound ==
    /\ \A d \in DOMAIN tables : \A e \in tables[d] :
           /\ e.sector \in DOMAIN headers \ SystemFiles
           /\ e.isDir <=> e.sector \in DOMAIN tables
           /\ \A f \in tables[d] : Matches(e, f.name, f.isDir) => e = f
    /\ \A d, c \in DOMAIN tables : \A e \in tables[d], f \in tables[c] :
           e.sector = f.sector => d = c /\ e = f
Connected == Below(DirectorySector) = DOMAIN headers \ {FreeMapSector}

(***************************************************************************)
(* The entries of directories are sound: an entry refers to a header that  *)
(* exists, and to a directory exactly if it says so; no two entries refer  *)
(* to the same file; a name occurs once per kind and directory.  In        *)
(* particular nothing refers to what was removed.  This is so until a      *)
(* program writes to a directory that it has opened.                       *)
(***************************************************************************)
TreeIsSound == Intact => Sound

(***************************************************************************)
(* Everything on the disk can be reached from the root directory: removing *)
(* a directory never leaves behind a file or a subdirectory from below it. *)
(* Again until a program writes to a directory.                            *)
(***************************************************************************)
AllReachable == Intact => Connected

(***************************************************************************)
(* The ASSERTs of Remove and RemoveAll that the sectors they return are    *)
(* marked never fail, however files were created and removed before (as    *)
(* long as no program has written to a directory).                         *)
(***************************************************************************)
RemovalSucceeds == outcome # "lost"

-----------------------------------------------------------------------------
(* The file that a path names. *)
Resolve(path, isDir) == (CHOOSE r \in Finder(path, isDir) : TRUE).fhSector
IsPrefix(p, q) == Len(p) <= Len(q) /\ SubSeq(q, 1, Len(p)) = p

(* A step that may remove what path q names: the file q itself, or the      *)
(* directory q or one above it.                                             *)
Removes(q, kind) ==
    \/ /\ kind = FILE
       /\ RemoveOne(q) \/ (recursivelyRemove(q) /\ Resolve(q, DIR) = INVALID_SECTOR)
    \/ \E p \in Tokens \ {<< >>} : /\ IsPrefix(p, q)
                                   /\ p = q => kind = DIR
                                   /\ recursivelyRemove(p)
    \/ recursivelyRemove(RootPath)
    \/ Format

(***************************************************************************)
(* Operations keep their hands off other files: what a path named before   *)
(* an operation it names afterwards, with the same header, unless the      *)
(* operation removed that path or a directory above it, or is a write to   *)
(* an open directory.                                                      *)
(***************************************************************************)
OthersUntouched ==
    [][ Intact /\ Intact' /\ tables' # tables => \A q \in Tokens \ {<< >>}, kind \in BOOLEAN :
            LET f == Resolve(q, kind)
            IN  f # INVALID_SECTOR => \/ Resolve(q, kind)' = f /\ headers'[f] = headers[f]
                                      \/ Removes(q, kind) ]_vars

(***************************************************************************)
(* createFileOrDir after its ASSERT, "parent dir should exist": a file     *)
(* that was created is found under the path it was created with.           *)
(***************************************************************************)
CreatedWhereNamed ==
    [][ \A path \in Tokens \ {<< >>}, size \in FileSize :
            Create(path, size) /\ outcome' = "ok" => Resolve(path, FILE)' # INVALID_SECTOR ]_vars

(***************************************************************************)
(* The comment of returnSectorsToFreeMap, "Return data and header sectors  *)
(* to freeMap": only sectors of existing files are marked.                 *)
(***************************************************************************)
NoLeak == freeMap = UNION {SectorsOf(s, headers[s]) : s \in DOMAIN headers}
=============================================================================
