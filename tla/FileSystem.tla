----------------------------- MODULE FileSystem -----------------------------
(***************************************************************************)
(* The file system (filesys/): Create, Open, Remove and Check, the         *)
(* directory, the free map, file headers and open files, with the system   *)
(* calls that reach them (userprog/exception.cc) and the table of open     *)
(* files of a thread.                                                      *)
(*                                                                         *)
(* Every WriteBack is a step, so the disk of every state is what a restart *)
(* after a halt in that state finds.  Create and Remove work on copies of  *)
(* the directory and the free map and, as the comment on Create assumes,   *)
(* do not overlap each other; Open, Read, Write and Close come from any    *)
(* thread at any time.  The free map and the directory take one sector     *)
(* each: a call changes one entry, hence one sector, of the directory.     *)
(* Fetches and failing calls change nothing.  The open-file table is       *)
(* Table as far as it is exact: Add takes the lowest free index.           *)
(***************************************************************************)
EXTENDS Integers, Sequences, FiniteSets, SequencesExt

CONSTANTS
    Thread, Name,
    NoName,            \* the name in an entry that is not in use
    NUM_SECTORS, SECTOR_SIZE, NUM_DIR_ENTRIES, NUM_DIRECT,
    MAX_OPEN,          \* capacity of a thread's table of open files
    FileSize,          \* the sizes files are created with
    Request            \* the sizes asked for in Read and Write

ASSUME FileSystemAssumption ==
    /\ NoName \notin Name
    /\ {NUM_SECTORS, SECTOR_SIZE, NUM_DIR_ENTRIES, NUM_DIRECT, MAX_OPEN} \subseteq Nat \ {0}
    /\ NUM_SECTORS >= 4
    /\ FileSize \subseteq 1 .. NUM_DIRECT * SECTOR_SIZE
    /\ Request \subseteq Nat \ {0}

VARIABLES
    disk,       \* the sectors: headers and data
    directory,  \* the directory file, a sequence of entries
    freeMap,    \* the free map file: sectors in use
    job,        \* the Create or Remove that is writing back, if any
    opening,    \* the sector whose header each thread is about to fetch, or -1
    files,      \* Thread::openedFiles
    tainted     \* data went through an open file whose file was removed

vars == <<disk, directory, freeMap, job, opening, files, tainted>>

Sector == 0 .. NUM_SECTORS - 1
FREE_MAP_SECTOR  == 0
DIRECTORY_SECTOR == 1
System == 0 .. 3     \* the two headers and the two sectors of the files

(* A sector holds a header or bytes; a byte is 0 (fresh), 1 (written) or   *)
(* 2 (uninitialised memory of the kernel, or a piece of an old header).    *)
Raw(numBytes, dataSectors) == [numBytes |-> numBytes, dataSectors |-> dataSectors, bytes |-> <<>>]
Data(bytes) == [numBytes |-> 0, dataSectors |-> <<>>, bytes |-> bytes]

Bytes(raw) == IF raw.bytes = <<>> THEN [i \in 1 .. SECTOR_SIZE |-> 2] ELSE raw.bytes

DirectoryEntry(name, sector) == [name |-> name, sector |-> sector]
Unused == DirectoryEntry(NoName, 0)

NoJob  == [call |-> "none", name |-> NoName, sector |-> 0, header |-> Raw(0, <<>>),
           dir |-> <<>>, map |-> {}, todo |-> <<>>]
NoFile == [name |-> NoName, hdr |-> Raw(0, <<>>), seekPosition |-> 0, stale |-> FALSE]
NotOpening == [name |-> NoName, sector |-> -1, stale |-> FALSE]

(* FileSystem(format = true). *)
Init ==
    /\ disk = [s \in Sector |-> CASE s = FREE_MAP_SECTOR -> Raw(SECTOR_SIZE, <<2>>)
                                  [] s = DIRECTORY_SECTOR -> Raw(SECTOR_SIZE, <<3>>)
                                  [] OTHER -> Data([i \in 1 .. SECTOR_SIZE |-> 0])]
    /\ directory = [i \in 1 .. NUM_DIR_ENTRIES |-> Unused]
    /\ freeMap = System
    /\ job = NoJob
    /\ opening = [t \in Thread |-> NotOpening]
    /\ files = [t \in Thread |-> [i \in 0 .. MAX_OPEN - 1 |-> NoFile]]
    /\ tainted = FALSE

-----------------------------------------------------------------------------
(* Directory::Find and Add: the first entry that fits, 0 for none. *)
FindIndex(name)  == SelectInSeq(directory, LAMBDA e : e.name = name)
Add(name, sector) == [directory EXCEPT ![FindIndex(NoName)] = DirectoryEntry(name, sector)]

Clear == Sector \ freeMap
DivRoundUp(n, s) == (n + s - 1) \div s

(* The k-th sector that Bitmap::Find gives out: lowest first. *)
Find(k) == CHOOSE s \in Clear : Cardinality({r \in Clear : r <= s}) = k

(* FileHeader::Allocate, after Find has taken the header's sector. *)
Allocate(size) == Raw(size, [i \in 1 .. DivRoundUp(size, SECTOR_SIZE) |-> Find(i + 1)])

SectorsOf(h) == {h.dataSectors[i] : i \in DOMAIN h.dataSectors}

CreateOrder_MapFirst == <<"header", "map", "dir">>

CreateOrder_DirFirst == <<"dir", "header", "map">>

CreateOrder == <<"header", "dir", "map">>

(* FileSystem::Create, up to its writes. *)
Create(name, size) ==
    /\ ~tainted /\ job = NoJob
    /\ FindIndex(name) = 0
    /\ Cardinality(Clear) > DivRoundUp(size, SECTOR_SIZE)
    /\ FindIndex(NoName) # 0
    /\ job' = [call |-> "create", name |-> name, sector |-> Find(1), header |-> Allocate(size),
               dir |-> Add(name, Find(1)),
               map |-> freeMap \cup {Find(1)} \cup SectorsOf(Allocate(size)),
               todo |-> CreateOrder]
    /\ UNCHANGED <<disk, directory, freeMap, opening, files, tainted>>

Deallocated_KeepsHeader(sector) == freeMap \ SectorsOf(disk[sector])

(* Deallocate, and Clear of the header's sector. *)
Deallocated(sector) == (freeMap \ SectorsOf(disk[sector])) \ {sector}

(* An open file f, or one that is being opened, when `name' is removed. *)
Marked(f, name) == [f EXCEPT !.stale = @ \/ f.name = name]

(* FileSystem::Remove, up to its writes.  Nothing asks who has the file    *)
(* open.                                                                   *)
RemoveFile(name) ==
    LET i == FindIndex(name)
        sector == directory[i].sector
    IN  /\ ~tainted /\ job = NoJob
        /\ i # 0
        /\ SectorsOf(disk[sector]) \subseteq freeMap     \* ASSERT in Deallocate
        /\ job' = [call |-> "remove", name |-> name, sector |-> sector, header |-> disk[sector],
                   dir |-> [directory EXCEPT ![i] = Unused],
                   map |-> Deallocated(sector), todo |-> <<"map", "dir">>]
        /\ opening' = [t \in Thread |-> Marked(opening[t], name)]
        /\ files' = [t \in Thread |-> [k \in DOMAIN files[t] |-> Marked(files[t][k], name)]]
        /\ UNCHANGED <<disk, directory, freeMap, tainted>>

(* The next WriteBack of the call. *)
WriteBack ==
    LET what == Head(job.todo)
    IN  /\ job # NoJob
        /\ disk' = IF what = "header" THEN [disk EXCEPT ![job.sector] = job.header] ELSE disk
        /\ directory' = IF what = "dir" THEN job.dir ELSE directory
        /\ freeMap' = IF what = "map" THEN job.map ELSE freeMap
        /\ job' = IF Len(job.todo) = 1 THEN NoJob ELSE [job EXCEPT !.todo = Tail(@)]
        /\ UNCHANGED <<opening, files, tainted>>

-----------------------------------------------------------------------------
(* OpenFile::ReadAt and WriteAt on the file with header h. *)

Least(a, b) == IF a < b THEN a ELSE b
Served(h, numBytes, position) == Least(numBytes, h.numBytes - position)

(* The bytes of whole sectors first to last of the file, from 0. *)
Buffer(h, first, last) ==
    [k \in 0 .. (last - first + 1) * SECTOR_SIZE - 1 |->
        Bytes(disk[h.dataSectors[first + k \div SECTOR_SIZE + 1]])[(k % SECTOR_SIZE) + 1]]

ReadAt(h, numBytes, position) ==
    LET n     == Served(h, numBytes, position)
        first == position \div SECTOR_SIZE
        last  == (position + n - 1) \div SECTOR_SIZE
    IN  IF position >= h.numBytes THEN <<>>
        ELSE [k \in 1 .. n |-> Buffer(h, first, last)[position - first * SECTOR_SIZE + k - 1]]

LastIsRead_IfMany(first, last, firstAligned, lastAligned) == ~lastAligned /\ first # last

LastIsRead(first, last, firstAligned, lastAligned) ==
    ~lastAligned /\ (first # last \/ firstAligned)

(* The disk after WriteAt of ones; position is inside the file. *)
WriteAt(h, numBytes, position) ==
    LET n     == Served(h, numBytes, position)
        first == position \div SECTOR_SIZE
        last  == (position + n - 1) \div SECTOR_SIZE
        firstAligned == position = first * SECTOR_SIZE
        lastAligned  == position + n = (last + 1) * SECTOR_SIZE
        from  == position - first * SECTOR_SIZE
        old(s, k) ==          \* what ReadAt put in the buffer: it stops at the end of the file
            IF /\ (s = first /\ ~firstAligned)
                  \/ (s = last /\ LastIsRead(first, last, firstAligned, lastAligned))
               /\ (s * SECTOR_SIZE) + (k % SECTOR_SIZE) < h.numBytes
            THEN Buffer(h, first, last)[k] ELSE 2
        buf   == [k \in 0 .. (last - first + 1) * SECTOR_SIZE - 1 |->
                    IF from <= k /\ k < from + n THEN 1 ELSE old(first + k \div SECTOR_SIZE, k)]
    IN  [s \in Sector |->
            IF \E i \in first .. last : h.dataSectors[i + 1] = s
            THEN LET i == CHOOSE i \in first .. last : h.dataSectors[i + 1] = s
                 IN  Data([k \in 1 .. SECTOR_SIZE |-> buf[(i - first) * SECTOR_SIZE + k - 1]])
            ELSE disk[s]]

-----------------------------------------------------------------------------
(* SC_OPEN: Open finds the name, then OpenFile fetches the header. *)
Open(t, name) ==
    /\ ~tainted /\ opening[t] = NotOpening
    /\ FindIndex(name) # 0
    /\ opening' = [opening EXCEPT ![t] =
                     [name |-> name, sector |-> directory[FindIndex(name)].sector,
                      stale |-> job.call = "remove" /\ job.name = name]]
    /\ UNCHANGED <<disk, directory, freeMap, job, files, tainted>>

FreeFds(t) == {i \in DOMAIN files[t] : files[t][i] = NoFile}

(* Without room in the table the program gets descriptor 1, the console,   *)
(* and the OpenFile is lost.                                               *)
FetchHeader(t) ==
    LET file == [name |-> opening[t].name, hdr |-> disk[opening[t].sector],
                 seekPosition |-> 0, stale |-> opening[t].stale]
        fd   == CHOOSE i \in FreeFds(t) : \A k \in FreeFds(t) : i <= k
    IN  /\ opening[t] # NotOpening
        /\ opening' = [opening EXCEPT ![t] = NotOpening]
        /\ files' = IF FreeFds(t) = {} THEN files ELSE [files EXCEPT ![t][fd] = file]
        /\ UNCHANGED <<disk, directory, freeMap, job, tainted>>

(* SC_READ and SC_WRITE of a file: OpenFile::Read and Write. *)
Read(t, fd, size) ==
    /\ ~tainted /\ opening[t] = NotOpening
    /\ files[t][fd] # NoFile
    /\ files' = [files EXCEPT ![t][fd].seekPosition =
                   @ + Len(ReadAt(files[t][fd].hdr, size, files[t][fd].seekPosition))]
    /\ UNCHANGED <<disk, directory, freeMap, job, opening, tainted>>

Write(t, fd, size) ==
    LET file == files[t][fd]
    IN  /\ ~tainted /\ opening[t] = NotOpening
        /\ file # NoFile
        /\ file.seekPosition < file.hdr.numBytes
        /\ disk' = WriteAt(file.hdr, size, file.seekPosition)
        /\ files' = [files EXCEPT ![t][fd].seekPosition =
                       @ + Served(file.hdr, size, file.seekPosition)]
        /\ tainted' = file.stale
        /\ UNCHANGED <<directory, freeMap, job, opening>>

Close(t, fd) ==
    /\ ~tainted /\ opening[t] = NotOpening
    /\ files[t][fd] # NoFile
    /\ files' = [files EXCEPT ![t][fd] = NoFile]
    /\ UNCHANGED <<disk, directory, freeMap, job, opening, tainted>>

Next ==
    \/ WriteBack
    \/ \E name \in Name : RemoveFile(name) \/ \E size \in FileSize : Create(name, size)
    \/ \E t \in Thread :
         \/ FetchHeader(t)
         \/ \E name \in Name : Open(t, name)
         \/ \E fd \in 0 .. MAX_OPEN - 1 :
              \/ Close(t, fd)
              \/ \E size \in Request : Read(t, fd, size) \/ Write(t, fd, size)

Spec == Init /\ [][Next]_vars

-----------------------------------------------------------------------------
(* FileSystem::Check.  It visits the headers of the free map (file -1), of *)
(* the directory (file 0) and of the entries in use, and each header's     *)
(* data sectors; place k of a file is its header for 0, else a data        *)
(* sector.  An error is a sector that is in two places.                    *)

UsedEntries == {i \in DOMAIN directory : directory[i].name # NoName}
Visited     == {-1, 0} \cup UsedEntries

HeaderSector(i) ==
    CASE i = -1 -> FREE_MAP_SECTOR [] i = 0 -> DIRECTORY_SECTOR [] OTHER -> directory[i].sector

Header(i)      == disk[HeaderSector(i)]
Places(i)      == 0 .. Len(Header(i).dataSectors)
SectorAt(i, k) == IF k = 0 THEN HeaderSector(i) ELSE Header(i).dataSectors[k]

CheckFileHeader(h) ==
    /\ Len(h.dataSectors) >= DivRoundUp(h.numBytes, SECTOR_SIZE)
    /\ Len(h.dataSectors) < NUM_DIRECT

NoSectorTwice ==
    \A i, j \in Visited : \A k \in Places(i), l \in Places(j) :
        SectorAt(i, k) = SectorAt(j, l) => i = j /\ k = l

ShadowMap == UNION {{SectorAt(i, k) : k \in Places(i)} : i \in Visited}

CheckDirectory == \A i, k \in UsedEntries : directory[i].name = directory[k].name => i = k

CheckBitmaps == freeMap = ShadowMap

Check ==
    /\ \A i \in Visited : CheckFileHeader(Header(i))
    /\ CheckDirectory /\ NoSectorTwice /\ CheckBitmaps

-----------------------------------------------------------------------------
(* Check accepts the disk that a halt leaves exactly if the halt does not  *)
(* come between the two writes that go together: the directory and the map *)
(* in Create, the map and the directory in Remove (file_system.cc:197-198, *)
(* 268-269).  At rest the disk is always in order.                         *)
CheckTellsHalts ==
    ~tainted => (Check <=> ~ \/ job.call = "create" /\ job.todo = <<"map">>
                             \/ job.call = "remove" /\ job.todo = <<"dir">>)

(* Whenever the machine halts, no sector is lost, and only the file of the *)
(* interrupted call can have sectors that the map calls free: the order of *)
(* the writes never lets go of a directory entry last in Create, nor first *)
(* in Remove (file_system.cc:195-198, 268-269).                            *)
HaltHurtsOneFile ==
    ~tainted => /\ freeMap \subseteq ShadowMap
                /\ ShadowMap \ freeMap \subseteq {job.sector} \cup SectorsOf(job.header)
                /\ NoSectorTwice

(* An open file has the header of the file that the directory has under    *)
(* its name, however Open fell between the writes of Create, unless the    *)
(* file was removed (Create writes the header first, file_system.cc:196;   *)
(* Open reads it last, file_system.cc:228).                                *)
OpenFilesAreCurrent ==
    ~tainted => \A t \in Thread, fd \in 0 .. MAX_OPEN - 1 :
        LET f == files[t][fd]
        IN  f # NoFile /\ ~f.stale =>
              FindIndex(f.name) # 0 /\ f.hdr = disk[directory[FindIndex(f.name)].sector]

(* The bytes of a file, in order. *)
Content(d, h) ==
    [k \in 1 .. h.numBytes |->
        Bytes(d[h.dataSectors[(k - 1) \div SECTOR_SIZE + 1]])[((k - 1) % SECTOR_SIZE) + 1]]

(* A transfer of n bytes at `position' of the file with header h. *)
ReadIsExact(h, position, n) ==
    ReadAt(h, n, position) = SubSeq(Content(disk, h), position + 1, Least(position + n, h.numBytes))

WriteIsExact(h, position, n) ==
    LET after == WriteAt(h, n, position)
    IN  /\ Content(after, h) = [k \in 1 .. h.numBytes |->
             IF position < k /\ k <= position + n THEN 1 ELSE Content(disk, h)[k]]
        /\ \A s \in Sector \ SectorsOf(h) : after[s] = disk[s]

(* ReadAt returns the bytes asked for, and WriteAt replaces those and no   *)
(* others, of this file or another, for every position and length, across  *)
(* sectors and at the end of the file (open_file.cc:107-191).              *)
TransfersAreExact ==
    \A t \in Thread, fd \in 0 .. MAX_OPEN - 1 :
        LET h == files[t][fd].hdr
        IN  ~tainted /\ ~files[t][fd].stale =>
              \A position \in 0 .. h.numBytes - 1, n \in 1 .. h.numBytes :
                ReadIsExact(h, position, n) /\ WriteIsExact(h, position, n)
=============================================================================
