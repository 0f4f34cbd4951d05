-------------------------------- MODULE NawFS --------------------------------
(***************************************************************************)
(* The file system of fs/nawfs.c over the ATA driver of drivers/ata/ata.c. *)
(*                                                                         *)
(* A flat catalogue of entries (name, first data sector, size) is kept in  *)
(* memory and rewritten, sector by sector, after every change; a file is   *)
(* one data sector.  Every file-system call runs to its end inside the     *)
(* keyboard interrupt handler with interrupts off, so the calls are never  *)
(* interleaved; the only thing that can come between two sector writes is  *)
(* the loss of power, after which fs_init reads the disk again.            *)
(*                                                                         *)
(* One step is one sector read or written together with the memory updates *)
(* next to it (memory is lost with the power, so no observer can tell).    *)
(* A sector write is taken to be atomic on the medium.                     *)
(***************************************************************************)
EXTENDS Naturals, FiniteSets

CONSTANTS
    Names,              \* packed (name, ext) pairs a caller may use
    NoName,             \* the empty name: a zeroed catalogue entry, a bad argument
    Ids,                \* identities of texts; texts of two identities differ everywhere
    NoId,               \* the identity of the empty text
    Absent,             \* what a reader gets of a file that does not exist
    MAX_FILES,
    MAX_FILE_SIZE,
    Texts,              \* the texts callers write
    SLOTS_PER_SECTOR,   \* SECTOR_SIZE / sizeof(nawfs_entry)
    CATALOG_SECTORS,
    DATA_START_SECTOR,
    Hello, HelloText,   \* the file nawfs_builder stores in a new image, its text
    PowerLosses,        \* may the power fail
    ReadFaults,         \* may ata_wait time out while a sector is read
    WriteFaults         \* may ata_wait time out while a sector is written

ASSUME NamesAssumption == NoName \notin Names /\ NoId \notin Ids /\ Hello \in Names
ASSUME SizesAssumption ==
    /\ MAX_FILES \in Nat \ {0}
    /\ MAX_FILE_SIZE \in Nat \ {0}
    /\ SLOTS_PER_SECTOR \in Nat \ {0}
    /\ CATALOG_SECTORS \in Nat \ {0}
    /\ DATA_START_SECTOR \in Nat \ {0}
\* nawfs_format.h: 9 catalogue sectors of 16 entries hold the 64 files.
ASSUME RoomAssumption == MAX_FILES <= CATALOG_SECTORS * SLOTS_PER_SECTOR
ASSUME FaultsAssumption == {PowerLosses, ReadFaults, WriteFaults} \subseteq BOOLEAN

VARIABLES
    \* the disk
    superblock,     \* does the superblock sector hold this version's superblock
    catalog,        \* slot of the catalogue sectors -> entry
    data,           \* data sector -> content
    \* memory
    entries,        \* the array of nawfs.c, zeroed past file_count
    file_count,
    pc,             \* where the file system is
    pos,            \* the loop counter of the loop it is in
    op,             \* the call being served, or the last one served
    reply           \* what the call returned

disk == <<superblock, catalog, data>>
memory == <<entries, file_count>>
vars == <<superblock, catalog, data, entries, file_count, pc, pos, op, reply>>

-----------------------------------------------------------------------------
(* Texts and contents: an identity and a length.                           *)

Text(id, len) == [id |-> id, len |-> len]
Blank == Text(NoId, 0)
Contents == {Blank} \cup [id : Ids, len : 1 .. MAX_FILE_SIZE]

\* The shell's line and the editor's buffer are shorter than a sector.
ASSUME TextsAssumption == Texts \subseteq Contents
ASSUME AbsentAssumption == Absent \notin Contents
ASSUME HelloAssumption == HelloText \in Contents \ {Blank}

\* A C string's first k bytes.
Cut(t, k) ==
    IF k = 0 \/ t.len = 0 THEN Blank
    ELSE Text(t.id, IF t.len <= k THEN t.len ELSE k)

\* What fs_write stores of a text: MAX_FILE_SIZE bytes at most.
Clip(t) == Cut(t, MAX_FILE_SIZE)

-----------------------------------------------------------------------------
(* The disk's layout and its entries.                                      *)

Slots == 0 .. (CATALOG_SECTORS * SLOTS_PER_SECTOR - 1)
Places == 0 .. (MAX_FILES - 1)
DataSectors == DATA_START_SECTOR .. (DATA_START_SECTOR + MAX_FILES - 1)

MkEntry(name, sector, size) == [name |-> name, sector |-> sector, size |-> size]
NoEntry == MkEntry(NoName, 0, 0)
Entries == {NoEntry} \cup [name : Names, sector : DataSectors, size : 0 .. MAX_FILE_SIZE]

is_valid_entry(e) ==
    /\ e.name # NoName
    /\ e.sector >= DATA_START_SECTOR
    /\ e.sector < DATA_START_SECTOR + MAX_FILES
    /\ e.size <= MAX_FILE_SIZE

SectorOf(slot) == slot \div SLOTS_PER_SECTOR

Used == 0 .. (file_count - 1)

\* The index of the first entry of that name, or MAX_FILES for the code's -1.
find_file_missing_last(n) ==
    LET found == {i \in 0 .. (file_count - 2) : entries[i].name = n}
    IN  IF found = {} THEN MAX_FILES
        ELSE CHOOSE i \in found : \A j \in found : i <= j
find_file(n) ==
    LET found == {i \in Used : entries[i].name = n}
    IN  IF found = {} THEN MAX_FILES
        ELSE CHOOSE i \in found : \A j \in found : i <= j

\* Some data sector no entry in memory uses, the lowest one, or 0 for the code's -1.
FreeSectors(sectors, used) == {s \in sectors : \A i \in used : entries[i].sector # s}
find_free_sector_missing_last ==
    LET free == FreeSectors(DataSectors, Used \ {file_count - 1})
    IN  IF free = {} THEN 0 ELSE CHOOSE s \in free : \A t \in free : s <= t
find_free_sector_one_short ==
    LET free == FreeSectors(DataSectors \ {DATA_START_SECTOR}, Used)
    IN  IF free = {} THEN 0 ELSE CHOOSE s \in free : \A t \in free : s <= t
find_free_sector ==
    LET free == FreeSectors(DataSectors, Used)
    IN  IF free = {} THEN 0 ELSE CHOOSE s \in free : \A t \in free : s <= t

\* disk_write_sector returns 0 whatever ata_wait says: a write the drive did not
\* take is not reported, and the sector keeps what it held.
Landed == IF WriteFaults THEN BOOLEAN ELSE {TRUE}

\* What fs_flush puts in a slot of the catalogue.
Image(slot) == IF slot < file_count THEN entries[slot] ELSE NoEntry

Call(kind, name, text) == [kind |-> kind, name |-> name, text |-> text]
NoOp == Call("none", NoName, Blank)
FormatOp == Call("format", NoName, Blank)

-----------------------------------------------------------------------------
(* Booting: fs_init, fs_format and load_catalog.                           *)

\* A blank disk, or the image nawfs_builder writes: one entry and its data, and
\* no superblock.
Init ==
    /\ superblock = FALSE
    /\ \E built \in BOOLEAN :
          /\ catalog = [s \in Slots |->
                IF built /\ s = 0 THEN MkEntry(Hello, DATA_START_SECTOR, HelloText.len)
                ELSE NoEntry]
          /\ data = [s \in DataSectors |->
                IF built /\ s = DATA_START_SECTOR THEN HelloText ELSE Blank]
    /\ entries = [i \in Places |-> NoEntry]
    /\ file_count = 0
    /\ pc = "off"
    /\ pos = 0
    /\ op = NoOp
    /\ reply = "none"

\* The superblock cannot be read: the system runs with an empty catalogue.
FsInitUnavailable ==
    /\ pc = "off"
    /\ ReadFaults
    /\ pc' = "idle"
    /\ UNCHANGED <<disk, memory, pos, op, reply>>

FsInitRecognised ==
    /\ pc = "off"
    /\ superblock
    /\ pc' = "load"
    /\ UNCHANGED <<disk, memory, pos, op, reply>>

\* fs_format starts by writing the superblock.
FsInitFormat ==
    /\ pc = "off"
    /\ ~superblock
    /\ \E landed \in Landed : superblock' = landed
    /\ op' = FormatOp
    /\ pc' = "format_catalog"
    /\ UNCHANGED <<catalog, data, memory, pos, reply>>

FormatCatalogSector ==
    /\ pc = "format_catalog"
    /\ \E landed \in Landed :
          catalog' = [s \in Slots |->
                         IF landed /\ SectorOf(s) = pos THEN NoEntry ELSE catalog[s]]
    /\ IF pos + 1 < CATALOG_SECTORS
       THEN pos' = pos + 1 /\ UNCHANGED pc
       ELSE pos' = 0 /\ pc' = "format_data"
    /\ UNCHANGED <<superblock, data, memory, op, reply>>

FormatDataSector ==
    /\ pc = "format_data"
    /\ \E landed \in Landed :
          data' = IF landed THEN [data EXCEPT ![DATA_START_SECTOR + pos] = Blank] ELSE data
    /\ IF pos + 1 < MAX_FILES
       THEN pos' = pos + 1 /\ UNCHANGED <<pc, op>>
       ELSE pos' = 0 /\ pc' = "load" /\ op' = NoOp
    /\ UNCHANGED <<superblock, catalog, memory, reply>>

\* One round of load_catalog's inner loop: the entry in slot pos is kept when it is
\* valid and there is room.
LoadSlot ==
    /\ pc = "load"
    /\ IF is_valid_entry(catalog[pos]) /\ file_count < MAX_FILES
       THEN /\ entries' = [entries EXCEPT ![file_count] = catalog[pos]]
            /\ file_count' = file_count + 1
       ELSE UNCHANGED memory
    /\ IF pos + 1 \in Slots
       THEN pos' = pos + 1 /\ UNCHANGED pc
       ELSE pos' = 0 /\ pc' = "idle"
    /\ UNCHANGED <<disk, op, reply>>

\* A catalogue sector cannot be read: load_catalog gives up with what it has loaded,
\* and the system goes on with that.
LoadRestarts ==
    /\ pc = "load"
    /\ ReadFaults
    /\ pos % SLOTS_PER_SECTOR = 0
    /\ entries' = [i \in Places |-> NoEntry]
    /\ file_count' = 0
    /\ pos' = 0
    /\ UNCHANGED <<disk, pc, op, reply>>
LoadFails ==
    /\ pc = "load"
    /\ ReadFaults
    /\ pos % SLOTS_PER_SECTOR = 0
    /\ pos' = 0
    /\ pc' = "idle"
    /\ UNCHANGED <<disk, memory, op, reply>>

-----------------------------------------------------------------------------
(* The calls of the shell and the editor.                                  *)

Refuse(o) ==
    /\ pc = "idle"
    /\ op' = o
    /\ reply' = "error"
    /\ UNCHANGED <<disk, memory, pc, pos>>

\* A call goes on to rewrite the catalogue.
StartFlush(o) ==
    /\ pc' = "flush"
    /\ pos' = 0
    /\ op' = o
    /\ reply' = "busy"

WriteData(sector, content) ==
    \E landed \in Landed :
        data' = IF landed THEN [data EXCEPT ![sector] = content] ELSE data

fs_create_refused(n) ==
    /\ \/ file_count >= MAX_FILES
       \/ n = NoName
       \/ find_file(n) # MAX_FILES
       \/ find_free_sector = 0
    /\ Refuse(Call("create", n, Blank))

fs_create(n) ==
    /\ pc = "idle"
    /\ file_count < MAX_FILES
    /\ n # NoName
    /\ find_file(n) = MAX_FILES
    /\ find_free_sector # 0
    /\ entries' = [entries EXCEPT ![file_count] = MkEntry(n, find_free_sector, 0)]
    /\ WriteData(find_free_sector, Blank)
    /\ file_count' = file_count + 1
    /\ StartFlush(Call("create", n, Blank))
    /\ UNCHANGED <<superblock, catalog>>

fs_write_refused(n, t) ==
    /\ find_file(n) = MAX_FILES
    /\ Refuse(Call("write", n, t))

fs_write_keeping_size(n, t) ==
    LET i == find_file(n)
    IN  /\ pc = "idle"
        /\ i # MAX_FILES
        /\ WriteData(entries[i].sector, Clip(t))
        /\ StartFlush(Call("write", n, t))
        /\ UNCHANGED <<superblock, catalog, memory>>
fs_write(n, t) ==
    LET i == find_file(n)
    IN  /\ pc = "idle"
        /\ i # MAX_FILES
        /\ WriteData(entries[i].sector, Clip(t))
        /\ entries' = [entries EXCEPT ![i].size = Clip(t).len]
        /\ StartFlush(Call("write", n, t))
        /\ UNCHANGED <<superblock, catalog, file_count>>

fs_delete_refused(n) ==
    /\ find_file(n) = MAX_FILES
    /\ Refuse(Call("delete", n, Blank))

\* The entries after the deleted one move down by one and the last is zeroed.
Without(i) ==
    [j \in Places |->
        IF j >= file_count - 1 THEN NoEntry
        ELSE IF j < i THEN entries[j] ELSE entries[j + 1]]

fs_delete_keeping_count(n) ==
    LET i == find_file(n)
    IN  /\ pc = "idle"
        /\ i # MAX_FILES
        /\ WriteData(entries[i].sector, Blank)
        /\ entries' = [j \in Places |->
              IF j >= i /\ j + 1 < file_count THEN entries[j + 1] ELSE entries[j]]
        /\ StartFlush(Call("delete", n, Blank))
        /\ UNCHANGED <<superblock, catalog, file_count>>
fs_delete(n) ==
    LET i == find_file(n)
    IN  /\ pc = "idle"
        /\ i # MAX_FILES
        /\ WriteData(entries[i].sector, Blank)
        /\ entries' = Without(i)
        /\ file_count' = file_count - 1
        /\ StartFlush(Call("delete", n, Blank))
        /\ UNCHANGED <<superblock, catalog>>

\* fs_flush writes every catalogue sector, the first one first, and the call returns.
FlushStopsLate(sector) == sector >= CATALOG_SECTORS
FlushStopsEarly(sector) == sector + 2 >= CATALOG_SECTORS
FlushStops(sector) == sector + 1 >= CATALOG_SECTORS
FlushSectorOf(sector) ==
    /\ pc = "flush"
    /\ \E landed \in Landed :
          catalog' = [s \in Slots |->
                         IF landed /\ SectorOf(s) = sector THEN Image(s) ELSE catalog[s]]
    /\ IF FlushStops(pos)
       THEN pos' = 0 /\ pc' = "idle" /\ reply' = "ok"
       ELSE pos' = pos + 1 /\ UNCHANGED <<pc, reply>>
    /\ UNCHANGED <<superblock, data, memory, op>>
FlushSectorDescending == FlushSectorOf(CATALOG_SECTORS - 1 - pos)
FlushSectorRestarting ==
    \/ FlushSectorOf(pos)
    \/ /\ pc = "flush" /\ WriteFaults
       /\ pos' = 0
       /\ UNCHANGED <<disk, memory, pc, op, reply>>
FlushSector == FlushSectorOf(pos)

\* Memory is gone; the disk keeps the sectors that were written.
PowerLoss ==
    /\ PowerLosses
    /\ pc # "off"
    /\ entries' = [i \in Places |-> NoEntry]
    /\ file_count' = 0
    /\ pc' = "off"
    /\ pos' = 0
    /\ op' = NoOp
    /\ reply' = "none"
    /\ UNCHANGED disk

-----------------------------------------------------------------------------

\* The steps the kernel takes by itself once it has begun.
Boot ==
    \/ FsInitUnavailable \/ FsInitRecognised \/ FsInitFormat
    \/ FormatCatalogSector \/ FormatDataSector
    \/ LoadSlot \/ LoadFails

Operation ==
    \/ \E n \in Names \cup {NoName} : fs_create(n) \/ fs_create_refused(n)
    \/ \E n \in Names, t \in Texts : fs_write(n, t) \/ fs_write_refused(n, t)
    \/ \E n \in Names : fs_delete(n) \/ fs_delete_refused(n)

Next == Boot \/ Operation \/ FlushSector \/ PowerLoss

Spec == Init /\ [][Next]_vars

\* The processor keeps executing a boot or a call it has begun; nobody has to call.
FairSpec == Spec /\ WF_vars(Boot \/ FlushSector)

-----------------------------------------------------------------------------
(* What a reader finds.                                                    *)

\* fs_read: the first entry of that name, its sector cut at its size.
fs_read(n) ==
    LET i == find_file(n)
    IN  IF i = MAX_FILES THEN Absent ELSE Cut(data[entries[i].sector], entries[i].size)

\* What fs_read would find if the power failed now and the system booted again.
Holding(n) == {s \in Slots : catalog[s].name = n /\ is_valid_entry(catalog[s])}
AfterReboot(n) ==
    LET held == Holding(n)
        e == catalog[CHOOSE s \in held : \A t \in held : s <= t]
    IN  IF ~superblock \/ held = {} THEN Absent ELSE Cut(data[e.sector], e.size)

MemoryEntries == {entries[i] : i \in Used}
DiskEntries == {e \in {catalog[s] : s \in Slots} : is_valid_entry(e)}

-----------------------------------------------------------------------------
(* Properties.                                                             *)

PCs == {"off", "format_catalog", "format_data", "load", "idle", "flush"}
Ops == {NoOp, FormatOp}
       \cup {Call(k, n, Blank) : k \in {"create", "delete"}, n \in Names \cup {NoName}}
       \cup {Call("write", n, t) : n \in Names, t \in Texts}

(* Every variable keeps its type: the catalogue never outgrows its array,  *)
(* every entry in memory and on disk names a data sector, and the loop     *)
(* counters stay inside their loops.                                       *)
TypeOK ==
    /\ superblock \in BOOLEAN
    /\ catalog \in [Slots -> Entries]
    /\ data \in [DataSectors -> Contents]
    /\ entries \in [Places -> Entries]
    /\ file_count \in 0 .. MAX_FILES
    /\ pc \in PCs
    /\ pos \in Nat
    /\ pc \in {"off", "idle"} => pos = 0
    /\ pc \in {"format_catalog", "flush"} => pos < CATALOG_SECTORS
    /\ pc = "format_data" => pos < MAX_FILES
    /\ pc = "load" => pos \in Slots
    /\ op \in Ops
    /\ reply \in {"none", "busy", "ok", "error"}

SameFile(e, f) == e.name = f.name <=> e.sector = f.sector

(* No two files share a data sector and no file has two: whichever entries *)
(* one looks at, those in memory or those a restart would find half way    *)
(* through a rewrite of the catalogue (fs_create, fs_delete, fs_flush),    *)
(* they have the same name exactly when they have the same sector.  A      *)
(* delete cut short leaves two entries of one file, never one of two.      *)
NoCrossLink == \A e, f \in MemoryEntries \cup DiskEntries : SameFile(e, f)

(* Between calls the disk's catalogue is the image of memory, slot for     *)
(* slot, so a restart finds what the running system had (fs_flush,         *)
(* load_catalog), whatever power losses came before.                       *)
CatalogInSync == pc = "idle" => \A s \in Slots : catalog[s] = Image(s)

(* fs_create's second check is never needed: while there is room for an    *)
(* entry there is a data sector no entry uses (find_free_sector).          *)
FreeSectorExists == file_count < MAX_FILES => find_free_sector # 0

Store == INSTANCE FileStore WITH
    files <- [n \in Names |-> AfterReboot(n)],
    Prefixes <- LAMBDA t : {Cut(t, k) : k \in 0 .. MAX_FILE_SIZE},
    Stored <- Clip

(* NawFS implements the store: a call changes no file but the one it       *)
(* names, at every sector write, and what it reports done a restart finds  *)
(* done; the power may fail anywhere.                                      *)
ImplementsStore == Store!StoreSpec

(* Within one session, faulty disk or not, the catalogue in memory holds   *)
(* no name and no sector twice (fs_create, fs_delete, load_catalog).       *)
EntriesDistinct ==
    \A i, j \in Used : i # j => /\ entries[i].name # entries[j].name
                                /\ entries[i].sector # entries[j].sector

(* When fs_delete reports success ("File deleted") the file is gone.       *)
DeleteRemoves ==
    (pc = "idle" /\ reply = "ok" /\ op.kind = "delete") => fs_read(op.name) = Absent

(* When fs_write reports success ("File written") a reader finds the text, *)
(* now and after a restart.                                                *)
WriteStores ==
    (pc = "idle" /\ reply = "ok" /\ op.kind = "write") =>
        fs_read(op.name) = Clip(op.text) /\ AfterReboot(op.name) = Clip(op.text)

(* A boot comes to its end, on a disk that answers, that does not or that  *)
(* stops answering half way: ata_wait gives up, and so does load_catalog.  *)
BootEnds == pc = "off" ~> pc = "idle"

(* A call that has begun comes back to the shell.                          *)
CallEnds == reply = "busy" ~> reply = "ok"

(* The file nawfs_builder reports having created is there when the system  *)
(* has booted from the image it wrote.                                     *)
BuiltFileIsThere ==
    catalog[0].name = Hello => <>(pc = "idle" /\ fs_read(Hello) = HelloText)
=============================================================================
