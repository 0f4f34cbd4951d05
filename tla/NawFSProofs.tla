----------------------------- MODULE NawFSProofs ------------------------------
(***************************************************************************)
(* Proofs about NawFS for every number of files, of catalogue sectors and  *)
(* of entries to a sector, every set of names and texts.                   *)
(*                                                                         *)
(* TypeCorrect needs nothing of the disk.  NoFileIsCrossLinked and         *)
(* DiskFollowsMemory are about a disk that answers (~ReadFaults,           *)
(* ~WriteFaults) and a power supply that may fail at any sector write.     *)
(*                                                                         *)
(* Then comes what the file system's answers are worth: within a session   *)
(* on any disk, however many reads fail and writes are dropped, a deleted  *)
(* file is gone; on a disk that answers, whenever the power fails, a       *)
(* written text is there.  The last part is the refinement of FileStore.   *)
(***************************************************************************)
EXTENDS NawFS, Induction, FiniteSetTheorems

-----------------------------------------------------------------------------
(* Numbers: the sector of a slot.                                          *)

(* Slots lie in the catalogue's sectors, in order.                         *)
LEMMA SectorOfSlot ==
    /\ \A s \in Slots : SectorOf(s) \in Nat /\ SectorOf(s) < CATALOG_SECTORS
    /\ \A s, r \in Slots : s < r => SectorOf(s) <= SectorOf(r)
<1> DEFINE P == SLOTS_PER_SECTOR
           C == CATALOG_SECTORS
<1>1. P \in Nat \ {0} /\ C \in Nat \ {0}
  BY SizesAssumption
<1>2. \A s \in Nat : /\ s \div P \in Nat
                     /\ P * (s \div P) <= s
                     /\ s < P * (s \div P) + P
  BY <1>1, SMT
<1>3. \A s \in Slots : s \in Nat /\ s < C * P
  BY <1>1 DEF Slots
<1>4. ASSUME NEW s \in Slots
      PROVE  SectorOf(s) \in Nat /\ SectorOf(s) < C
  <2> DEFINE d == s \div P
  <2>1. d \in Nat /\ P * d < C * P
    BY <1>1, <1>2, <1>3
  <2> HIDE DEF d
  <2>2. d < C
    BY <1>1, <2>1, SMT
  <2> QED
    BY <2>1, <2>2 DEF SectorOf, d
<1>5. ASSUME NEW s \in Slots, NEW r \in Slots, s < r
      PROVE  SectorOf(s) <= SectorOf(r)
  <2> DEFINE d == s \div P
             e == r \div P
  <2>1. d \in Nat /\ e \in Nat /\ P * d < P * e + P
    BY <1>1, <1>2, <1>3, <1>5
  <2> HIDE DEF d, e
  <2>2. d <= e
    BY <1>1, <2>1, SMT
  <2> QED
    BY <2>2 DEF SectorOf, d, e
<1> QED
  BY <1>4, <1>5

-----------------------------------------------------------------------------
(* The searches of nawfs.c.                                                *)

(* find_file returns the place of an entry of that name, or none has it.   *)
LEMMA FindFile ==
    ASSUME NEW n, file_count \in 0 .. MAX_FILES
    PROVE  \/ find_file(n) = MAX_FILES /\ \A i \in Used : entries[i].name # n
           \/ /\ find_file(n) \in Used
              /\ find_file(n) # MAX_FILES
              /\ entries[find_file(n)].name = n
<1> DEFINE found == {i \in Used : entries[i].name = n}
<1>1. CASE found = {}
  BY <1>1 DEF find_file
<1>2. CASE found # {}
  <2>1. found \in SUBSET Nat
    BY SizesAssumption DEF Used
  <2>2. PICK m \in found : \A j \in found : m <= j
    BY <1>2, <2>1, LeastElement, Zenon
  <2>3. find_file(n) \in found
    BY <1>2, <2>2, Zenon DEF find_file
  <2> QED
    BY <2>3, SizesAssumption DEF Used
<1> QED
  BY <1>1, <1>2

(* find_free_sector returns a data sector no entry in memory has, or 0.    *)
LEMMA FindFreeSector ==
    \/ find_free_sector = 0 /\ FreeSectors(DataSectors, Used) = {}
    \/ /\ find_free_sector \in DataSectors
       /\ find_free_sector # 0
       /\ \A i \in Used : entries[i].sector # find_free_sector
<1> DEFINE free == FreeSectors(DataSectors, Used)
<1>1. CASE free = {}
  BY <1>1 DEF find_free_sector
<1>2. CASE free # {}
  <2>1. free \in SUBSET Nat
    BY SizesAssumption DEF FreeSectors, DataSectors
  <2>2. PICK m \in free : \A r \in free : m <= r
    BY <1>2, <2>1, LeastElement, Zenon
  <2>3. find_free_sector \in free
    BY <1>2, <2>2, Zenon DEF find_free_sector
  <2> QED
    BY <2>3, SizesAssumption DEF FreeSectors, DataSectors
<1> QED
  BY <1>1, <1>2

-----------------------------------------------------------------------------
(* Types.                                                                  *)

(* Cutting a content gives a content no longer than the cut.               *)
LEMMA CutContent ==
    ASSUME NEW x \in Contents, NEW k \in Nat
    PROVE  Cut(x, k) \in Contents /\ Cut(x, k).len \in 0 .. k
BY SizesAssumption DEF Contents, Cut, Blank, Text

LEMMA ClipContent ==
    ASSUME NEW x \in Texts
    PROVE  Clip(x) \in Contents /\ Clip(x).len \in 0 .. MAX_FILE_SIZE
BY CutContent, TextsAssumption, SizesAssumption DEF Clip

(* The last slots of the catalogue may stay empty, the files always fit.   *)
LEMMA PlacesAreSlots == Places \subseteq Slots /\ 0 \in Slots
BY RoomAssumption, SizesAssumption DEF Places, Slots

LEMMA NoEntryIsEntry == NoEntry \in Entries /\ Blank \in Contents
BY DEF Entries, Contents

(* A zeroed entry is the only one of the type that is not valid.           *)
LEMMA ValidEntries == \A e \in Entries : is_valid_entry(e) <=> e # NoEntry
<1> SUFFICES ASSUME NEW e \in Entries
             PROVE  is_valid_entry(e) <=> e # NoEntry
  OBVIOUS
<1>1. ASSUME e # NoEntry
      PROVE  is_valid_entry(e)
  BY <1>1, NamesAssumption, SizesAssumption DEF Entries, is_valid_entry, DataSectors
<1>2. ~is_valid_entry(NoEntry)
  BY DEF NoEntry, MkEntry, is_valid_entry
<1> QED
  BY <1>1, <1>2

(* What fs_flush writes is made of entries.                                *)
LEMMA ImageEntry ==
    ASSUME TypeOK, NEW s \in Slots
    PROVE  Image(s) \in Entries
BY NoEntryIsEntry, SizesAssumption DEF TypeOK, Image, Places, Slots

(* Every variable keeps its type, whatever the disk does.                  *)
LEMMA TypeInit == Init => TypeOK
<1> SUFFICES ASSUME Init PROVE TypeOK
  OBVIOUS
<1>1. MkEntry(Hello, DATA_START_SECTOR, HelloText.len) \in Entries
  BY NamesAssumption, SizesAssumption, HelloAssumption
     DEF Entries, MkEntry, DataSectors, Contents, Blank, Text
<1>2. catalog \in [Slots -> Entries]
  BY <1>1, NoEntryIsEntry DEF Init
<1>3. data \in [DataSectors -> Contents]
  BY HelloAssumption, NoEntryIsEntry DEF Init
<1>4. entries \in [Places -> Entries] /\ file_count \in 0 .. MAX_FILES
  BY NoEntryIsEntry, SizesAssumption DEF Init
<1>5. op \in Ops
  BY DEF Init, Ops
<1> QED
  BY <1>2, <1>3, <1>4, <1>5 DEF Init, TypeOK, PCs

LEMMA TypeNext == TypeOK /\ [Next]_vars => TypeOK'
<1> SUFFICES ASSUME TypeOK, [Next]_vars PROVE TypeOK'
  OBVIOUS
<1> USE SizesAssumption
<1>1. CASE UNCHANGED vars
  BY <1>1 DEF vars, TypeOK
<1>2. CASE FsInitUnavailable \/ FsInitRecognised
  BY <1>2, PlacesAreSlots
     DEF FsInitUnavailable, FsInitRecognised, TypeOK, PCs, disk, memory
<1>3. CASE FsInitFormat
  <2>1. superblock' \in BOOLEAN
    BY <1>3, Zenon DEF FsInitFormat, Landed
  <2>2. op' \in Ops
    BY <1>3 DEF FsInitFormat, Ops
  <2> QED
    BY <1>3, <2>1, <2>2 DEF FsInitFormat, TypeOK, PCs, memory
<1>4. CASE FormatCatalogSector
  <2>1. catalog' \in [Slots -> Entries]
    BY <1>4, NoEntryIsEntry DEF FormatCatalogSector, TypeOK
  <2> QED
    BY <1>4, <2>1 DEF FormatCatalogSector, TypeOK, PCs, memory
<1>5. CASE FormatDataSector
  <2>1. data' \in [DataSectors -> Contents]
    BY <1>5, NoEntryIsEntry DEF FormatDataSector, TypeOK
  <2> QED
    BY <1>5, <2>1, PlacesAreSlots DEF FormatDataSector, TypeOK, PCs, Ops, memory
<1>6. CASE LoadSlot
  <2>1. entries' \in [Places -> Entries] /\ file_count' \in 0 .. MAX_FILES
    BY <1>6 DEF LoadSlot, TypeOK, memory, Places
  <2> QED
    BY <1>6, <2>1 DEF LoadSlot, TypeOK, PCs, disk
<1>7. CASE LoadFails
  BY <1>7 DEF LoadFails, TypeOK, PCs, disk, memory
<1>8. ASSUME NEW n \in Names \cup {NoName}, fs_create(n)
      PROVE  TypeOK'
  <2>1. find_free_sector \in DataSectors
    BY <1>8, FindFreeSector DEF fs_create
  <2>2. MkEntry(n, find_free_sector, 0) \in Entries
    BY <1>8, <2>1 DEF fs_create, Entries, MkEntry
  <2>3. entries' \in [Places -> Entries] /\ file_count' \in 0 .. MAX_FILES
    BY <1>8, <2>2 DEF fs_create, TypeOK, Places
  <2>4. data' \in [DataSectors -> Contents]
    BY <1>8, NoEntryIsEntry DEF fs_create, WriteData, TypeOK
  <2>5. op' \in Ops
    BY <1>8 DEF fs_create, StartFlush, Ops
  <2> QED
    BY <1>8, <2>3, <2>4, <2>5 DEF fs_create, StartFlush, TypeOK, PCs
<1>9. ASSUME NEW n \in Names, NEW x \in Texts, fs_write(n, x)
      PROVE  TypeOK'
  <2> DEFINE i == find_file(n)
  <2>1. i \in Used /\ i \in Places /\ entries[i].name = n
    BY <1>9, FindFile DEF fs_write, TypeOK, Used, Places
  <2>2. entries[i] \in [name : Names, sector : DataSectors, size : 0 .. MAX_FILE_SIZE]
    BY <1>9, <2>1, NamesAssumption DEF TypeOK, Entries, NoEntry, MkEntry
  <2>3. entries' = [entries EXCEPT ![i].size = Clip(x).len]
    BY <1>9 DEF fs_write
  <2> HIDE DEF i
  <2>4. entries' \in [Places -> Entries]
    BY <2>1, <2>2, <2>3, ClipContent DEF TypeOK, Entries
  <2>5. data' \in [DataSectors -> Contents]
    BY <1>9, ClipContent DEF fs_write, WriteData, TypeOK
  <2>6. op' \in Ops
    BY <1>9 DEF fs_write, StartFlush, Ops
  <2> QED
    BY <1>9, <2>4, <2>5, <2>6 DEF fs_write, StartFlush, TypeOK, PCs
<1>10. ASSUME NEW n \in Names, fs_delete(n)
       PROVE  TypeOK'
  <2> DEFINE i == find_file(n)
  <2>1. i \in Used
    BY <1>10, FindFile DEF fs_delete, TypeOK
  <2>2. Without(i) \in [Places -> Entries]
    BY NoEntryIsEntry DEF Without, TypeOK, Places
  <2>3. file_count' \in 0 .. MAX_FILES
    BY <1>10, <2>1 DEF fs_delete, TypeOK, Used
  <2>4. data' \in [DataSectors -> Contents]
    BY <1>10, NoEntryIsEntry DEF fs_delete, WriteData, TypeOK
  <2>5. op' \in Ops
    BY <1>10 DEF fs_delete, StartFlush, Ops
  <2> QED
    BY <1>10, <2>2, <2>3, <2>4, <2>5 DEF fs_delete, StartFlush, TypeOK, PCs
<1>11. ASSUME NEW o \in Ops, Refuse(o)
       PROVE  TypeOK'
  BY <1>11 DEF Refuse, TypeOK, disk, memory
<1>12. ASSUME NEW n \in Names \cup {NoName}, fs_create_refused(n)
       PROVE  TypeOK'
  BY <1>11, <1>12 DEF fs_create_refused, Ops
<1>13. ASSUME NEW n \in Names, NEW x \in Texts, fs_write_refused(n, x)
       PROVE  TypeOK'
  BY <1>11, <1>13 DEF fs_write_refused, Ops
<1>14. ASSUME NEW n \in Names, fs_delete_refused(n)
       PROVE  TypeOK'
  BY <1>11, <1>14 DEF fs_delete_refused, Ops
<1>15. CASE FlushSector
  <2>1. catalog' \in [Slots -> Entries]
    BY <1>15, ImageEntry DEF FlushSector, FlushSectorOf, TypeOK
  <2> QED
    BY <1>15, <2>1 DEF FlushSector, FlushSectorOf, FlushStops, TypeOK, PCs, memory
<1>16. CASE PowerLoss
  BY <1>16, NoEntryIsEntry DEF PowerLoss, TypeOK, PCs, Ops, disk
<1> QED
  BY <1>1, <1>2, <1>3, <1>4, <1>5, <1>6, <1>7, <1>8, <1>9, <1>10, <1>12, <1>13, <1>14,
     <1>15, <1>16 DEF Next, Boot, Operation

(* The type invariant of NawFS holds on any disk, for every number of      *)
(* files: the catalogue never outgrows its array, every entry names a data *)
(* sector and the loops stay inside their bounds.                          *)
THEOREM TypeCorrect == Spec => []TypeOK
<1> QED
  BY TypeInit, TypeNext, PTL DEF Spec

-----------------------------------------------------------------------------
(* The inductive invariant.                                                *)

Held(s) == is_valid_entry(catalog[s])

\* The catalogue on disk has no gap: what is held is a prefix of the slots, of at
\* most MAX_FILES.
Packed ==
    /\ \A s, r \in Slots : s < r /\ Held(r) => Held(s)
    /\ \A s \in Slots : Held(s) => s < MAX_FILES

\* The entries in memory are the first file_count places.
MemoryFilled == \A i \in Places : i < file_count <=> is_valid_entry(entries[i])

\* load_catalog has copied the slots before pos and nothing else.
Loading ==
    pc = "load" =>
        /\ file_count <= pos
        /\ \A s \in Slots : s < pos => catalog[s] = Image(s)

\* fs_flush has written the sectors before pos; the others still hold the catalogue of
\* before the call, one entry shorter, as long or one entry longer than memory.
Flushing ==
    pc = "flush" =>
        \A s \in Slots :
            /\ SectorOf(s) < pos => catalog[s] = Image(s)
            /\ SectorOf(s) >= pos => /\ Held(s) => s <= file_count
                                     /\ s + 1 < file_count => Held(s)

\* Until it is formatted the disk holds one entry at most, and memory none.
Unformatted ==
    /\ pc \in {"off", "format_catalog", "format_data"} => file_count = 0
    /\ ~superblock => pc = "off"
    /\ (~superblock \/ pc \in {"format_catalog", "format_data"}) =>
          \A s \in Slots : Held(s) => s = 0

Layout ==
    /\ MemoryFilled
    /\ Packed
    /\ Loading
    /\ Flushing
    /\ Unformatted
    /\ CatalogInSync

IInv == TypeOK /\ Layout /\ NoCrossLink

-----------------------------------------------------------------------------
(* The layout of the catalogue.                                            *)

\* The assumption about the disk the following facts are about.
DiskAnswers == ~ReadFaults /\ ~WriteFaults

LEMMA WritesLand == DiskAnswers => Landed = {TRUE}
BY DEF DiskAnswers, Landed

(* Memory holds exactly what Image says it does.                           *)
LEMMA ImageHeld ==
    ASSUME TypeOK, MemoryFilled, NEW s \in Slots
    PROVE  /\ is_valid_entry(Image(s)) <=> s < file_count
           /\ s >= file_count => Image(s) = NoEntry
           /\ s < file_count => s < MAX_FILES
<1>1. ~is_valid_entry(NoEntry)
  BY DEF NoEntry, MkEntry, is_valid_entry
<1>2. s \in Nat /\ (s < file_count => s \in Places)
  BY SizesAssumption DEF TypeOK, Slots, Places
<1> QED
  BY <1>1, <1>2, SizesAssumption DEF TypeOK, MemoryFilled, Image, Places

LEMMA LayoutInit == Init => Layout
<1> SUFFICES ASSUME Init PROVE Layout
  OBVIOUS
<1>1. TypeOK
  BY TypeInit
<1>2. \A s \in Slots : Held(s) => s = 0
  BY <1>1, ValidEntries DEF Init, Held, TypeOK
<1>3. ~is_valid_entry(NoEntry)
  BY DEF NoEntry, MkEntry, is_valid_entry
<1>4. MemoryFilled
  BY <1>3, SizesAssumption DEF Init, MemoryFilled, Places
<1>5. Packed
  BY <1>2, SizesAssumption DEF Packed, Slots
<1> QED
  BY <1>2, <1>4, <1>5
     DEF Init, Layout, Loading, Flushing, Unformatted, CatalogInSync

(* Steps that leave the disk and memory alone and do not end in a loop.    *)
LEMMA LayoutStutter ==
    ASSUME TypeOK, Layout, UNCHANGED <<superblock, catalog, entries, file_count, pos>>,
           pc' = pc \/ (pc = "off" /\ superblock /\ pc' = "load")
    PROVE  Layout'
<1>1. MemoryFilled' /\ Packed'
  BY DEF Layout, MemoryFilled, Packed, Held
<1>2. Loading'
  BY PlacesAreSlots DEF Layout, Loading, Unformatted, Image, TypeOK, Slots
<1>3. Flushing' /\ CatalogInSync'
  BY DEF Layout, Flushing, CatalogInSync, Held, Image
<1>4. Unformatted'
  BY DEF Layout, Unformatted, Held
<1> QED
  BY <1>1, <1>2, <1>3, <1>4 DEF Layout

(* A call that changes memory leaves the disk a step behind it: at most    *)
(* one entry more or less than memory.                                     *)
LEMMA LayoutStartFlush ==
    ASSUME TypeOK, Layout, pc = "idle", NEW o, StartFlush(o),
           UNCHANGED <<superblock, catalog>>, MemoryFilled',
           file_count' \in Nat,
           file_count <= file_count' + 1, file_count' <= file_count + 1
    PROVE  Layout'
<1>1. \A s \in Slots : Held(s) <=> s < file_count
  BY ImageHeld DEF Layout, CatalogInSync, Held
<1>2. Packed' /\ Loading' /\ Unformatted' /\ CatalogInSync'
  BY DEF Layout, StartFlush, Packed, Held, Loading, Unformatted, CatalogInSync
<1>3. Flushing'
  <2>1. pos' = 0 /\ UNCHANGED catalog
    BY DEF StartFlush
  <2>2. \A s \in Slots : ~(SectorOf(s) < 0)
    BY SectorOfSlot
  <2>3. file_count \in Nat /\ \A s \in Slots : s \in Nat
    BY SizesAssumption DEF TypeOK, Slots
  <2>5. ASSUME NEW s \in Slots
        PROVE  /\ SectorOf(s) < pos' => catalog'[s] = Image(s)'
               /\ SectorOf(s) >= pos' => /\ is_valid_entry(catalog'[s]) => s <= file_count'
                                         /\ s + 1 < file_count' => is_valid_entry(catalog'[s])
    <3>1. SectorOf(s) >= pos' /\ ~(SectorOf(s) < pos')
      BY <2>1, SectorOfSlot
    <3>2. is_valid_entry(catalog'[s]) => s <= file_count'
      <4> HAVE is_valid_entry(catalog'[s])
      <4> DEFINE count == file_count'
      <4>1. s < file_count
        BY <1>1, <2>1 DEF Held
      <4>2. count \in Nat /\ file_count <= count + 1
        OBVIOUS
      <4> HIDE DEF count
      <4>3. s <= count
        BY <2>3, <4>1, <4>2
      <4> QED
        BY <4>3 DEF count
    <3>3. s + 1 < file_count' => is_valid_entry(catalog'[s])
      BY <1>1, <2>1, <2>3 DEF Held
    <3> QED
      BY <3>1, <3>2, <3>3
  <2> QED
    BY <2>5 DEF Flushing, SectorOf, Held
<1> QED
  BY <1>2, <1>3 DEF Layout

(* The layout survives every step of a disk that answers.                  *)
LEMMA LayoutNext ==
    ASSUME DiskAnswers, TypeOK, TypeOK', Layout, Next
    PROVE  Layout'
<1> USE SizesAssumption
<1> DEFINE Valid(e) == is_valid_entry(e)
<1>0. \A s \in Slots : s \in Nat
  BY DEF Slots
<1>a. ~is_valid_entry(NoEntry)
  BY DEF NoEntry, MkEntry, is_valid_entry
<1>1. CASE FsInitRecognised
  BY <1>1, LayoutStutter DEF FsInitRecognised, disk, memory
<1>2. CASE FsInitFormat
  <2>1. MemoryFilled' /\ Packed'
    BY <1>2 DEF FsInitFormat, Layout, MemoryFilled, Packed, Held, memory
  <2>2. Loading' /\ Flushing' /\ CatalogInSync'
    BY <1>2 DEF FsInitFormat, Loading, Flushing, CatalogInSync
  <2>3. Unformatted'
    <3>1. superblock' = TRUE
      BY <1>2, WritesLand DEF FsInitFormat
    <3> QED
      BY <1>2, <3>1 DEF FsInitFormat, Layout, Unformatted, Held, memory
  <2> QED
    BY <2>1, <2>2, <2>3 DEF Layout
<1>3. CASE FormatCatalogSector
  <2>1. \A s \in Slots : Held(s)' => Held(s)
    BY <1>3, <1>a DEF FormatCatalogSector, Held
  <2>2. \A s \in Slots : Held(s)' => s = 0
    BY <1>3, <2>1 DEF FormatCatalogSector, Layout, Unformatted
  <2>3. MemoryFilled' /\ Packed'
    BY <1>3, <1>0, <2>2 DEF FormatCatalogSector, Layout, MemoryFilled, Packed, memory
  <2>4. Loading' /\ Flushing' /\ CatalogInSync'
    BY <1>3 DEF FormatCatalogSector, Loading, Flushing, CatalogInSync
  <2>5. Unformatted'
    BY <1>3, <2>2 DEF FormatCatalogSector, Layout, Unformatted, memory
  <2> QED
    BY <2>3, <2>4, <2>5 DEF Layout
<1>4. CASE FormatDataSector
  <2>1. MemoryFilled' /\ Packed'
    BY <1>4 DEF FormatDataSector, Layout, MemoryFilled, Packed, Held, memory
  <2>2. Loading'
    BY <1>0, <1>4 DEF FormatDataSector, Layout, Loading, Unformatted, memory
  <2>3. Flushing' /\ CatalogInSync'
    BY <1>4 DEF FormatDataSector, Flushing, CatalogInSync
  <2>4. Unformatted'
    BY <1>4 DEF FormatDataSector, Layout, Unformatted, Held, memory
  <2> QED
    BY <2>1, <2>2, <2>3, <2>4 DEF Layout
<1>5. CASE LoadSlot
  <2>0. pos \in Slots /\ pos \in Nat /\ file_count <= pos
    BY <1>5 DEF LoadSlot, TypeOK, Layout, Loading
  <2>1. UNCHANGED <<superblock, catalog>> /\ pc = "load"
    BY <1>5 DEF LoadSlot, disk
  <2>2. Packed' /\ Flushing' /\ Unformatted'
    BY <1>5, <2>1 DEF LoadSlot, Layout, Packed, Held, Flushing, Unformatted
  <2>5. ASSUME file_count' <= pos + 1, MemoryFilled',
               \A s \in Slots : s <= pos => catalog[s] = Image(s)'
        PROVE  Layout'
    <3>1. Loading'
      BY <1>0, <1>5, <2>0, <2>1, <2>5 DEF LoadSlot, Loading
    <3>2. CatalogInSync'
      BY <1>5, <2>0, <2>1, <2>5 DEF LoadSlot, CatalogInSync, Slots
    <3> QED
      BY <2>2, <2>5, <3>1, <3>2 DEF Layout
  <2>3. CASE Held(pos)
    <3>1. pos < MAX_FILES
      BY <2>0, <2>3 DEF Layout, Packed
    <3>2. file_count = pos
      <4> SUFFICES ASSUME file_count < pos PROVE FALSE
        BY <2>0 DEF TypeOK
      <4>1. file_count \in Slots
        BY <2>0 DEF Slots, TypeOK
      <4>2. Held(file_count)
        BY <2>0, <2>3, <4>1 DEF Layout, Packed
      <4>3. catalog[file_count] = Image(file_count)
        BY <2>1, <4>1 DEF Layout, Loading
      <4> QED
        BY <4>1, <4>2, <4>3, ImageHeld DEF Held, Layout, TypeOK
    <3>3. /\ entries' = [entries EXCEPT ![pos] = catalog[pos]]
          /\ file_count' = pos + 1
      BY <1>5, <2>3, <3>1, <3>2 DEF LoadSlot, Held
    <3>4. MemoryFilled'
      BY <2>0, <2>3, <3>1, <3>2, <3>3 DEF Layout, MemoryFilled, Held, TypeOK, Places
    <3>5. \A s \in Slots : s <= pos => catalog[s] = Image(s)'
      <4> SUFFICES ASSUME NEW s \in Slots, s <= pos
                   PROVE  catalog[s] = entries'[s]
        BY <1>0, <2>0, <3>3 DEF Image
      <4>1. s \in Places
        BY <1>0, <2>0, <3>1 DEF Places
      <4>2. CASE s = pos
        BY <3>3, <4>1, <4>2 DEF TypeOK
      <4>3. CASE s < pos
        BY <2>1, <3>2, <3>3, <4>1, <4>3 DEF TypeOK, Layout, Loading, Image
      <4> QED
        BY <1>0, <2>0, <4>2, <4>3
    <3> QED
      BY <2>0, <3>3, <3>4, <3>5, <2>5
  <2>4. CASE ~Held(pos)
    <3>1. UNCHANGED memory
      BY <1>5, <2>4 DEF LoadSlot, Held
    <3>2. MemoryFilled'
      BY <3>1 DEF Layout, MemoryFilled, memory
    <3>3. catalog[pos] = NoEntry
      BY <2>0, <2>4, ValidEntries DEF Held, TypeOK
    <3>4. Image(pos) = NoEntry
      BY <2>0, ImageHeld DEF Layout
    <3>5. \A s \in Slots : s <= pos => catalog[s] = Image(s)'
      <4>1. \A s \in Slots : Image(s)' = Image(s)
        BY <3>1 DEF Image, memory
      <4> QED
        BY <1>0, <2>0, <2>1, <3>3, <3>4, <4>1 DEF Layout, Loading
    <3> QED
      BY <2>0, <2>5, <3>1, <3>2, <3>5 DEF memory, TypeOK
  <2> QED
    BY <2>3, <2>4
<1>6. ASSUME NEW n \in Names \cup {NoName}, fs_create(n)
      PROVE  Layout'
  <2> DEFINE e == MkEntry(n, find_free_sector, 0)
  <2>1. /\ entries' = [entries EXCEPT ![file_count] = e]
        /\ file_count' = file_count + 1
        /\ file_count < MAX_FILES
        /\ pc = "idle"
        /\ UNCHANGED <<superblock, catalog>>
    BY <1>6 DEF fs_create
  <2>2. Valid(e)
    BY <1>6, FindFreeSector DEF fs_create, is_valid_entry, MkEntry, DataSectors
  <2> HIDE DEF e
  <2>3. MemoryFilled'
    BY <2>1, <2>2 DEF Layout, MemoryFilled, TypeOK, Places
  <2> QED
    BY <1>6, <2>1, <2>3, LayoutStartFlush DEF fs_create, TypeOK
<1>7. ASSUME NEW n \in Names, NEW x \in Texts, fs_write(n, x)
      PROVE  Layout'
  <2> DEFINE i == find_file(n)
             k == Clip(x).len
  <2>1. /\ entries' = [entries EXCEPT ![i].size = k]
        /\ UNCHANGED <<superblock, catalog, file_count>>
        /\ pc = "idle"
    BY <1>7 DEF fs_write
  <2>2. i \in Places /\ k \in 0 .. MAX_FILE_SIZE
    BY <1>7, FindFile, ClipContent DEF fs_write, TypeOK, Used, Places
  <2> HIDE DEF i, k
  <2>3. MemoryFilled'
    <3>1. i \in Used /\ i < file_count
      BY <1>7, FindFile DEF fs_write, TypeOK, Used, i
    <3>2. Valid(entries[i])
      BY <2>2, <3>1 DEF Layout, MemoryFilled
    <3>3. entries[i] \in [name : Names, sector : DataSectors, size : 0 .. MAX_FILE_SIZE]
      BY <1>a, <2>2, <3>2 DEF TypeOK, Entries
    <3>4. Valid([entries[i] EXCEPT !.size = k])
      BY <2>2, <3>2, <3>3 DEF is_valid_entry
    <3>5. \A j \in Places : entries'[j] = IF j = i THEN [entries[i] EXCEPT !.size = k]
                                         ELSE entries[j]
      BY <2>1 DEF TypeOK
    <3> QED
      BY <2>1, <3>1, <3>4, <3>5 DEF Layout, MemoryFilled
  <2> QED
    BY <1>7, <2>1, <2>3, LayoutStartFlush DEF fs_write, TypeOK
<1>8. ASSUME NEW n \in Names, fs_delete(n)
      PROVE  Layout'
  <2> DEFINE i == find_file(n)
  <2>1. /\ entries' = Without(i)
        /\ file_count' = file_count - 1
        /\ UNCHANGED <<superblock, catalog>>
        /\ pc = "idle"
    BY <1>8 DEF fs_delete
  <2>2. i \in Used
    BY <1>8, FindFile DEF fs_delete, TypeOK
  <2>3. file_count \in 1 .. MAX_FILES
    BY <2>2 DEF TypeOK, Used
  <2>4. MemoryFilled'
    <3> SUFFICES ASSUME NEW j \in Places
                 PROVE  j < file_count' <=> Valid(entries'[j])
      BY DEF MemoryFilled
    <3>1. CASE j >= file_count - 1
      BY <1>a, <2>1, <2>3, <3>1 DEF Without, Places
    <3>2. CASE j < file_count - 1
      <4>1. j \in Places /\ j + 1 \in Places /\ j < file_count /\ j + 1 < file_count
        BY <2>3, <3>2 DEF Places
      <4>2. Valid(entries[j]) /\ Valid(entries[j + 1])
        BY <4>1 DEF Layout, MemoryFilled
      <4>3. entries'[j] = entries[j] \/ entries'[j] = entries[j + 1]
        BY <2>1, <2>3, <3>2 DEF Without, Places
      <4> QED
        BY <2>1, <3>2, <4>2, <4>3
    <3> QED
      BY <2>3, <3>1, <3>2 DEF Places
  <2> QED
    BY <1>8, <2>1, <2>3, <2>4, LayoutStartFlush DEF fs_delete, TypeOK
<1>9. ASSUME NEW o, Refuse(o)
      PROVE  Layout'
  BY <1>9, LayoutStutter DEF Refuse, disk, memory
<1>10. CASE FlushSector
  <2>0. /\ pc = "flush" /\ pos \in Nat /\ file_count \in 0 .. MAX_FILES
        /\ UNCHANGED <<superblock, entries, file_count>>
    BY <1>10 DEF FlushSector, FlushSectorOf, TypeOK, memory
  <2>2. \A s \in Slots : catalog'[s] = IF SectorOf(s) = pos THEN Image(s) ELSE catalog[s]
    <3>1. PICK landed \in Landed :
             catalog' = [s \in Slots |->
                            IF landed /\ SectorOf(s) = pos THEN Image(s) ELSE catalog[s]]
      BY <1>10, Zenon DEF FlushSector, FlushSectorOf
    <3>2. landed = TRUE
      BY WritesLand
    <3> QED
      BY <3>1, <3>2
  <2>3. \A s \in Slots : SectorOf(s) \in Nat
    BY SectorOfSlot
  <2>4. \A s \in Slots : SectorOf(s) <= pos => catalog'[s] = Image(s)
    BY <2>0, <2>2, <2>3 DEF Layout, Flushing
  <2>5. \A s \in Slots : SectorOf(s) <= pos => (Valid(catalog'[s]) <=> s < file_count)
    BY <2>4, ImageHeld DEF Layout
  <2>6. \A s \in Slots : SectorOf(s) > pos => catalog'[s] = catalog[s]
    BY <2>0, <2>2, <2>3
  <2>12. \A s \in Slots : SectorOf(s) > pos => (Valid(catalog[s]) => s <= file_count)
    BY <2>0, <2>3 DEF Layout, Flushing, Held
  <2>13. \A s \in Slots : SectorOf(s) > pos => (s + 1 < file_count => Valid(catalog[s]))
    BY <2>0, <2>3 DEF Layout, Flushing, Held
  <2>7. Packed'
    <3>1. ASSUME NEW s \in Slots, NEW r \in Slots, s < r, Valid(catalog'[r])
          PROVE  Valid(catalog'[s])
      <4>1. SectorOf(s) <= SectorOf(r)
        BY <3>1, SectorOfSlot
      <4>2. CASE SectorOf(s) > pos
        BY <2>0, <2>3, <2>6, <3>1, <4>1, <4>2 DEF Layout, Packed, Held
      <4>3. CASE SectorOf(s) <= pos
        <5>1. s \in Nat /\ r \in Nat
          BY <1>0
        <5>2. r <= file_count
          <6>1. CASE SectorOf(r) <= pos
            BY <2>0, <2>5, <3>1, <5>1, <6>1
          <6>2. CASE SectorOf(r) > pos
            BY <2>6, <2>12, <3>1, <6>2
          <6> QED
            BY <2>0, <2>3, <6>1, <6>2
        <5> QED
          BY <2>0, <2>5, <3>1, <4>3, <5>1, <5>2
      <4> QED
        BY <2>0, <2>3, <4>2, <4>3
    <3>2. ASSUME NEW s \in Slots, Valid(catalog'[s])
          PROVE  s < MAX_FILES
      <4>1. CASE SectorOf(s) <= pos
        BY <1>0, <2>0, <2>5, <3>2, <4>1
      <4>2. CASE SectorOf(s) > pos
        BY <2>6, <3>2, <4>2 DEF Layout, Packed, Held
      <4> QED
        BY <2>0, <2>3, <4>1, <4>2
    <3> QED
      BY <3>1, <3>2 DEF Packed, Held
  <2>8. Flushing'
    <3> SUFFICES ASSUME pc' = "flush", NEW s \in Slots
                 PROVE  /\ SectorOf(s) < pos' => catalog'[s] = Image(s)'
                        /\ SectorOf(s) >= pos' =>
                              /\ Valid(catalog'[s]) => s <= file_count'
                              /\ s + 1 < file_count' => Valid(catalog'[s])
      BY DEF Flushing, SectorOf, Held
    <3>1. pos' = pos + 1
      BY <1>10 DEF FlushSector, FlushSectorOf
    <3> QED
      <4>1. CASE SectorOf(s) <= pos
        BY <2>0, <2>3, <2>4, <3>1, <4>1 DEF Image
      <4>2. CASE SectorOf(s) > pos
        BY <2>0, <2>3, <2>6, <2>12, <2>13, <3>1, <4>2
      <4> QED
        BY <2>0, <2>3, <4>1, <4>2
  <2>9. CatalogInSync'
    <3> SUFFICES ASSUME pc' = "idle", NEW s \in Slots
                 PROVE  catalog'[s] = Image(s)'
      BY DEF CatalogInSync
    <3>1. pos + 1 >= CATALOG_SECTORS
      BY <1>10 DEF FlushSector, FlushSectorOf, FlushStops
    <3>2. SectorOf(s) <= pos
      BY <2>0, <2>3, <3>1, SectorOfSlot
    <3> QED
      BY <2>0, <2>4, <3>2 DEF Image
  <2>10. MemoryFilled'
    BY <2>0 DEF Layout, MemoryFilled
  <2>11. Loading' /\ Unformatted'
    BY <1>10, <2>0 DEF FlushSector, FlushSectorOf, Layout, Loading, Unformatted
  <2> QED
    BY <2>7, <2>8, <2>9, <2>10, <2>11 DEF Layout
<1>11. CASE PowerLoss
  <2>1. MemoryFilled'
    BY <1>11, <1>a DEF PowerLoss, MemoryFilled, Places
  <2>2. Packed' /\ Loading' /\ Flushing' /\ CatalogInSync'
    BY <1>11 DEF PowerLoss, Layout, Packed, Held, Loading, Flushing, CatalogInSync, disk
  <2>3. Unformatted'
    BY <1>11 DEF PowerLoss, Layout, Unformatted, Held, disk
  <2> QED
    BY <2>1, <2>2, <2>3 DEF Layout
<1> QED
  BY <1>1, <1>2, <1>3, <1>4, <1>5, <1>6, <1>7, <1>8, <1>9, <1>10, <1>11
     DEF Next, Boot, Operation, FsInitUnavailable, LoadFails, DiskAnswers,
         fs_create_refused, fs_write_refused, fs_delete_refused

-----------------------------------------------------------------------------
(* No file is cross-linked.                                                *)

Known == MemoryEntries \cup DiskEntries

(* A step that brings no new pair of a name and a sector brings no link.   *)
LEMMA LinksKept ==
    ASSUME NoCrossLink,
           \A e \in Known' : \E f \in Known : f.name = e.name /\ f.sector = e.sector
    PROVE  NoCrossLink'
<1> SUFFICES ASSUME NEW e \in Known', NEW f \in Known'
             PROVE  SameFile(e, f)
  BY DEF NoCrossLink, Known
<1>1. PICK e0 \in Known : e0.name = e.name /\ e0.sector = e.sector
  OBVIOUS
<1>2. PICK f0 \in Known : f0.name = f.name /\ f0.sector = f.sector
  OBVIOUS
<1>3. SameFile(e0, f0)
  BY DEF NoCrossLink, Known
<1> QED
  BY <1>1, <1>2, <1>3 DEF SameFile

(* Between calls every entry on disk is in memory.                         *)
LEMMA IdleDisk ==
    ASSUME TypeOK, MemoryFilled, CatalogInSync, pc = "idle"
    PROVE  DiskEntries \subseteq MemoryEntries
<1> SUFFICES ASSUME NEW s \in Slots, is_valid_entry(catalog[s])
             PROVE  catalog[s] \in MemoryEntries
  BY DEF DiskEntries
<1>1. catalog[s] = Image(s)
  BY DEF CatalogInSync
<1>2. s < file_count
  BY <1>1, ImageHeld
<1>3. s \in Used /\ Image(s) = entries[s]
  BY <1>2, SizesAssumption DEF Used, Slots, TypeOK, Image
<1> QED
  BY <1>1, <1>3 DEF MemoryEntries

LEMMA LinkInit == Init => NoCrossLink
<1> SUFFICES ASSUME Init PROVE NoCrossLink
  OBVIOUS
<1>1. MemoryEntries = {}
  BY DEF Init, MemoryEntries, Used
<1>2. \A e \in DiskEntries : e = MkEntry(Hello, DATA_START_SECTOR, HelloText.len)
  BY DEF Init, DiskEntries, is_valid_entry, NoEntry, MkEntry
<1> QED
  BY <1>1, <1>2 DEF NoCrossLink, SameFile

LEMMA LinkNext ==
    ASSUME DiskAnswers, TypeOK, TypeOK', Layout, Next, NoCrossLink
    PROVE  NoCrossLink'
<1> USE SizesAssumption
<1> DEFINE Same(e, f) == f.name = e.name /\ f.sector = e.sector
<1>0. \A i \in Used : entries[i] \in Known
  BY DEF Known, MemoryEntries
<1>1. CASE UNCHANGED <<catalog, entries, file_count>>
  BY <1>1, LinksKept DEF Known, MemoryEntries, DiskEntries, Used
<1>2. CASE FormatCatalogSector
  <2>1. DiskEntries' \subseteq DiskEntries
    <3>1. ~is_valid_entry(NoEntry)
      BY DEF NoEntry, MkEntry, is_valid_entry
    <3>2. \A s \in Slots : catalog'[s] = NoEntry \/ catalog'[s] = catalog[s]
      BY <1>2 DEF FormatCatalogSector
    <3> QED
      BY <3>1, <3>2 DEF DiskEntries
  <2>2. MemoryEntries' = MemoryEntries
    BY <1>2 DEF FormatCatalogSector, MemoryEntries, Used, memory
  <2> QED
    BY <2>1, <2>2, LinksKept DEF Known
<1>3. CASE LoadSlot
  <2>1. DiskEntries' = DiskEntries
    BY <1>3 DEF LoadSlot, DiskEntries, disk
  <2>2. CASE UNCHANGED memory
    BY <2>1, <2>2, LinksKept DEF Known, MemoryEntries, Used, memory
  <2>3. CASE /\ is_valid_entry(catalog[pos])
             /\ file_count < MAX_FILES
             /\ entries' = [entries EXCEPT ![file_count] = catalog[pos]]
             /\ file_count' = file_count + 1
    <3>1. catalog[pos] \in Known
      BY <1>3, <2>3 DEF LoadSlot, TypeOK, Known, DiskEntries
    <3>2. \A i \in Used' : entries'[i] = catalog[pos] \/ (i \in Used /\ entries'[i] = entries[i])
      BY <2>3 DEF Used, TypeOK, Places
    <3>3. MemoryEntries' \subseteq Known
      BY <1>0, <3>1, <3>2 DEF MemoryEntries
    <3> QED
      BY <2>1, <3>3, LinksKept DEF Known
  <2> QED
    BY <1>3, <2>2, <2>3 DEF LoadSlot
<1>4. ASSUME NEW n \in Names \cup {NoName}, fs_create(n)
      PROVE  NoCrossLink'
  <2> DEFINE sector == find_free_sector
             new == MkEntry(n, sector, 0)
  <2>1. /\ entries' = [entries EXCEPT ![file_count] = new]
        /\ file_count' = file_count + 1
        /\ file_count < MAX_FILES
        /\ pc = "idle"
        /\ catalog' = catalog
    BY <1>4 DEF fs_create
  <2>2. \A i \in Used : entries[i].name # n /\ entries[i].sector # sector
    BY <1>4, FindFile, FindFreeSector DEF fs_create, TypeOK
  <2>3. new.name = n /\ new.sector = sector
    BY DEF MkEntry
  <2> HIDE DEF new, sector
  <2>4. Known = MemoryEntries
    BY <2>1, IdleDisk DEF Layout, Known
  <2>5. DiskEntries' = DiskEntries
    BY <2>1 DEF DiskEntries
  <2>6. \A i \in Used' : entries'[i] = new \/ (i \in Used /\ entries'[i] = entries[i])
    BY <2>1 DEF Used, TypeOK, Places
  <2>7. Known' \subseteq Known \cup {new}
    BY <1>0, <2>5, <2>6 DEF MemoryEntries, Known
  <2>8. \A e \in Known : e.name # n /\ e.sector # sector
    BY <2>2, <2>4 DEF MemoryEntries
  <2>9. \A e, f \in Known \cup {new} : SameFile(e, f)
    BY <2>3, <2>8 DEF NoCrossLink, SameFile, Known
  <2> QED
    BY <2>7, <2>9 DEF NoCrossLink, Known
<1>5. ASSUME NEW n \in Names, NEW x \in Texts, fs_write(n, x)
      PROVE  NoCrossLink'
  <2> DEFINE i == find_file(n)
             k == Clip(x).len
  <2>1. /\ entries' = [entries EXCEPT ![i].size = k]
        /\ UNCHANGED <<catalog, file_count>>
    BY <1>5 DEF fs_write
  <2>2. i \in Used /\ i \in Places
    BY <1>5, FindFile DEF fs_write, TypeOK, Used, Places
  <2>3. entries[i] \in [name : Names, sector : DataSectors, size : 0 .. MAX_FILE_SIZE]
    BY <1>5, FindFile, NamesAssumption, <2>2 DEF fs_write, TypeOK, Entries, NoEntry, MkEntry
  <2> HIDE DEF i, k
  <2>4. \A j \in Used : Same(entries'[j], entries[j])
    BY <2>1, <2>2, <2>3 DEF TypeOK, Used, Places
  <2>5. Used' = Used /\ DiskEntries' = DiskEntries
    BY <2>1 DEF Used, DiskEntries
  <2>6. \A e \in Known' : \E f \in Known : Same(e, f)
    BY <1>0, <2>4, <2>5 DEF MemoryEntries, Known
  <2> QED
    BY <2>6, LinksKept
<1>6. ASSUME NEW n \in Names, fs_delete(n)
      PROVE  NoCrossLink'
  <2> DEFINE i == find_file(n)
  <2>1. /\ entries' = Without(i)
        /\ file_count' = file_count - 1
        /\ catalog' = catalog
    BY <1>6 DEF fs_delete
  <2>2. i \in Used
    BY <1>6, FindFile DEF fs_delete, TypeOK
  <2> HIDE DEF i
  <2>3. \A j \in Used' : \E l \in Used : entries'[j] = entries[l]
    <3> SUFFICES ASSUME NEW j \in 0 .. (file_count - 2)
                 PROVE  \E l \in Used : Without(i)[j] = entries[l]
      BY <2>1 DEF Used, TypeOK
    <3>1. j \in Used /\ j + 1 \in Used /\ j \in Places /\ ~(j >= file_count - 1)
      BY DEF Used, TypeOK, Places
    <3>2. Without(i)[j] = entries[j] \/ Without(i)[j] = entries[j + 1]
      BY <3>1 DEF Without
    <3> QED
      BY <3>1, <3>2
  <2>4. MemoryEntries' \subseteq Known /\ DiskEntries' = DiskEntries
    BY <1>0, <2>1, <2>3 DEF MemoryEntries, DiskEntries
  <2> QED
    BY <2>4, LinksKept DEF Known
<1>7. CASE FlushSector
  <2>1. \A s \in Slots : catalog'[s] = catalog[s] \/ catalog'[s] = Image(s)
    BY <1>7 DEF FlushSector, FlushSectorOf
  <2>2. \A s \in Slots : is_valid_entry(Image(s)) => Image(s) \in Known
    <3> SUFFICES ASSUME NEW s \in Slots, is_valid_entry(Image(s))
                 PROVE  Image(s) \in Known
      OBVIOUS
    <3>1. s < file_count
      BY ImageHeld DEF Layout
    <3> QED
      BY <1>0, <3>1 DEF Image, Used, Slots, TypeOK
  <2>3. DiskEntries' \subseteq Known
    BY <2>1, <2>2 DEF DiskEntries, Known
  <2>4. MemoryEntries' = MemoryEntries
    BY <1>7 DEF FlushSector, FlushSectorOf, MemoryEntries, Used, memory
  <2> QED
    BY <2>3, <2>4, LinksKept DEF Known
<1>8. CASE PowerLoss
  <2>1. MemoryEntries' = {} /\ DiskEntries' = DiskEntries
    BY <1>8 DEF PowerLoss, MemoryEntries, Used, DiskEntries, disk
  <2> QED
    BY <2>1, LinksKept DEF Known
<1> QED
  BY <1>1, <1>2, <1>3, <1>4, <1>5, <1>6, <1>7, <1>8
     DEF Next, Boot, Operation, FsInitUnavailable, FsInitRecognised, FsInitFormat,
         FormatDataSector, LoadFails, Refuse, fs_create_refused, fs_write_refused,
         fs_delete_refused, disk, memory

-----------------------------------------------------------------------------
(* The theorems.                                                           *)

LEMMA Inductive ==
    ASSUME DiskAnswers
    PROVE  /\ Init => IInv
           /\ IInv /\ [Next]_vars => IInv'
<1>1. Init => IInv
  BY TypeInit, LayoutInit, LinkInit DEF IInv
<1>2. ASSUME IInv, [Next]_vars PROVE IInv'
  <2>1. TypeOK'
    BY <1>2, TypeNext DEF IInv
  <2>2. CASE Next
    BY <1>2, <2>1, <2>2, LayoutNext, LinkNext DEF IInv
  <2>3. CASE UNCHANGED vars
    <3>1. NoCrossLink'
      BY <1>2, <2>3, LinksKept
         DEF IInv, vars, Known, MemoryEntries, DiskEntries, Used
    <3>2. Layout'
      BY <1>2, <2>3, LayoutStutter DEF IInv, vars
    <3> QED
      BY <2>1, <3>1, <3>2 DEF IInv
  <2> QED
    BY <1>2, <2>2, <2>3
<1> QED
  BY <1>1, <1>2

(* On a disk that answers, with the power failing between any two sector   *)
(* writes, two entries in memory or on disk have the same name exactly     *)
(* when they have the same data sector: no create, write, delete or reboot *)
(* gives two files one sector.                                             *)
THEOREM NoFileIsCrossLinked ==
    ASSUME DiskAnswers
    PROVE  Spec => []NoCrossLink
<1>1. Init => IInv
  BY Inductive
<1>2. IInv /\ [Next]_vars => IInv'
  BY Inductive
<1>3. IInv => NoCrossLink
  BY DEF IInv
<1> QED
  BY <1>1, <1>2, <1>3, PTL DEF Spec

(* On such a disk, whenever no call is being served, the catalogue on disk *)
(* is slot for slot the one in memory.                                     *)
THEOREM DiskFollowsMemory ==
    ASSUME DiskAnswers
    PROVE  Spec => []CatalogInSync
<1>1. Init => IInv
  BY Inductive
<1>2. IInv /\ [Next]_vars => IInv'
  BY Inductive
<1>3. IInv => CatalogInSync
  BY DEF IInv, Layout
<1> QED
  BY <1>1, <1>2, <1>3, PTL DEF Spec

(* On any disk, while the catalogue has room for an entry there is a data  *)
(* sector no entry uses: there are MAX_FILES of them, and two sectors are  *)
(* never those of one entry.                                               *)
LEMMA RoomForData == TypeOK => FreeSectorExists
<1> SUFFICES ASSUME TypeOK, file_count < MAX_FILES, FreeSectors(DataSectors, Used) = {}
             PROVE  FALSE
  BY FindFreeSector DEF FreeSectorExists
<1> DEFINE user == [s \in DataSectors |-> CHOOSE i \in Used : entries[i].sector = s]
<1>1. \A s \in DataSectors : \E i \in Used : entries[i].sector = s
  BY DEF FreeSectors
<1>2. \A s \in DataSectors : user[s] \in Used /\ entries[user[s]].sector = s
  BY <1>1
<1>3. user \in [DataSectors -> Used]
  BY <1>2
<1>4. IsFiniteSet(DataSectors) /\ Cardinality(DataSectors) = MAX_FILES
  <2> DEFINE low == DATA_START_SECTOR
             high == DATA_START_SECTOR + MAX_FILES - 1
  <2>1. low \in Int /\ high \in Int /\ high - low + 1 = MAX_FILES /\ low <= high
    BY SizesAssumption
  <2> HIDE DEF low, high
  <2>2. IsFiniteSet(low .. high) /\ Cardinality(low .. high) = MAX_FILES
    BY <2>1, FS_Interval
  <2> QED
    BY <2>2 DEF DataSectors, low, high
<1>5. IsFiniteSet(Used) /\ Cardinality(Used) = file_count
  <2> DEFINE high == file_count - 1
  <2>1. high \in Int /\ (0 > high => file_count = 0) /\ high - 0 + 1 = file_count
    BY SizesAssumption DEF TypeOK
  <2> HIDE DEF high
  <2>2. IsFiniteSet(0 .. high) /\ Cardinality(0 .. high) = file_count
    BY <2>1, FS_Interval
  <2> QED
    BY <2>2 DEF Used, high
<1>6. Cardinality(Used) < Cardinality(DataSectors)
  BY <1>4, <1>5
<1>7. \E s, r \in DataSectors : s # r /\ user[s] = user[r]
  <2> HIDE DEF user
  <2> DEFINE S == DataSectors
             T == Used
  <2>1. IsFiniteSet(S) /\ IsFiniteSet(T) /\ Cardinality(T) < Cardinality(S) /\ user \in [S -> T]
    BY <1>3, <1>4, <1>5, <1>6
  <2> HIDE DEF S, T
  <2>2. \E s, r \in S : s # r /\ user[s] = user[r]
    BY <2>1, FS_PigeonHole
  <2> QED
    BY <2>2 DEF S, T
<1> HIDE DEF user
<1> QED
  BY <1>2, <1>7

(* The second check of fs_create never fails, whatever the disk did.       *)
THEOREM RoomMeansSector == Spec => []FreeSectorExists
<1> QED
  BY TypeInit, TypeNext, RoomForData, PTL DEF Spec

-----------------------------------------------------------------------------
(* What the answers are worth.                                             *)

Answered == {"busy", "ok"}

\* Nothing is answered before the system has booted, and only a call that is being
\* served rewrites the catalogue.
Quiet ==
    /\ pc \notin {"idle", "flush"} => reply = "none"
    /\ pc = "flush" => reply = "busy"

LEMMA QuietInit == Init => Quiet
BY DEF Init, Quiet

LEMMA QuietNext == Quiet /\ [Next]_vars => Quiet'
<1> SUFFICES ASSUME Quiet, [Next]_vars PROVE Quiet'
  OBVIOUS
<1>1. CASE UNCHANGED vars
  BY <1>1 DEF vars, Quiet
<1>2. CASE Boot
  BY <1>2 DEF Boot, FsInitUnavailable, FsInitRecognised, FsInitFormat, FormatCatalogSector,
              FormatDataSector, LoadSlot, LoadFails, Quiet
<1>3. CASE Operation
  BY <1>3 DEF Operation, fs_create, fs_create_refused, fs_write, fs_write_refused, fs_delete,
              fs_delete_refused, Refuse, StartFlush, Quiet
<1>4. CASE FlushSector
  BY <1>4 DEF FlushSector, FlushSectorOf, Quiet
<1>5. CASE PowerLoss
  BY <1>5 DEF PowerLoss, Quiet
<1> QED
  BY <1>1, <1>2, <1>3, <1>4, <1>5 DEF Next

-----------------------------------------------------------------------------
(* A session: the power does not fail.                                     *)

\* The disk a session starts from holds one entry at most, in slot 0.
Booting ==
    /\ pc \in {"off", "format_catalog", "format_data", "load"} =>
          \A s \in Slots : s # 0 => catalog[s] = NoEntry
    /\ pc \in {"off", "format_catalog", "format_data"} => file_count = 0
    /\ pc = "load" => file_count <= 1 /\ (pos = 0 => file_count = 0)

\* From the moment fs_delete has moved the entries down.
Gone ==
    (op.kind = "delete" /\ reply \in Answered) => \A i \in Used : entries[i].name # op.name

SessionInv == TypeOK /\ Quiet /\ Booting /\ EntriesDistinct /\ Gone

LEMMA FewAreDistinct == ASSUME TypeOK, file_count <= 1 PROVE EntriesDistinct
BY SizesAssumption DEF TypeOK, EntriesDistinct, Used

LEMMA SessionInit == Init => SessionInv
<1> SUFFICES ASSUME Init PROVE SessionInv
  OBVIOUS
<1>1. TypeOK /\ Quiet
  BY TypeInit, QuietInit
<1>2. Booting
  BY DEF Init, Booting
<1>3. EntriesDistinct
  BY DEF Init, EntriesDistinct, Used
<1>4. Gone
  BY DEF Init, Gone, Answered
<1> QED
  BY <1>1, <1>2, <1>3, <1>4 DEF SessionInv

LEMMA BootingNext ==
    ASSUME ~PowerLosses, TypeOK, Booting, Next
    PROVE  Booting'
<1> USE SizesAssumption
<1>1. CASE FsInitUnavailable \/ FsInitRecognised \/ FsInitFormat
  BY <1>1 DEF FsInitUnavailable, FsInitRecognised, FsInitFormat, Booting, disk, memory
<1>2. CASE FormatCatalogSector
  BY <1>2 DEF FormatCatalogSector, Booting, memory
<1>3. CASE FormatDataSector
  BY <1>3 DEF FormatDataSector, Booting, memory
<1>4. CASE LoadSlot
  <2>1. UNCHANGED catalog /\ \A s \in Slots : s # 0 => catalog[s] = NoEntry
    BY <1>4 DEF LoadSlot, Booting, disk
  <2>2. pos \in Nat /\ pos \in Slots /\ file_count \in Nat
    BY <1>4 DEF LoadSlot, TypeOK, Slots
  <2>3. file_count' <= 1
    <3>1. CASE pos = 0
      BY <1>4, <3>1 DEF LoadSlot, Booting, memory
    <3>2. CASE pos # 0
      BY <1>4, <2>1, <2>2, <3>2 DEF LoadSlot, Booting, is_valid_entry, NoEntry, MkEntry, memory
    <3> QED
      BY <3>1, <3>2
  <2>4. pc' = "load" => pos' # 0
    BY <1>4, <2>2 DEF LoadSlot
  <2> QED
    BY <1>4, <2>1, <2>3, <2>4 DEF LoadSlot, Booting
<1>5. CASE LoadFails
  BY <1>5 DEF LoadFails, Booting
<1>6. CASE Operation
  BY <1>6 DEF Operation, fs_create, fs_create_refused, fs_write, fs_write_refused, fs_delete,
              fs_delete_refused, Refuse, StartFlush, Booting
<1>7. CASE FlushSector
  BY <1>7 DEF FlushSector, FlushSectorOf, Booting
<1> QED
  BY <1>1, <1>2, <1>3, <1>4, <1>5, <1>6, <1>7 DEF Next, Boot, PowerLoss

\* Deleting takes out one entry and keeps the order of the others.
LEMMA DeletedEntry ==
    ASSUME TypeOK, NEW n \in Names, fs_delete(n)
    PROVE  \E i \in Used :
              /\ entries[i].name = n
              /\ file_count' = file_count - 1
              /\ \A j \in Used' : \/ j < i /\ j \in Used /\ entries'[j] = entries[j]
                                  \/ j >= i /\ j + 1 \in Used /\ entries'[j] = entries[j + 1]
<1> USE SizesAssumption
<1> DEFINE i == find_file(n)
<1>1. i \in Used /\ entries[i].name = n
  BY FindFile DEF fs_delete, TypeOK
<1>2. entries' = Without(i) /\ file_count' = file_count - 1
  BY DEF fs_delete
<1> HIDE DEF i
<1>3. ASSUME NEW j \in Used'
      PROVE  \/ j < i /\ j \in Used /\ entries'[j] = entries[j]
             \/ j >= i /\ j + 1 \in Used /\ entries'[j] = entries[j + 1]
  <2>1. /\ j \in Used /\ j + 1 \in Used /\ j \in Places /\ ~(j >= file_count - 1)
        /\ j \in Int /\ i \in Int
    BY <1>1, <1>2 DEF Used, TypeOK, Places
  <2>2. Without(i)[j] = IF j < i THEN entries[j] ELSE entries[j + 1]
    BY <2>1 DEF Without
  <2> QED
    BY <1>2, <2>1, <2>2
<1> QED
  BY <1>1, <1>2, <1>3

LEMMA DistinctNext ==
    ASSUME ~PowerLosses, TypeOK, TypeOK', Booting, Booting', EntriesDistinct, Next
    PROVE  EntriesDistinct'
<1> USE SizesAssumption
<1>1. CASE UNCHANGED memory
  BY <1>1 DEF EntriesDistinct, Used, memory
<1>2. CASE LoadSlot
  <2>1. file_count' <= 1
    <3>1. CASE pos = 0
      BY <1>2, <3>1 DEF LoadSlot, Booting, memory
    <3>2. CASE pos # 0
      BY <1>2, <3>2 DEF LoadSlot, TypeOK, Booting, is_valid_entry, NoEntry, MkEntry, memory
    <3> QED
      BY <3>1, <3>2
  <2> DEFINE count == file_count'
  <2>2. count \in Nat /\ count <= 1
    BY <2>1 DEF TypeOK
  <2> HIDE DEF count
  <2>3. \A i \in 0 .. (count - 1) : i = 0
    BY <2>2
  <2>4. \A i \in Used' : i = 0
    BY <2>3 DEF Used, count
  <2> QED
    BY <2>4 DEF EntriesDistinct
<1>3. ASSUME NEW n \in Names \cup {NoName}, fs_create(n)
      PROVE  EntriesDistinct'
  <2> DEFINE sector == find_free_sector
             new == MkEntry(n, sector, 0)
  <2>1. /\ entries' = [entries EXCEPT ![file_count] = new]
        /\ file_count' = file_count + 1
        /\ file_count < MAX_FILES
    BY <1>3 DEF fs_create
  <2>2. \A i \in Used : entries[i].name # n /\ entries[i].sector # sector
    BY <1>3, FindFile, FindFreeSector DEF fs_create, TypeOK
  <2>3. new.name = n /\ new.sector = sector
    BY DEF MkEntry
  <2> HIDE DEF new, sector
  <2>4. \A i \in Used' : \/ i = file_count /\ entries'[i] = new
                         \/ i # file_count /\ i \in Used /\ entries'[i] = entries[i]
    BY <2>1 DEF Used, TypeOK, Places
  <2> QED
    BY <2>2, <2>3, <2>4 DEF EntriesDistinct
<1>4. ASSUME NEW n \in Names, NEW x \in Texts, fs_write(n, x)
      PROVE  EntriesDistinct'
  <2> DEFINE i == find_file(n)
             k == Clip(x).len
  <2>1. entries' = [entries EXCEPT ![i].size = k] /\ file_count' = file_count
    BY <1>4 DEF fs_write
  <2>2. i \in Used /\ i \in Places /\ entries[i].name = n
    BY <1>4, FindFile DEF fs_write, TypeOK, Used, Places
  <2>3. entries[i] \in [name : Names, sector : DataSectors, size : 0 .. MAX_FILE_SIZE]
    BY <2>2, NamesAssumption DEF TypeOK, Entries, NoEntry, MkEntry
  <2> HIDE DEF i, k
  <2>4. \A j \in Used : /\ entries'[j].name = entries[j].name
                        /\ entries'[j].sector = entries[j].sector
    BY <2>1, <2>2, <2>3 DEF TypeOK, Used, Places
  <2> QED
    BY <2>1, <2>4 DEF EntriesDistinct, Used
<1>5. ASSUME NEW n \in Names, fs_delete(n)
      PROVE  EntriesDistinct'
  <2>1. PICK i \in Used :
           /\ entries[i].name = n
           /\ file_count' = file_count - 1
           /\ \A j \in Used' : \/ j < i /\ j \in Used /\ entries'[j] = entries[j]
                               \/ j >= i /\ j + 1 \in Used /\ entries'[j] = entries[j + 1]
    BY <1>5, DeletedEntry
  <2>2. ASSUME NEW j \in Used', NEW l \in Used', j # l
        PROVE  entries'[j].name # entries'[l].name /\ entries'[j].sector # entries'[l].sector
    <3>1. j \in Int /\ l \in Int /\ i \in Int
      BY <2>1 DEF Used
    <3>2. \E p, q \in Used : p # q /\ entries'[j] = entries[p] /\ entries'[l] = entries[q]
      <4>1. CASE j < i /\ l < i
        BY <2>1, <2>2, <3>1, <4>1
      <4>2. CASE j < i /\ l >= i
        BY <2>1, <2>2, <3>1, <4>2
      <4>3. CASE j >= i /\ l < i
        BY <2>1, <2>2, <3>1, <4>3
      <4>4. CASE j >= i /\ l >= i
        BY <2>1, <2>2, <3>1, <4>4
      <4> QED
        BY <3>1, <4>1, <4>2, <4>3, <4>4
    <3> QED
      BY <3>2 DEF EntriesDistinct
  <2> QED
    BY <2>2 DEF EntriesDistinct
<1> QED
  BY <1>1, <1>2, <1>3, <1>4, <1>5
     DEF Next, Boot, Operation, FsInitUnavailable, FsInitRecognised, FsInitFormat,
         FormatCatalogSector, FormatDataSector, LoadFails, FlushSector, FlushSectorOf, PowerLoss,
         Refuse, fs_create_refused, fs_write_refused, fs_delete_refused

LEMMA GoneNext ==
    ASSUME ~PowerLosses, TypeOK, Quiet, EntriesDistinct, Gone, Next
    PROVE  Gone'
<1>1. CASE Boot
  <2>1. reply' = "none"
    BY <1>1 DEF Boot, FsInitUnavailable, FsInitRecognised, FsInitFormat, FormatCatalogSector,
                FormatDataSector, LoadSlot, LoadFails, Quiet
  <2> QED
    BY <2>1 DEF Gone, Answered
<1>2. ASSUME NEW n \in Names, fs_delete(n)
      PROVE  Gone'
  <2>1. PICK i \in Used :
           /\ entries[i].name = n
           /\ file_count' = file_count - 1
           /\ \A j \in Used' : \/ j < i /\ j \in Used /\ entries'[j] = entries[j]
                               \/ j >= i /\ j + 1 \in Used /\ entries'[j] = entries[j + 1]
    BY <1>2, DeletedEntry
  <2>2. \A j \in Used' : entries'[j].name # n
    <3> SUFFICES ASSUME NEW j \in Used' PROVE entries'[j].name # n
      OBVIOUS
    <3>1. j \in Int /\ i \in Int
      BY <2>1 DEF Used
    <3>2. \E p \in Used : p # i /\ entries'[j] = entries[p]
      BY <2>1, <3>1
    <3> QED
      BY <2>1, <3>2 DEF EntriesDistinct
  <2>3. op'.name = n
    BY <1>2 DEF fs_delete, StartFlush, Call
  <2> QED
    BY <2>2, <2>3 DEF Gone
<1>3. ASSUME NEW n, fs_create(n)
      PROVE  Gone'
  BY <1>3 DEF fs_create, StartFlush, Call, Gone
<1>4. ASSUME NEW n, NEW x, fs_write(n, x)
      PROVE  Gone'
  BY <1>4 DEF fs_write, StartFlush, Call, Gone
<1>5. ASSUME NEW o, Refuse(o)
      PROVE  Gone'
  BY <1>5 DEF Refuse, Gone, Answered
<1>6. CASE FlushSector
  <2>1. UNCHANGED <<op, entries, file_count>> /\ reply \in Answered
    BY <1>6 DEF FlushSector, FlushSectorOf, memory, Quiet, Answered
  <2> QED
    BY <2>1 DEF Gone, Used
<1> QED
  BY <1>1, <1>2, <1>3, <1>4, <1>5, <1>6
     DEF Next, Operation, PowerLoss, fs_create_refused, fs_write_refused, fs_delete_refused

LEMMA SessionNext == ~PowerLosses /\ SessionInv /\ [Next]_vars => SessionInv'
<1> SUFFICES ASSUME ~PowerLosses, SessionInv, [Next]_vars PROVE SessionInv'
  OBVIOUS
<1>1. TypeOK' /\ Quiet'
  BY TypeNext, QuietNext DEF SessionInv
<1>2. CASE Next
  BY <1>1, <1>2, BootingNext, DistinctNext, GoneNext DEF SessionInv
<1>3. CASE UNCHANGED vars
  BY <1>1, <1>3 DEF vars, SessionInv, Booting, EntriesDistinct, Gone, Used
<1> QED
  BY <1>2, <1>3

(* As long as the power stays on, no name and no data sector is twice in   *)
(* the catalogue in memory, on any disk: fs_create refuses a name it finds *)
(* and takes a sector nobody has, and load_catalog loads one entry at most *)
(* from a disk fs_format has cleared, whichever writes were dropped.       *)
THEOREM EntriesStayDistinct ==
    ASSUME ~PowerLosses
    PROVE  Spec => []EntriesDistinct
<1>1. Init => SessionInv
  BY SessionInit
<1>2. SessionInv /\ [Next]_vars => SessionInv'
  BY SessionNext
<1>3. SessionInv => EntriesDistinct
  BY DEF SessionInv
<1> QED
  BY <1>1, <1>2, <1>3, PTL DEF Spec

(* As long as the power stays on, "File deleted" is true: fs_delete takes  *)
(* out the first entry of the name and there was no second, so fs_read     *)
(* does not find the file, on any disk.                                    *)
THEOREM DeletedFilesAreGone ==
    ASSUME ~PowerLosses
    PROVE  Spec => []DeleteRemoves
<1>1. Init => SessionInv
  BY SessionInit
<1>2. SessionInv /\ [Next]_vars => SessionInv'
  BY SessionNext
<1>3. SessionInv => DeleteRemoves
  <2> SUFFICES ASSUME SessionInv, reply = "ok", op.kind = "delete"
               PROVE  fs_read(op.name) = Absent
    BY DEF DeleteRemoves
  <2>1. \A i \in Used : entries[i].name # op.name
    BY DEF SessionInv, Gone, Answered
  <2>2. find_file(op.name) = MAX_FILES
    BY <2>1, FindFile DEF SessionInv, TypeOK
  <2> QED
    BY <2>2 DEF fs_read
<1> QED
  BY <1>1, <1>2, <1>3, PTL DEF Spec

-----------------------------------------------------------------------------
(* A disk that answers, whenever the power fails.                          *)

\* From the moment fs_write has stored the text.
Written ==
    (op.kind = "write" /\ reply \in Answered) =>
        LET i == find_file(op.name)
        IN  /\ i \in Used
            /\ entries[i].size = Clip(op.text).len
            /\ data[entries[i].sector] = Clip(op.text)

LEMMA WrittenNext ==
    ASSUME DiskAnswers, TypeOK, Quiet, Written, Next
    PROVE  Written'
<1> USE SizesAssumption
<1>1. CASE Boot
  <2>1. reply' = "none"
    BY <1>1 DEF Boot, FsInitUnavailable, FsInitRecognised, FsInitFormat, FormatCatalogSector,
                FormatDataSector, LoadSlot, LoadFails, Quiet
  <2> QED
    BY <2>1 DEF Written, Answered
<1>2. ASSUME NEW n, fs_delete(n)
      PROVE  Written'
  BY <1>2 DEF fs_delete, StartFlush, Call, Written
<1>3. ASSUME NEW n, fs_create(n)
      PROVE  Written'
  BY <1>3 DEF fs_create, StartFlush, Call, Written
<1>4. ASSUME NEW n \in Names, NEW x \in Texts, fs_write(n, x)
      PROVE  Written'
  <2> DEFINE i == find_file(n)
             c == Clip(x)
             sector == entries[i].sector
  <2>1. /\ entries' = [entries EXCEPT ![i].size = c.len]
        /\ file_count' = file_count
        /\ op' = Call("write", n, x)
    BY <1>4 DEF fs_write, StartFlush
  <2>2. i \in Used /\ i \in Places /\ entries[i].name = n
    BY <1>4, FindFile DEF fs_write, TypeOK, Used, Places
  <2>3. entries[i] \in [name : Names, sector : DataSectors, size : 0 .. MAX_FILE_SIZE]
    BY <2>2, NamesAssumption DEF TypeOK, Entries, NoEntry, MkEntry
  <2>4. data' = [data EXCEPT ![sector] = c]
    <3>1. PICK landed \in Landed : data' = IF landed THEN [data EXCEPT ![sector] = c] ELSE data
      BY <1>4, Zenon DEF fs_write, WriteData
    <3>2. landed = TRUE
      BY WritesLand
    <3> QED
      BY <3>1, <3>2
  <2>5. sector \in DataSectors
    BY <2>3
  <2> HIDE DEF i, c
  <2>6. \A j \in Used : /\ entries'[j].name = entries[j].name
                        /\ entries'[j].sector = entries[j].sector
    BY <2>1, <2>2, <2>3 DEF TypeOK, Used, Places
  <2>7. entries'[i].size = c.len
    BY <2>1, <2>2, <2>3 DEF TypeOK
  <2>8. data'[entries'[i].sector] = c
    BY <2>2, <2>4, <2>5, <2>6 DEF TypeOK
  <2>9. find_file(n)' = i
    <3>1. Used' = Used
      BY <2>1 DEF Used
    <3>2. {j \in Used' : entries'[j].name = n} = {j \in Used : entries[j].name = n}
      BY <2>6, <3>1
    <3> DEFINE First(S) == IF S = {} THEN MAX_FILES ELSE CHOOSE j \in S : \A l \in S : j <= l
    <3>3. /\ find_file(n) = First({j \in Used : entries[j].name = n})
          /\ find_file(n)' = First({j \in Used' : entries'[j].name = n})
      BY Zenon DEF find_file
    <3> HIDE DEF First
    <3> QED
      BY <3>2, <3>3, Zenon DEF i
  <2>10. op'.name = n /\ op'.text = x
    BY <2>1 DEF Call
  <2> QED
    BY <2>1, <2>2, <2>7, <2>8, <2>9, <2>10 DEF Written, Used, c
<1>5. ASSUME NEW o, Refuse(o)
      PROVE  Written'
  BY <1>5 DEF Refuse, Written, Answered
<1>6. CASE FlushSector
  <2>1. UNCHANGED <<op, entries, file_count, data>> /\ reply \in Answered
    BY <1>6 DEF FlushSector, FlushSectorOf, memory, Quiet, Answered
  <2> QED
    BY <2>1 DEF Written, Used, find_file
<1>7. CASE PowerLoss
  BY <1>7 DEF PowerLoss, Written, Answered
<1> QED
  BY <1>1, <1>2, <1>3, <1>4, <1>5, <1>6, <1>7
     DEF Next, Operation, fs_create_refused, fs_write_refused, fs_delete_refused

(* Cutting a stored text at its own length gives all of it.                *)
LEMMA CutWhole ==
    ASSUME NEW x \in Contents
    PROVE  Cut(x, x.len) = x
BY SizesAssumption DEF Contents, Cut, Blank, Text

(* Between calls a restart finds of a file what fs_read does.              *)
LEMMA RebootReads ==
    ASSUME IInv, pc = "idle", NEW n
    PROVE  AfterReboot(n) = fs_read(n)
<1> USE SizesAssumption
<1>1. TypeOK /\ MemoryFilled /\ superblock /\ \A s \in Slots : catalog[s] = Image(s)
  BY DEF IInv, Layout, Unformatted, CatalogInSync
<1> DEFINE found == {i \in Used : entries[i].name = n}
           first == CHOOSE i \in found : \A j \in found : i <= j
<1>2. \A s \in Slots : is_valid_entry(catalog[s]) <=> s \in Used
  BY <1>1, ImageHeld DEF Used, Slots, TypeOK
<1>3. Used \subseteq Slots /\ \A s \in Used : catalog[s] = entries[s]
  BY <1>1, PlacesAreSlots DEF Used, Places, TypeOK, Image
<1>4. Holding(n) = found
  BY <1>2, <1>3 DEF Holding
<1>5. CASE found = {}
  <2>1. find_file(n) = MAX_FILES
    BY <1>5 DEF find_file
  <2>2. AfterReboot(n) = Absent
    BY <1>4, <1>5 DEF AfterReboot
  <2> QED
    BY <2>1, <2>2 DEF fs_read
<1>6. CASE found # {}
  <2>1. find_file(n) = first
    BY <1>6 DEF find_file
  <2>2. first \in Used /\ first # MAX_FILES
    BY <1>1, <1>6, <2>1, FindFile DEF TypeOK
  <2>3. AfterReboot(n) = Cut(data[catalog[first].sector], catalog[first].size)
    BY <1>1, <1>4, <1>6, Zenon DEF AfterReboot
  <2> HIDE DEF first
  <2>4. catalog[first] = entries[first]
    BY <1>3, <2>2
  <2> QED
    BY <2>1, <2>2, <2>3, <2>4, Zenon DEF fs_read
<1> QED
  BY <1>5, <1>6

(* A text that fs_write has stored is there when the call has returned.    *)
LEMMA WritesAreStored == IInv /\ Quiet /\ Written => WriteStores
<1> SUFFICES ASSUME IInv, Quiet, Written, pc = "idle", reply = "ok", op.kind = "write"
             PROVE  /\ fs_read(op.name) = Clip(op.text)
                    /\ AfterReboot(op.name) = Clip(op.text)
  BY DEF WriteStores
<1> DEFINE i == find_file(op.name)
           c == Clip(op.text)
<1>1. i \in Used /\ entries[i].size = c.len /\ data[entries[i].sector] = c
  BY DEF Written, Answered
<1>2. i # MAX_FILES
  BY <1>1, SizesAssumption DEF IInv, TypeOK, Used
<1>3. i \in Places /\ entries[i] # NoEntry
  BY <1>1, ValidEntries, SizesAssumption
     DEF IInv, Layout, MemoryFilled, TypeOK, Used, Places
<1>4. c \in Contents
  <2>1. entries[i].sector \in DataSectors
    BY <1>3 DEF IInv, TypeOK, Entries
  <2> QED
    BY <1>1, <2>1 DEF IInv, TypeOK
<1> HIDE DEF i, c
<1>5. fs_read(op.name) = Cut(c, c.len)
  BY <1>1, <1>2 DEF fs_read, i
<1> QED
  BY <1>4, <1>5, CutWhole, RebootReads DEF c

(* On a disk that answers "File written" is true, whatever the power did   *)
(* before: a reader finds the text, cut at the size of a sector, and so    *)
(* does a reader after a power loss at that moment, even when a delete cut *)
(* short has left the file two entries.                                    *)
THEOREM WrittenTextsAreThere ==
    ASSUME DiskAnswers
    PROVE  Spec => []WriteStores
<1> DEFINE Inv == IInv /\ Quiet /\ Written
<1>1. Init => Inv
  BY Inductive, QuietInit DEF Init, Written, Answered
<1>2. Inv /\ [Next]_vars => Inv'
  <2> SUFFICES ASSUME Inv, [Next]_vars PROVE Inv'
    OBVIOUS
  <2>1. IInv' /\ Quiet'
    BY Inductive, QuietNext
  <2>2. CASE Next
    BY <2>1, <2>2, WrittenNext DEF IInv
  <2>3. CASE UNCHANGED vars
    BY <2>1, <2>3 DEF vars, Written, find_file, Used
  <2> QED
    BY <2>2, <2>3
<1>3. Inv => WriteStores
  BY WritesAreStored
<1> HIDE DEF Inv
<1> QED
  BY <1>1, <1>2, <1>3, PTL DEF Spec

(***************************************************************************)
(* The rest shows that NawFS implements FileStore, for every value of the  *)
(* constants: on a disk that answers, with the power failing between any   *)
(* two sector writes, a step of NawFS is a step of the store or leaves the *)
(* store as it is.                                                         *)
(*                                                                         *)
(* A file is what a restart would find, so the proof follows the first     *)
(* slot of a name on disk through every rewrite of the catalogue.          *)
(***************************************************************************)
-----------------------------------------------------------------------------
(* What a catalogue c over the data sectors d says of a name.              *)

Reads(c, d, n) ==
    LET held == {s \in Slots : c[s].name = n /\ is_valid_entry(c[s])}
        e == c[CHOOSE s \in held : \A t \in held : s <= t]
    IN  IF held = {} THEN Absent ELSE Cut(d[e.sector], e.size)

\* Slot s is the first one of that name.
Leads(c, n, s) == c[s].name = n /\ \A r \in Slots : r < s => c[r].name # n

LEMMA RebootIsReads ==
    ASSUME NEW n
    PROVE  AfterReboot(n) = IF superblock THEN Reads(catalog, data, n) ELSE Absent
<1> DEFINE e == catalog[CHOOSE s \in Holding(n) : \A t \in Holding(n) : s <= t]
<1>1. Reads(catalog, data, n) =
        IF Holding(n) = {} THEN Absent ELSE Cut(data[e.sector], e.size)
  BY Zenon DEF Reads, Holding
<1>2. AfterReboot(n) =
        IF ~superblock \/ Holding(n) = {} THEN Absent ELSE Cut(data[e.sector], e.size)
  BY Zenon DEF AfterReboot
<1> HIDE DEF e
<1> QED
  BY <1>1, <1>2

LEMMA RebootWillBeReads ==
    ASSUME NEW n
    PROVE  AfterReboot(n)' = IF superblock' THEN Reads(catalog', data', n) ELSE Absent
<1> DEFINE e == catalog'[CHOOSE s \in Holding(n)' : \A t \in Holding(n)' : s <= t]
<1>1. Reads(catalog', data', n) =
        IF Holding(n)' = {} THEN Absent ELSE Cut(data'[e.sector], e.size)
  BY Zenon DEF Reads, Holding
<1>2. AfterReboot(n)' =
        IF ~superblock' \/ Holding(n)' = {} THEN Absent ELSE Cut(data'[e.sector], e.size)
  BY Zenon DEF AfterReboot
<1> HIDE DEF e
<1> QED
  BY <1>1, <1>2

LEMMA SlotNumbers ==
    /\ Slots \in SUBSET Nat
    /\ \A s \in Slots, r \in Nat : r < s => r \in Slots
<1> DEFINE top == CATALOG_SECTORS * SLOTS_PER_SECTOR - 1
<1>1. top \in Int
  BY SizesAssumption
<1>2. Slots = 0 .. top
  BY DEF Slots
<1> HIDE DEF top
<1> QED
  BY <1>1, <1>2

(* An entry with a name a caller may use is valid.                         *)
LEMMA NamedIsValid ==
    ASSUME NEW c \in [Slots -> Entries], NEW n \in Names, NEW s \in Slots, c[s].name = n
    PROVE  is_valid_entry(c[s])
<1>1. c[s] # NoEntry
  BY NamesAssumption DEF NoEntry, MkEntry
<1> QED
  BY <1>1, ValidEntries

LEMMA ReadsNone ==
    ASSUME NEW c, NEW d, NEW n, \A s \in Slots : c[s].name # n
    PROVE  Reads(c, d, n) = Absent
<1>1. {s \in Slots : c[s].name = n /\ is_valid_entry(c[s])} = {}
  OBVIOUS
<1> QED
  BY <1>1 DEF Reads

LEMMA ReadsLead ==
    ASSUME NEW c \in [Slots -> Entries], NEW d, NEW n \in Names, NEW s \in Slots,
           Leads(c, n, s)
    PROVE  Reads(c, d, n) = Cut(d[c[s].sector], c[s].size)
<1> DEFINE held == {r \in Slots : c[r].name = n /\ is_valid_entry(c[r])}
           first == CHOOSE r \in held : \A t \in held : r <= t
<1>1. s \in held
  BY NamedIsValid DEF Leads
<1>2. \A t \in held : s <= t
  BY SlotNumbers DEF Leads
<1>3. first \in held /\ \A t \in held : first <= t
  BY <1>1, <1>2, Zenon
<1>4. first = s
  <2>1. first <= s /\ s <= first
    BY <1>1, <1>2, <1>3
  <2>2. first \in Nat /\ s \in Nat
    BY <1>3, SlotNumbers
  <2> HIDE DEF first
  <2> QED
    BY <2>1, <2>2
<1>5. Reads(c, d, n) = Cut(d[c[first].sector], c[first].size)
  BY <1>1, Zenon DEF Reads
<1> QED
  BY <1>4, <1>5, Zenon

LEMMA LeadOrNone ==
    ASSUME NEW c, NEW n
    PROVE  (\A s \in Slots : c[s].name # n) \/ \E s \in Slots : Leads(c, n, s)
<1> DEFINE held == {s \in Slots : c[s].name = n}
<1>1. CASE held = {}
  BY <1>1
<1>2. CASE held # {}
  <2>1. held \in SUBSET Nat
    BY SlotNumbers
  <2>2. PICK s \in held : \A r \in held : s <= r
    BY <1>2, <2>1, LeastElement, Zenon
  <2>3. \A r \in Slots : r < s => c[r].name # n
    BY <2>1, <2>2, SlotNumbers
  <2> QED
    BY <2>2, <2>3 DEF Leads
<1> QED
  BY <1>1, <1>2

LEMMA ReadsView ==
    ASSUME NEW c \in [Slots -> Entries], NEW d \in [DataSectors -> Contents],
           NEW n \in Names
    PROVE  Reads(c, d, n) \in Contents \cup {Absent}
<1>1. CASE \A s \in Slots : c[s].name # n
  BY <1>1, ReadsNone
<1>2. ASSUME NEW s \in Slots, Leads(c, n, s)
      PROVE  Reads(c, d, n) \in Contents \cup {Absent}
  <2>1. c[s] \in Entries /\ c[s].name = n
    BY <1>2 DEF Leads
  <2>2. c[s].sector \in DataSectors /\ c[s].size \in Nat
    BY <2>1, NamesAssumption, SizesAssumption DEF Entries, NoEntry, MkEntry
  <2>3. Cut(d[c[s].sector], c[s].size) \in Contents
    BY <2>2, CutContent
  <2> QED
    BY <1>2, <2>3, ReadsLead
<1> QED
  BY <1>1, <1>2, LeadOrNone

(* Two catalogues that have the entries of a name in the same slots, and   *)
(* whose data agree where those entries point, say the same of the name.   *)
LEMMA SameReads ==
    ASSUME NEW c \in [Slots -> Entries], NEW c2 \in [Slots -> Entries],
           NEW d, NEW d2, NEW n \in Names,
           \A s \in Slots : c[s] = c2[s] \/ (c[s].name # n /\ c2[s].name # n),
           \A s \in Slots : c[s].name = n => d[c[s].sector] = d2[c[s].sector]
    PROVE  Reads(c, d, n) = Reads(c2, d2, n)
<1>1. CASE \A s \in Slots : c[s].name # n
  <2>1. \A s \in Slots : c2[s].name # n
    BY <1>1
  <2> QED
    BY <1>1, <2>1, ReadsNone
<1>2. ASSUME NEW s \in Slots, Leads(c, n, s)
      PROVE  Reads(c, d, n) = Reads(c2, d2, n)
  <2>1. c[s] = c2[s] /\ d[c[s].sector] = d2[c[s].sector]
    BY <1>2 DEF Leads
  <2>2. Leads(c2, n, s)
    BY <1>2 DEF Leads
  <2>3. /\ Reads(c, d, n) = Cut(d[c[s].sector], c[s].size)
        /\ Reads(c2, d2, n) = Cut(d2[c2[s].sector], c2[s].size)
    BY <1>2, <2>2, ReadsLead
  <2> QED
    BY <2>1, <2>3
<1> QED
  BY <1>1, <1>2, LeadOrNone

LEMMA SameData ==
    ASSUME NEW c \in [Slots -> Entries], NEW d, NEW d2, NEW n \in Names,
           \A s \in Slots : c[s].name = n => d[c[s].sector] = d2[c[s].sector]
    PROVE  Reads(c, d, n) = Reads(c, d2, n)
<1>1. \A s \in Slots : c[s] = c[s] \/ (c[s].name # n /\ c[s].name # n)
  OBVIOUS
<1> QED
  BY <1>1, SameReads

-----------------------------------------------------------------------------
(* A rewrite of the catalogue under way: c is on disk, im is what fs_flush *)
(* writes, d the data sectors, and the sectors before k are written.       *)

\* One slot is new, and its entry is empty.
Creating(c, im, o) ==
    \E p \in Slots :
        /\ im[p].name = o.name /\ im[p].size = 0
        /\ c[p] \in {NoEntry, im[p]}
        /\ \A s \in Slots \ {p} : c[s] = im[s] /\ im[s].name # o.name

\* Entries of the file, and no others, may differ; every one of them has the text.
Writing(c, im, d, o) ==
    /\ \E s \in Slots : im[s].name = o.name
    /\ \A s \in Slots : c[s] = im[s] \/ (c[s].name = o.name /\ im[s].name = o.name)
    /\ \A s \in Slots : /\ c[s].name = o.name => d[c[s].sector] = Clip(o.text)
                        /\ im[s].name = o.name => d[im[s].sector] = Clip(o.text)

\* From one slot on the entries move down; what is left of the file is blank.
Deleting(c, im, d, o, k) ==
    /\ \E i \in Slots : \A s \in Slots :
          /\ s + 1 \notin Slots => im[s] = NoEntry
          /\ SectorOf(s) < k => c[s] = im[s]
          /\ SectorOf(s) >= k => /\ s < i => c[s] = im[s]
                                 /\ s = i => c[s].name = o.name
                                 /\ s > i => c[s] = im[s - 1]
    /\ \A s \in Slots : /\ c[s].name = o.name => d[c[s].sector] = Blank
                        /\ im[s].name = o.name => d[im[s].sector] = Blank

Rewriting(c, im, d, o, k) ==
    \/ o.kind = "create" /\ Creating(c, im, o)
    \/ o.kind = "write" /\ Writing(c, im, d, o)
    \/ o.kind = "delete" /\ Deleting(c, im, d, o, k)

(* Half way through a rewrite every other file reads as it will after it.  *)
LEMMA OthersRead ==
    ASSUME NEW c \in [Slots -> Entries], NEW im \in [Slots -> Entries],
           NEW d, NEW o, NEW k \in Nat, NEW m \in Names, o.name # m,
           Rewriting(c, im, d, o, k)
    PROVE  Reads(c, d, m) = Reads(im, d, m)
<1>0. NoEntry.name # m
  BY NamesAssumption DEF NoEntry, MkEntry
<1>1. CASE Creating(c, im, o) \/ Writing(c, im, d, o)
  <2>1. \A s \in Slots : c[s] = im[s] \/ (c[s].name # m /\ im[s].name # m)
    <3>1. CASE Creating(c, im, o)
      BY <1>0, <3>1 DEF Creating
    <3>2. CASE Writing(c, im, d, o)
      BY <3>2 DEF Writing
    <3> QED
      BY <1>1, <3>1, <3>2
  <2> QED
    BY <2>1, SameReads
<1>2. CASE Deleting(c, im, d, o, k)
  <2>1. PICK i \in Slots : \A s \in Slots :
           /\ s + 1 \notin Slots => im[s] = NoEntry
           /\ SectorOf(s) < k => c[s] = im[s]
           /\ SectorOf(s) >= k => /\ s < i => c[s] = im[s]
                                  /\ s = i => c[s].name = o.name
                                  /\ s > i => c[s] = im[s - 1]
    BY <1>2, Zenon DEF Deleting
  <2>2. /\ \A s \in Slots : SectorOf(s) \in Nat /\ s \in Nat
        /\ \A s, r \in Slots : s < r => SectorOf(s) <= SectorOf(r)
        /\ \A s \in Slots, r \in Nat : r < s => r \in Slots
    BY SectorOfSlot, SlotNumbers
  <2>3. \A s \in Slots : c[s].name = m =>
           \/ c[s] = im[s]
           \/ SectorOf(s) >= k /\ s > i /\ s - 1 \in Slots /\ c[s] = im[s - 1]
    <3> SUFFICES ASSUME NEW s \in Slots, c[s].name = m, c[s] # im[s]
                 PROVE  SectorOf(s) >= k /\ s > i /\ s - 1 \in Slots /\ c[s] = im[s - 1]
      OBVIOUS
    <3>1. SectorOf(s) >= k
      BY <2>1, <2>2
    <3>2. s > i
      BY <2>1, <2>2, <3>1
    <3>3. s - 1 \in Slots
      BY <2>2, <3>2
    <3> QED
      BY <2>1, <3>1, <3>2, <3>3
  <2>4. CASE \A s \in Slots : im[s].name # m
    <3>1. \A s \in Slots : c[s].name # m
      BY <2>3, <2>4
    <3> QED
      BY <2>4, <3>1, ReadsNone
  <2>5. ASSUME NEW s \in Slots, Leads(im, m, s)
        PROVE  Reads(c, d, m) = Reads(im, d, m)
    <3>1. im[s].name = m /\ \A r \in Slots : r < s => im[r].name # m
      BY <2>5 DEF Leads
    <3>2. s + 1 \in Slots
      BY <1>0, <2>1, <3>1
    <3>3. \A r \in Slots : r < s => c[r].name # m
      <4> SUFFICES ASSUME NEW r \in Slots, r < s, c[r].name = m
                   PROVE  FALSE
        OBVIOUS
      <4>1. c[r] = im[r] \/ (r - 1 \in Slots /\ c[r] = im[r - 1])
        BY <2>3
      <4>2. r \in Nat /\ s \in Nat /\ r - 1 < s
        BY <2>2
      <4> QED
        BY <3>1, <4>1, <4>2
    <3>4. CASE c[s] = im[s]
      <4>1. Leads(c, m, s)
        BY <3>1, <3>3, <3>4 DEF Leads
      <4> QED
        BY <2>5, <3>4, <4>1, ReadsLead
    <3>5. CASE c[s] # im[s]
      <4>1. SectorOf(s) >= k
        BY <2>1, <2>2, <3>5
      <4>2. ~(s < i)
        BY <2>1, <3>5, <4>1
      <4>3. s \in Nat /\ i \in Nat /\ s + 1 > i /\ s < s + 1
        BY <2>2, <4>2
      <4>4. SectorOf(s + 1) >= k
        BY <2>2, <3>2, <4>1, <4>3
      <4>5. c[s + 1] = im[s + 1 - 1]
        BY <2>1, <3>2, <4>3, <4>4
      <4>6. c[s + 1] = im[s]
        BY <4>3, <4>5
      <4>7. c[s].name # m
        <5> SUFFICES ASSUME c[s].name = m
                     PROVE  FALSE
          OBVIOUS
        <5>1. s - 1 \in Slots /\ c[s] = im[s - 1]
          BY <2>3, <3>5
        <5> QED
          BY <3>1, <4>3, <5>1
      <4>8. \A r \in Slots : r < s + 1 => r < s \/ r = s
        BY <2>2, <4>3
      <4>9. Leads(c, m, s + 1)
        BY <3>1, <3>3, <4>6, <4>7, <4>8 DEF Leads
      <4> QED
        BY <2>5, <3>2, <4>6, <4>9, ReadsLead
    <3> QED
      BY <3>4, <3>5
  <2> QED
    BY <2>4, <2>5, LeadOrNone
<1> QED
  BY <1>1, <1>2 DEF Rewriting

(* And the file itself is in one of the conditions the store allows.       *)
LEMMA CreatedRead ==
    ASSUME NEW c \in [Slots -> Entries], NEW im \in [Slots -> Entries],
           NEW d, NEW o, o.name \in Names, Creating(c, im, o)
    PROVE  \/ c = im /\ Reads(c, d, o.name) = Blank
           \/ c # im /\ Reads(c, d, o.name) = Absent
<1>1. PICK p \in Slots :
         /\ im[p].name = o.name /\ im[p].size = 0
         /\ c[p] \in {NoEntry, im[p]}
         /\ \A s \in Slots \ {p} : c[s] = im[s] /\ im[s].name # o.name
  BY DEF Creating
<1>2. NoEntry.name # o.name
  BY NamesAssumption DEF NoEntry, MkEntry
<1>3. CASE c[p] = im[p]
  <2>1. Leads(c, o.name, p)
    BY <1>1, <1>3, SlotNumbers DEF Leads
  <2>2. Reads(c, d, o.name) = Cut(d[c[p].sector], 0)
    BY <1>1, <1>3, <2>1, ReadsLead
  <2>3. c = im
    BY <1>1, <1>3
  <2> QED
    BY <2>2, <2>3 DEF Cut
<1>4. CASE c[p] # im[p]
  <2>1. c[p] = NoEntry
    BY <1>1, <1>4
  <2>2. \A s \in Slots : c[s].name # o.name
    BY <1>1, <1>2, <2>1
  <2> QED
    BY <1>4, <2>2, ReadsNone
<1> QED
  BY <1>3, <1>4

LEMMA WrittenRead ==
    ASSUME NEW c \in [Slots -> Entries], NEW im \in [Slots -> Entries],
           NEW d, NEW o, o.name \in Names, o.text \in Texts, Writing(c, im, d, o)
    PROVE  \E k \in 0 .. MAX_FILE_SIZE : Reads(c, d, o.name) = Cut(o.text, k)
<1>0. /\ \E s \in Slots : im[s].name = o.name
      /\ \A s \in Slots : c[s] = im[s] \/ (c[s].name = o.name /\ im[s].name = o.name)
      /\ \A s \in Slots : /\ c[s].name = o.name => d[c[s].sector] = Clip(o.text)
                          /\ im[s].name = o.name => d[im[s].sector] = Clip(o.text)
  BY Zenon DEF Writing
<1>1. PICK s \in Slots : Leads(c, o.name, s)
  BY <1>0, LeadOrNone
<1>2. c[s] \in Entries /\ c[s].name = o.name
  BY <1>1 DEF Leads
<1>3. c[s].size \in 0 .. MAX_FILE_SIZE
  BY <1>2, NamesAssumption DEF Entries, NoEntry, MkEntry
<1> DEFINE k == c[s].size
<1>4. Reads(c, d, o.name) = Cut(Clip(o.text), k)
  <2>1. d[c[s].sector] = Clip(o.text)
    BY <1>0, <1>1, <1>2
  <2>2. Reads(c, d, o.name) = Cut(d[c[s].sector], k)
    BY <1>1, ReadsLead
  <2> QED
    BY <2>1, <2>2
<1> HIDE DEF k
<1>5. Cut(Clip(o.text), k) = Cut(o.text, k)
  <2>1. k \in 0 .. MAX_FILE_SIZE
    BY <1>3 DEF k
  <2>2. o.text \in Contents
    BY TextsAssumption
  <2> QED
    BY <2>1, <2>2, SizesAssumption DEF Clip, Cut, Contents, Blank, Text
<1> QED
  BY <1>3, <1>4, <1>5 DEF k

LEMMA DeletedRead ==
    ASSUME NEW c \in [Slots -> Entries], NEW im \in [Slots -> Entries],
           NEW d, NEW o, NEW k, o.name \in Names, Deleting(c, im, d, o, k)
    PROVE  Reads(c, d, o.name) \in {Blank, Absent}
<1>0. \A s \in Slots : /\ c[s].name = o.name => d[c[s].sector] = Blank
                       /\ im[s].name = o.name => d[im[s].sector] = Blank
  BY Zenon DEF Deleting
<1>1. CASE \A s \in Slots : c[s].name # o.name
  BY <1>1, ReadsNone
<1>2. ASSUME NEW s \in Slots, Leads(c, o.name, s)
      PROVE  Reads(c, d, o.name) \in {Blank, Absent}
  <2>1. d[c[s].sector] = Blank
    <3>1. c[s].name = o.name
      BY <1>2 DEF Leads
    <3> QED
      BY <1>0, <3>1
  <2>2. Reads(c, d, o.name) = Cut(Blank, c[s].size)
    BY <1>2, <2>1, ReadsLead
  <2> QED
    BY <2>2 DEF Cut, Blank, Text
<1> QED
  BY <1>1, <1>2, LeadOrNone

(* Writing the next sector of the image goes on with the rewrite.          *)
LEMMA RewritingGoesOn ==
    ASSUME NEW c \in [Slots -> Entries], NEW im \in [Slots -> Entries],
           NEW c2 \in [Slots -> Entries], NEW d, NEW o, NEW k \in Nat,
           \A s \in Slots : c2[s] = IF SectorOf(s) = k THEN im[s] ELSE c[s],
           Rewriting(c, im, d, o, k)
    PROVE  Rewriting(c2, im, d, o, k + 1)
<1>0. \A s \in Slots : c2[s] = im[s] \/ c2[s] = c[s]
  OBVIOUS
<1>1. ASSUME Creating(c, im, o) PROVE Creating(c2, im, o)
  BY <1>0, <1>1 DEF Creating
<1>2. ASSUME Writing(c, im, d, o) PROVE Writing(c2, im, d, o)
  <2>1. \A s \in Slots : c2[s] = im[s] \/ (c2[s].name = o.name /\ im[s].name = o.name)
    BY <1>0, <1>2 DEF Writing
  <2> QED
    BY <1>0, <1>2, <2>1 DEF Writing
<1>3. ASSUME Deleting(c, im, d, o, k) PROVE Deleting(c2, im, d, o, k + 1)
  <2>1. PICK i \in Slots : \A s \in Slots :
           /\ s + 1 \notin Slots => im[s] = NoEntry
           /\ SectorOf(s) < k => c[s] = im[s]
           /\ SectorOf(s) >= k => /\ s < i => c[s] = im[s]
                                  /\ s = i => c[s].name = o.name
                                  /\ s > i => c[s] = im[s - 1]
    BY <1>3, Zenon DEF Deleting
  <2>2. ASSUME NEW s \in Slots
        PROVE  /\ s + 1 \notin Slots => im[s] = NoEntry
               /\ SectorOf(s) < k + 1 => c2[s] = im[s]
               /\ SectorOf(s) >= k + 1 => /\ s < i => c2[s] = im[s]
                                          /\ s = i => c2[s].name = o.name
                                          /\ s > i => c2[s] = im[s - 1]
    <3>1. SectorOf(s) \in Nat
      BY SectorOfSlot
    <3>2. c2[s] = IF SectorOf(s) = k THEN im[s] ELSE c[s]
      OBVIOUS
    <3>3. CASE SectorOf(s) < k + 1
      BY <2>1, <3>1, <3>2, <3>3
    <3>4. CASE SectorOf(s) >= k + 1
      <4>1. c2[s] = c[s] /\ SectorOf(s) >= k /\ ~(SectorOf(s) < k + 1)
        BY <3>1, <3>2, <3>4
      <4> QED
        BY <2>1, <4>1
    <3> QED
      BY <3>1, <3>3, <3>4
  <2>3. \A s \in Slots : /\ c2[s].name = o.name => d[c2[s].sector] = Blank
                         /\ im[s].name = o.name => d[im[s].sector] = Blank
    BY <1>0, <1>3 DEF Deleting
  <2> QED
    BY <2>2, <2>3 DEF Deleting
<1> QED
  BY <1>1, <1>2, <1>3 DEF Rewriting

-----------------------------------------------------------------------------
(* The invariant.                                                          *)

\* The catalogue fs_flush writes.
NewCatalog == [s \in Slots |-> Image(s)]

\* Which call or boot step is under way where.
Phases ==
    /\ pc \in {"off", "load"} => op.kind = "none"
    /\ pc \in {"format_catalog", "format_data"} => op.kind = "format"
    /\ pc = "idle" => op.kind # "format" /\ reply # "busy"
    /\ pc = "flush" => /\ op.kind \in {"create", "write", "delete"}
                       /\ op.name \in Names
                       /\ op.kind = "write" => op.text \in Texts

Served == pc = "flush" => Rewriting(catalog, NewCatalog, data, op, pos)

StoreInv == IInv /\ Quiet /\ Written /\ Phases /\ Served

LEMMA PhasesNext ==
    ASSUME DiskAnswers, Quiet, Phases, Next
    PROVE  Phases'
<1>1. CASE Boot
  <2>1. op'.kind = "format" \/ op'.kind = "none" \/ op' = op
    BY <1>1 DEF Boot, FsInitUnavailable, FsInitRecognised, FsInitFormat, FormatCatalogSector,
                FormatDataSector, LoadSlot, LoadFails, FormatOp, NoOp, Call
  <2>2. CASE FsInitFormat \/ FsInitRecognised \/ FormatCatalogSector \/ LoadSlot
    BY <2>2 DEF FsInitFormat, FsInitRecognised, FormatCatalogSector, LoadSlot, Phases, Quiet,
                FormatOp, Call
  <2>3. CASE FormatDataSector
    BY <2>3 DEF FormatDataSector, Phases, NoOp, Call
  <2> QED
    BY <1>1, <2>2, <2>3 DEF Boot, FsInitUnavailable, LoadFails, DiskAnswers
<1>2. ASSUME NEW n \in Names \cup {NoName}, fs_create(n)
      PROVE  Phases'
  BY <1>2 DEF fs_create, StartFlush, Call, Phases
<1>3. ASSUME NEW n \in Names, NEW x \in Texts, fs_write(n, x)
      PROVE  Phases'
  BY <1>3 DEF fs_write, StartFlush, Call, Phases
<1>4. ASSUME NEW n \in Names, fs_delete(n)
      PROVE  Phases'
  BY <1>4 DEF fs_delete, StartFlush, Call, Phases
<1>5. ASSUME NEW o, Refuse(o), o.kind # "format"
      PROVE  Phases'
  BY <1>5 DEF Refuse, Phases
<1>6. CASE FlushSector
  BY <1>6 DEF FlushSector, FlushSectorOf, Phases
<1>7. CASE PowerLoss
  BY <1>7 DEF PowerLoss, Phases, NoOp, Call
<1>8. \A n, x : /\ Call("create", n, x).kind # "format"
                /\ Call("write", n, x).kind # "format"
                /\ Call("delete", n, x).kind # "format"
  BY DEF Call
<1> QED
  BY <1>1, <1>2, <1>3, <1>4, <1>5, <1>6, <1>7, <1>8
     DEF Next, Operation, fs_create_refused, fs_write_refused, fs_delete_refused

(* The calls begin the rewrites, on the catalogue of before the call.      *)

\* Between calls: what is on disk is in memory, and a name has one sector.
LEMMA IdleCatalog ==
    ASSUME IInv, pc = "idle", NEW s \in Slots
    PROVE  /\ superblock
           /\ catalog[s] = Image(s)
           /\ s < file_count => s \in Used /\ s \in Places /\ Image(s) = entries[s]
           /\ s >= file_count => Image(s) = NoEntry
BY SlotNumbers, SizesAssumption
   DEF IInv, Layout, Unformatted, CatalogInSync, Image, TypeOK, Used, Places

LEMMA OneSector ==
    ASSUME IInv, pc = "idle", NEW n \in Names, NEW i \in Used, entries[i].name = n,
           NEW s \in Slots, is_valid_entry(catalog[s])
    PROVE  catalog[s].name = n <=> catalog[s].sector = entries[i].sector
<1>1. entries[i] \in MemoryEntries \cup DiskEntries
  BY DEF MemoryEntries
<1>2. catalog[s] \in MemoryEntries \cup DiskEntries
  BY DEF DiskEntries
<1> QED
  BY <1>1, <1>2 DEF IInv, NoCrossLink, SameFile

LEMMA NewCatalogType == TypeOK => NewCatalog \in [Slots -> Entries]
BY ImageEntry DEF NewCatalog

(* A call that writes nothing but a sector of its own file leaves the      *)
(* other files as they are.                                                *)
LEMMA OthersUntouched ==
    ASSUME TypeOK, NEW n \in Names, NEW x, NEW v,
           \A s \in Slots : is_valid_entry(catalog[s]) /\ catalog[s].sector = x
                            => catalog[s].name = n,
           data' = [data EXCEPT ![x] = v], catalog' = catalog, superblock' = superblock
    PROVE  \A m \in Names \ {n} : AfterReboot(m)' = AfterReboot(m)
<1> SUFFICES ASSUME NEW m \in Names, m # n
             PROVE  AfterReboot(m)' = AfterReboot(m)
  OBVIOUS
<1>1. catalog \in [Slots -> Entries]
  BY DEF TypeOK
<1>2. \A s \in Slots : catalog[s].name = m => data[catalog[s].sector] = data'[catalog[s].sector]
  <2> SUFFICES ASSUME NEW s \in Slots, catalog[s].name = m
               PROVE  data[catalog[s].sector] = data'[catalog[s].sector]
    OBVIOUS
  <2>1. is_valid_entry(catalog[s])
    BY <1>1, NamedIsValid
  <2>2. catalog[s].sector # x
    BY <2>1
  <2>3. catalog[s].sector \in DataSectors
    BY <1>1, <2>1, SizesAssumption DEF Entries, is_valid_entry, NoEntry, MkEntry
  <2> QED
    BY <2>2, <2>3 DEF TypeOK
<1>3. Reads(catalog, data, m) = Reads(catalog, data', m)
  BY <1>1, <1>2, SameData
<1> QED
  BY <1>3, RebootIsReads, RebootWillBeReads

LEMMA DataWritten ==
    ASSUME DiskAnswers, NEW x, NEW v, WriteData(x, v)
    PROVE  data' = [data EXCEPT ![x] = v]
<1>1. PICK landed \in Landed : data' = IF landed THEN [data EXCEPT ![x] = v] ELSE data
  BY Zenon DEF WriteData
<1>2. landed = TRUE
  BY WritesLand
<1> QED
  BY <1>1, <1>2

LEMMA CreateBegins ==
    ASSUME DiskAnswers, IInv, NEW n \in Names, fs_create(n)
    PROVE  /\ Rewriting(catalog', NewCatalog', data', op', 0)
           /\ \A m \in Names \ {n} : AfterReboot(m)' = AfterReboot(m)
           /\ AfterReboot(n) = Absent /\ AfterReboot(n)' = Absent
<1> USE SizesAssumption
<1> DEFINE x == find_free_sector
           e == MkEntry(n, x, 0)
<1>1. /\ pc = "idle"
      /\ file_count < MAX_FILES
      /\ file_count' = file_count + 1
      /\ entries' = [entries EXCEPT ![file_count] = e]
      /\ UNCHANGED <<superblock, catalog>>
      /\ op' = Call("create", n, Blank)
    BY DEF fs_create, StartFlush
<1>2. data' = [data EXCEPT ![x] = Blank]
  BY DataWritten DEF fs_create
<1>3. \A i \in Used : entries[i].name # n /\ entries[i].sector # x
  BY FindFile, FindFreeSector DEF fs_create, IInv, TypeOK
<1>4. e.name = n /\ e.size = 0
  BY DEF MkEntry
<1> HIDE DEF e, x
<1>5. TypeOK /\ catalog \in [Slots -> Entries]
  BY DEF IInv, TypeOK
<1>6. ~is_valid_entry(NoEntry) /\ NoEntry.name # n
  BY NamesAssumption DEF NoEntry, MkEntry, is_valid_entry
<1>7. \A s \in Slots : catalog[s].name # n /\ (is_valid_entry(catalog[s]) => catalog[s].sector # x)
  <2> SUFFICES ASSUME NEW s \in Slots
               PROVE  catalog[s].name # n /\ (is_valid_entry(catalog[s]) => catalog[s].sector # x)
    OBVIOUS
  <2>1. CASE s < file_count
    BY <1>1, <1>3, <2>1, IdleCatalog
  <2>2. CASE s >= file_count
    BY <1>1, <1>6, <2>2, IdleCatalog
  <2> QED
    BY <2>1, <2>2, SlotNumbers, <1>5 DEF TypeOK
<1>8. \A m \in Names \ {n} : AfterReboot(m)' = AfterReboot(m)
  <2>1. \A s \in Slots : is_valid_entry(catalog[s]) /\ catalog[s].sector = x
                         => catalog[s].name = n
    BY <1>7
  <2> QED
    BY <1>1, <1>2, <1>5, <2>1, OthersUntouched
<1>9. AfterReboot(n) = Absent /\ AfterReboot(n)' = Absent
  BY <1>1, <1>7, ReadsNone, RebootIsReads, RebootWillBeReads
<1>10. Creating(catalog', NewCatalog', op')
  <2>1. file_count \in Slots
    BY <1>1, <1>5, PlacesAreSlots DEF TypeOK, Places
  <2>2. NewCatalog'[file_count] = e
    BY <1>1, <1>5, <2>1 DEF NewCatalog, Image, TypeOK, Places
  <2>3. catalog'[file_count] = NoEntry
    BY <1>1, <1>5, <2>1, IdleCatalog DEF TypeOK
  <2>4. \A s \in Slots \ {file_count} : NewCatalog'[s] = catalog[s]
    <3> SUFFICES ASSUME NEW s \in Slots, s # file_count
                 PROVE  Image(s)' = catalog[s]
      BY DEF NewCatalog
    <3>1. s \in Nat /\ file_count \in Nat
      BY <1>5, SlotNumbers DEF TypeOK
    <3>2. CASE s < file_count
      BY <1>1, <1>5, <3>1, <3>2, IdleCatalog DEF Image, TypeOK
    <3>3. CASE s > file_count
      <4>1. ~(s < file_count')
        BY <1>1, <3>1, <3>3
      <4> QED
        BY <1>1, <3>1, <3>3, <4>1, IdleCatalog DEF Image
    <3> QED
      BY <3>1, <3>2, <3>3
  <2>5. op'.name = n
    BY <1>1 DEF Call
  <2> QED
    BY <1>1, <1>4, <1>7, <2>1, <2>2, <2>3, <2>4, <2>5 DEF Creating
<1>11. op'.kind = "create"
  BY <1>1 DEF Call
<1> QED
  BY <1>8, <1>9, <1>10, <1>11 DEF Rewriting

LEMMA WriteBegins ==
    ASSUME DiskAnswers, IInv, NEW n \in Names, NEW t \in Texts, fs_write(n, t)
    PROVE  /\ Rewriting(catalog', NewCatalog', data', op', 0)
           /\ \A m \in Names \ {n} : AfterReboot(m)' = AfterReboot(m)
<1> USE SizesAssumption
<1> DEFINE i == find_file(n)
           x == entries[i].sector
           size == Clip(t).len
<1>1. /\ pc = "idle"
      /\ file_count' = file_count
      /\ entries' = [entries EXCEPT ![i].size = size]
      /\ UNCHANGED <<superblock, catalog>>
      /\ op' = Call("write", n, t)
  BY DEF fs_write, StartFlush
<1>2. i \in Used /\ i \in Places /\ i \in Slots /\ entries[i].name = n
  BY FindFile, PlacesAreSlots DEF fs_write, IInv, TypeOK, Used, Places
<1>3. data' = [data EXCEPT ![x] = Clip(t)]
  BY DataWritten DEF fs_write
<1>4. TypeOK /\ catalog \in [Slots -> Entries]
  BY DEF IInv, TypeOK
<1>5. entries[i] \in [name : Names, sector : DataSectors, size : 0 .. MAX_FILE_SIZE]
  BY <1>2, <1>4, NamesAssumption DEF TypeOK, Entries, NoEntry, MkEntry
<1> HIDE DEF i, size
<1>6. \A s \in Slots : is_valid_entry(catalog[s]) =>
                          (catalog[s].name = n <=> catalog[s].sector = x)
  BY <1>1, <1>2, OneSector
<1>7. \A m \in Names \ {n} : AfterReboot(m)' = AfterReboot(m)
  <2>1. \A s \in Slots : is_valid_entry(catalog[s]) /\ catalog[s].sector = x
                         => catalog[s].name = n
    BY <1>6
  <2> QED
    BY <1>1, <1>3, <1>4, <2>1, OthersUntouched
<1>8. x \in DataSectors /\ data'[x] = Clip(t)
  BY <1>3, <1>4, <1>5 DEF TypeOK
<1>9. entries'[i].name = n /\ entries'[i].sector = x
  BY <1>1, <1>2, <1>4, <1>5 DEF TypeOK
<1>10. \A s \in Slots : NewCatalog'[s] = IF s = i THEN entries'[i] ELSE catalog[s]
  <2> SUFFICES ASSUME NEW s \in Slots
               PROVE  Image(s)' = IF s = i THEN entries'[i] ELSE catalog[s]
    BY DEF NewCatalog
  <2>1. s \in Nat /\ file_count \in Nat
    BY <1>4, SlotNumbers DEF TypeOK
  <2>2. CASE s = i
    BY <1>1, <1>2, <2>1, <2>2 DEF Image, Used
  <2>3. CASE s # i /\ s < file_count
    BY <1>1, <1>4, <2>1, <2>3, IdleCatalog DEF Image, TypeOK
  <2>4. CASE s # i /\ s >= file_count
    <3>1. ~(s < file_count')
      BY <1>1, <2>1, <2>4
    <3> QED
      BY <1>1, <2>4, <3>1, IdleCatalog DEF Image
  <2> QED
    BY <2>1, <2>2, <2>3, <2>4
<1>11. catalog[i].name = n
  BY <1>1, <1>2, <1>4, IdleCatalog DEF Used, TypeOK
<1>12. op'.name = n /\ op'.kind = "write" /\ op'.text = t
  BY <1>1 DEF Call
<1>13. \A s \in Slots : catalog[s].name = n => data'[catalog[s].sector] = Clip(t)
  BY <1>4, <1>6, <1>8, NamedIsValid
<1>14. \A s \in Slots : \/ catalog'[s] = NewCatalog'[s]
                        \/ catalog'[s].name = op'.name /\ NewCatalog'[s].name = op'.name
  BY <1>1, <1>9, <1>10, <1>11, <1>12
<1>15. \A s \in Slots :
          /\ catalog'[s].name = op'.name => data'[catalog'[s].sector] = Clip(op'.text)
          /\ NewCatalog'[s].name = op'.name => data'[NewCatalog'[s].sector] = Clip(op'.text)
  BY <1>1, <1>8, <1>9, <1>10, <1>12, <1>13
<1>16. NewCatalog'[i].name = op'.name
  BY <1>2, <1>9, <1>10, <1>12
<1>17. Writing(catalog', NewCatalog', data', op')
  BY <1>2, <1>14, <1>15, <1>16 DEF Writing
<1> QED
  BY <1>7, <1>12, <1>17 DEF Rewriting

LEMMA DeleteBegins ==
    ASSUME DiskAnswers, IInv, NEW n \in Names, fs_delete(n)
    PROVE  /\ Rewriting(catalog', NewCatalog', data', op', 0)
           /\ \A m \in Names \ {n} : AfterReboot(m)' = AfterReboot(m)
<1> USE SizesAssumption
<1> DEFINE i == find_file(n)
           x == entries[i].sector
<1>1. /\ pc = "idle"
      /\ file_count' = file_count - 1
      /\ entries' = Without(i)
      /\ UNCHANGED <<superblock, catalog>>
      /\ op' = Call("delete", n, Blank)
  BY DEF fs_delete, StartFlush
<1>2. i \in Used /\ i \in Places /\ i \in Slots /\ entries[i].name = n
  BY FindFile, PlacesAreSlots DEF fs_delete, IInv, TypeOK, Used, Places
<1>3. data' = [data EXCEPT ![x] = Blank]
  BY DataWritten DEF fs_delete
<1>4. TypeOK /\ catalog \in [Slots -> Entries]
  BY DEF IInv, TypeOK
<1>5. entries[i] \in [name : Names, sector : DataSectors, size : 0 .. MAX_FILE_SIZE]
  BY <1>2, <1>4, NamesAssumption DEF TypeOK, Entries, NoEntry, MkEntry
<1> HIDE DEF i
<1>6. \A s \in Slots : is_valid_entry(catalog[s]) =>
                          (catalog[s].name = n <=> catalog[s].sector = x)
  BY <1>1, <1>2, OneSector
<1>7. \A m \in Names \ {n} : AfterReboot(m)' = AfterReboot(m)
  <2>1. \A s \in Slots : is_valid_entry(catalog[s]) /\ catalog[s].sector = x
                         => catalog[s].name = n
    BY <1>6
  <2> QED
    BY <1>1, <1>3, <1>4, <2>1, OthersUntouched
<1>8. data'[x] = Blank
  BY <1>3, <1>4, <1>5 DEF TypeOK
<1>9. \A s \in Slots : /\ s \in Nat /\ SectorOf(s) \in Nat
                       /\ \A r \in Nat : r < s => r \in Slots
  BY SlotNumbers, SectorOfSlot
<1>10. file_count \in Nat /\ file_count <= MAX_FILES /\ i \in Nat /\ i < file_count
  BY <1>2, <1>4 DEF TypeOK, Used
<1>11. \A s \in Slots :
          NewCatalog'[s] = IF s >= file_count - 1 THEN NoEntry
                           ELSE IF s < i THEN entries[s] ELSE entries[s + 1]
  <2> SUFFICES ASSUME NEW s \in Slots
               PROVE  Image(s)' = IF s >= file_count - 1 THEN NoEntry
                                  ELSE IF s < i THEN entries[s] ELSE entries[s + 1]
    BY DEF NewCatalog
  <2>1. CASE s >= file_count - 1
    <3>1. ~(s < file_count')
      BY <1>1, <1>9, <1>10, <2>1
    <3> QED
      BY <2>1, <3>1 DEF Image
  <2>2. CASE ~(s >= file_count - 1)
    <3>1. s < file_count' /\ s \in Places
      BY <1>1, <1>9, <1>10, <2>2 DEF Places
    <3>2. Image(s)' = entries'[s]
      BY <3>1 DEF Image
    <3> QED
      BY <1>1, <2>2, <3>1, <3>2 DEF Without
  <2> QED
    BY <2>1, <2>2
<1>12. \A s \in Slots : catalog[s] = IF s < file_count THEN entries[s] ELSE NoEntry
  BY <1>1, <1>9, <1>10, IdleCatalog
<1>13. op'.name = n /\ op'.kind = "delete"
  BY <1>1 DEF Call
<1>14. \A s \in Slots :
          /\ s + 1 \notin Slots => NewCatalog'[s] = NoEntry
          /\ SectorOf(s) < 0 => catalog'[s] = NewCatalog'[s]
          /\ SectorOf(s) >= 0 => /\ s < i => catalog'[s] = NewCatalog'[s]
                                 /\ s = i => catalog'[s].name = op'.name
                                 /\ s > i => catalog'[s] = NewCatalog'[s - 1]
  <2> SUFFICES ASSUME NEW s \in Slots
               PROVE  /\ s + 1 \notin Slots => NewCatalog'[s] = NoEntry
                      /\ s < i => catalog'[s] = NewCatalog'[s]
                      /\ s = i => catalog'[s].name = op'.name
                      /\ s > i => catalog'[s] = NewCatalog'[s - 1]
    BY <1>9
  <2>1. s \in Nat
    BY <1>9
  <2>2. s + 1 \notin Slots => NewCatalog'[s] = NoEntry
    <3> SUFFICES ASSUME s < file_count - 1
                 PROVE  s + 1 \in Slots
      BY <1>10, <1>11, <2>1
    <3>1. s + 1 \in Places
      BY <1>10, <2>1 DEF Places
    <3> QED
      BY <3>1, PlacesAreSlots
  <2>3. s < i => catalog'[s] = NewCatalog'[s]
    BY <1>1, <1>10, <1>11, <1>12, <2>1
  <2>4. s = i => catalog'[s].name = op'.name
    BY <1>1, <1>2, <1>10, <1>12, <1>13
  <2>5. ASSUME s > i
        PROVE  catalog'[s] = NewCatalog'[s - 1]
    <3>1. s - 1 \in Slots /\ s - 1 \in Nat /\ ~(s - 1 < i) /\ s - 1 + 1 = s
      BY <1>9, <1>10, <2>1, <2>5
    <3>2. NewCatalog'[s - 1] = IF s - 1 >= file_count - 1 THEN NoEntry ELSE entries[s]
      BY <1>11, <3>1
    <3> QED
      BY <1>1, <1>10, <1>12, <2>1, <3>2
  <2> QED
    BY <2>2, <2>3, <2>4, <2>5
<1>15. \A s \in Slots : catalog[s].name = n => data'[catalog[s].sector] = Blank
  BY <1>4, <1>6, <1>8, NamedIsValid
<1>16. \A s \in Slots : NewCatalog'[s] = NoEntry \/ \E r \in Slots : NewCatalog'[s] = catalog[r]
  <2> SUFFICES ASSUME NEW s \in Slots, s < file_count - 1
               PROVE  \E r \in Slots : NewCatalog'[s] = catalog[r]
    BY <1>9, <1>10, <1>11
  <2>1. s \in Nat /\ s + 1 \in Places /\ s + 1 < file_count /\ s < file_count
    BY <1>9, <1>10 DEF Places
  <2>2. s + 1 \in Slots
    BY <2>1, PlacesAreSlots
  <2>3. catalog[s] = entries[s] /\ catalog[s + 1] = entries[s + 1]
    BY <1>12, <2>1, <2>2
  <2>4. NewCatalog'[s] = entries[s] \/ NewCatalog'[s] = entries[s + 1]
    BY <1>10, <1>11, <2>1
  <2> QED
    BY <2>2, <2>3, <2>4
<1>17. NoEntry.name # n
  BY NamesAssumption DEF NoEntry, MkEntry
<1>18. \A s \in Slots :
          /\ catalog'[s].name = op'.name => data'[catalog'[s].sector] = Blank
          /\ NewCatalog'[s].name = op'.name => data'[NewCatalog'[s].sector] = Blank
  BY <1>1, <1>13, <1>15, <1>16, <1>17
<1>19. Deleting(catalog', NewCatalog', data', op', 0)
  BY <1>2, <1>14, <1>18, Zenon DEF Deleting
<1> QED
  BY <1>7, <1>13, <1>19 DEF Rewriting

(* fs_flush writes a sector of the new catalogue.                          *)
LEMMA FlushWrites ==
    ASSUME DiskAnswers, TypeOK, FlushSector
    PROVE  /\ \A s \in Slots : catalog'[s] = IF SectorOf(s) = pos THEN NewCatalog[s]
                                             ELSE catalog[s]
           /\ NewCatalog' = NewCatalog
<1>1. PICK landed \in Landed :
         catalog' = [s \in Slots |->
                        IF landed /\ SectorOf(s) = pos THEN Image(s) ELSE catalog[s]]
  BY Zenon DEF FlushSector, FlushSectorOf
<1>2. landed = TRUE
  BY WritesLand
<1>3. \A s \in Slots : NewCatalog[s] = Image(s)
  BY DEF NewCatalog
<1>4. entries' = entries /\ file_count' = file_count
  BY DEF FlushSector, FlushSectorOf, memory
<1>5. NewCatalog' = NewCatalog
  BY <1>4 DEF NewCatalog, Image
<1> QED
  BY <1>1, <1>2, <1>3, <1>5

LEMMA ServedNext ==
    ASSUME DiskAnswers, StoreInv, TypeOK', Next
    PROVE  Served'
<1>1. IInv /\ TypeOK /\ Served
  BY DEF StoreInv, IInv
<1>2. CASE pc' # "flush"
  BY <1>2 DEF Served
<1>3. ASSUME NEW n \in Names \cup {NoName}, fs_create(n)
      PROVE  Served'
  <2>1. n \in Names /\ pos' = 0
    BY <1>3 DEF fs_create, StartFlush
  <2> QED
    BY <1>1, <1>3, <2>1, CreateBegins DEF Served
<1>4. ASSUME NEW n \in Names, NEW t \in Texts, fs_write(n, t)
      PROVE  Served'
  <2>1. pos' = 0
    BY <1>4 DEF fs_write, StartFlush
  <2> QED
    BY <1>1, <1>4, <2>1, WriteBegins DEF Served
<1>5. ASSUME NEW n \in Names, fs_delete(n)
      PROVE  Served'
  <2>1. pos' = 0
    BY <1>5 DEF fs_delete, StartFlush
  <2> QED
    BY <1>1, <1>5, <2>1, DeleteBegins DEF Served
<1>6. CASE FlushSector /\ pc' = "flush"
  <2>1. /\ pos' = pos + 1 /\ pos \in Nat /\ pc = "flush"
        /\ data' = data /\ op' = op
    BY <1>1, <1>6 DEF FlushSector, FlushSectorOf, TypeOK
  <2>2. /\ catalog \in [Slots -> Entries] /\ catalog' \in [Slots -> Entries]
        /\ NewCatalog \in [Slots -> Entries]
    BY <1>1, NewCatalogType DEF TypeOK
  <2>3. Rewriting(catalog, NewCatalog, data, op, pos)
    BY <1>1, <2>1 DEF Served
  <2>4. Rewriting(catalog', NewCatalog, data, op, pos + 1)
    BY <1>1, <1>6, <2>1, <2>2, <2>3, FlushWrites, RewritingGoesOn
  <2> QED
    BY <1>1, <1>6, <2>1, <2>4, FlushWrites DEF Served
<1> QED
  BY <1>2, <1>3, <1>4, <1>5, <1>6
     DEF Next, Boot, Operation, FsInitUnavailable, FsInitRecognised, FsInitFormat,
         FormatCatalogSector, FormatDataSector, LoadSlot, LoadFails, Refuse, PowerLoss,
         fs_create_refused, fs_write_refused, fs_delete_refused

LEMMA StoreInductive ==
    ASSUME DiskAnswers
    PROVE  /\ Init => StoreInv
           /\ StoreInv /\ [Next]_vars => StoreInv'
<1>1. ASSUME Init PROVE StoreInv
  <2>1. IInv /\ Quiet
    BY <1>1, Inductive, QuietInit
  <2>2. Written /\ Phases /\ Served
    BY <1>1 DEF Init, Written, Phases, Served, NoOp, Call
  <2> QED
    BY <2>1, <2>2 DEF StoreInv
<1>2. ASSUME StoreInv, [Next]_vars PROVE StoreInv'
  <2>1. IInv /\ Quiet /\ Written /\ Phases /\ Served
    BY <1>2 DEF StoreInv
  <2>2. IInv' /\ Quiet' /\ TypeOK'
    BY <1>2, <2>1, Inductive, QuietNext DEF IInv
  <2>3. CASE Next
    <3>1. Written' /\ Phases'
      BY <2>1, <2>3, WrittenNext, PhasesNext DEF IInv
    <3>2. Served'
      BY <1>2, <2>2, <2>3, ServedNext
    <3> QED
      BY <2>2, <3>1, <3>2 DEF StoreInv
  <2>4. CASE UNCHANGED vars
    <3>1. Written'
      BY <2>1, <2>4 DEF vars, Written, find_file, Used
    <3>2. Phases'
      BY <2>1, <2>4 DEF vars, Phases
    <3>3. NewCatalog' = NewCatalog
      BY <2>4 DEF vars, NewCatalog, Image
    <3>4. Served'
      BY <2>1, <2>4, <3>3 DEF vars, Served
    <3> QED
      BY <2>2, <3>1, <3>2, <3>4 DEF StoreInv
  <2> QED
    BY <1>2, <2>3, <2>4
<1> QED
  BY <1>1, <1>2

-----------------------------------------------------------------------------
(* Every step of NawFS is one of the store's, or none.                     *)

LEMMA OneFileChanges ==
    ASSUME NEW n \in Names, NEW S, AfterReboot(n)' \in S,
           \A m \in Names \ {n} : AfterReboot(m)' = AfterReboot(m)
    PROVE  Store!OnlyChanges(n, S)
BY DEF Store!OnlyChanges

LEMMA DiskKept ==
    ASSUME UNCHANGED disk
    PROVE  \A n \in Names : AfterReboot(n)' = AfterReboot(n)
BY DEF disk, AfterReboot, Holding

LEMMA NothingChanges ==
    ASSUME UNCHANGED <<disk, op, reply>>
    PROVE  UNCHANGED Store!storeVars
BY DiskKept DEF Store!storeVars

LEMMA RebootView ==
    ASSUME TypeOK, NEW n \in Names
    PROVE  AfterReboot(n) \in Store!Views
BY RebootIsReads, ReadsView DEF TypeOK, Store!Views

LEMMA RebootWillView ==
    ASSUME TypeOK', NEW n \in Names
    PROVE  AfterReboot(n)' \in Store!Views
BY RebootWillBeReads, ReadsView DEF TypeOK, Store!Views

LEMMA BootStep ==
    ASSUME DiskAnswers, StoreInv, TypeOK', Boot
    PROVE  Store!StoreNext \/ UNCHANGED Store!storeVars
<1>1. Quiet /\ Phases
  BY DEF StoreInv
<1>2. CASE FsInitRecognised \/ LoadSlot
  BY <1>2, NothingChanges DEF FsInitRecognised, LoadSlot
<1>3. CASE FsInitFormat \/ FormatCatalogSector \/ FormatDataSector
  <2>1. reply = "none" /\ reply' = "none"
    BY <1>1, <1>3 DEF FsInitFormat, FormatCatalogSector, FormatDataSector, Quiet
  <2>2. /\ op.kind = "none" \/ op.kind = "format"
        /\ op'.kind \in {"none", "format"}
        /\ op.kind = "format" \/ op'.kind = "format"
    BY <1>1, <1>3 DEF FsInitFormat, FormatCatalogSector, FormatDataSector, Phases,
                      FormatOp, NoOp, Call
  <2>3. \A n \in Names : AfterReboot(n)' \in Store!Views
    BY RebootWillView
  <2>4. Store!FormatStep
    BY <2>1, <2>2, <2>3 DEF Store!FormatStep, Store!NoCall
  <2> QED
    BY <2>4 DEF Store!StoreNext
<1> QED
  BY <1>2, <1>3 DEF Boot, FsInitUnavailable, LoadFails, DiskAnswers

LEMMA RefuseStep ==
    ASSUME StoreInv, NEW o, Refuse(o), o.kind \in {"create", "write", "delete"},
           o.kind # "create" => o.name \in Names /\ AfterReboot(o.name) = Absent
    PROVE  Store!Refuse
<1>1. Store!Idle /\ op.kind # "format" /\ reply' = "error" /\ op' = o
  BY DEF StoreInv, IInv, TypeOK, Phases, Refuse, Store!Idle
<1>2. \A n \in Names : AfterReboot(n)' = AfterReboot(n)
  BY DiskKept DEF Refuse
<1>3. Store!Refusable(o)
  BY DEF Store!Refusable
<1> QED
  BY <1>1, <1>2, <1>3 DEF Store!Refuse, Store!Kinds

LEMMA CallStep ==
    ASSUME StoreInv, pc = "idle", NEW o, StartFlush(o), o.name \in Names,
           o.kind \in {"create", "write", "delete"},
           AfterReboot(o.name)' \in Store!During(o, AfterReboot(o.name)),
           \A m \in Names \ {o.name} : AfterReboot(m)' = AfterReboot(m)
    PROVE  Store!Call
<1>1. Store!Idle /\ op.kind # "format" /\ reply' = "busy" /\ op' = o
  BY DEF StoreInv, IInv, TypeOK, Phases, StartFlush, Store!Idle
<1>2. Store!OnlyChanges(o.name, Store!During(o, AfterReboot(o.name)))
  BY OneFileChanges
<1>3. [n \in Names |-> AfterReboot(n)][o.name] = AfterReboot(o.name)
  OBVIOUS
<1> QED
  BY <1>1, <1>2, <1>3 DEF Store!Call, Store!Kinds

LEMMA OperationStep ==
    ASSUME DiskAnswers, StoreInv, TypeOK', Operation
    PROVE  Store!StoreNext
<1>1. IInv /\ TypeOK
  BY DEF StoreInv, IInv
<1>2. NewCatalog' \in [Slots -> Entries] /\ catalog' \in [Slots -> Entries]
  <2>1. \A s \in Slots : Image(s)' \in Entries
    BY NoEntryIsEntry, SizesAssumption DEF TypeOK, Image, Places, Slots
  <2> QED
    BY <2>1 DEF NewCatalog, TypeOK
<1>3. ASSUME NEW n \in Names \cup {NoName}, fs_create(n)
      PROVE  Store!Call
  <2> DEFINE o == Call("create", n, Blank)
  <2>1. n \in Names /\ pc = "idle" /\ StartFlush(o)
    BY <1>3 DEF fs_create
  <2>2. o.name = n /\ o.kind = "create"
    BY DEF Call
  <2> HIDE DEF o
  <2>3. Absent \in Store!During(o, Absent)
    BY <2>2 DEF Store!During
  <2>4. /\ AfterReboot(n) = Absent /\ AfterReboot(n)' = Absent
        /\ \A m \in Names \ {n} : AfterReboot(m)' = AfterReboot(m)
    BY <1>1, <1>3, <2>1, CreateBegins
  <2> QED
    BY <2>1, <2>2, <2>3, <2>4, CallStep
<1>4. ASSUME NEW n \in Names, NEW t \in Texts, fs_write(n, t)
      PROVE  Store!Call
  <2> DEFINE o == Call("write", n, t)
  <2>1. pc = "idle" /\ StartFlush(o) /\ op' = o /\ superblock' = superblock
    BY <1>4 DEF fs_write, StartFlush
  <2>2. o.name = n /\ o.kind = "write" /\ o.text = t
    BY DEF Call
  <2> HIDE DEF o
  <2>3. /\ Rewriting(catalog', NewCatalog', data', o, 0)
        /\ \A m \in Names \ {n} : AfterReboot(m)' = AfterReboot(m)
    BY <1>1, <1>4, <2>1, WriteBegins
  <2>4. Writing(catalog', NewCatalog', data', o)
    BY <2>2, <2>3 DEF Rewriting
  <2>5. PICK k \in 0 .. MAX_FILE_SIZE : Reads(catalog', data', n) = Cut(t, k)
    BY <1>2, <2>2, <2>4, WrittenRead
  <2>6. superblock
    BY <1>1, <2>1 DEF IInv, Layout, Unformatted
  <2>7. AfterReboot(n)' = Cut(o.text, k)
    BY <2>1, <2>2, <2>5, <2>6, RebootWillBeReads
  <2>8. Cut(o.text, k) \in Store!During(o, AfterReboot(n))
    BY <2>2 DEF Store!During
  <2> QED
    BY <2>1, <2>2, <2>3, <2>7, <2>8, CallStep
<1>5. ASSUME NEW n \in Names, fs_delete(n)
      PROVE  Store!Call
  <2> DEFINE o == Call("delete", n, Blank)
  <2>1. pc = "idle" /\ StartFlush(o) /\ op' = o /\ superblock' = superblock
    BY <1>5 DEF fs_delete, StartFlush
  <2>2. o.name = n /\ o.kind = "delete"
    BY DEF Call
  <2> HIDE DEF o
  <2>3. /\ Rewriting(catalog', NewCatalog', data', o, 0)
        /\ \A m \in Names \ {n} : AfterReboot(m)' = AfterReboot(m)
    BY <1>1, <1>5, <2>1, DeleteBegins
  <2>4. Deleting(catalog', NewCatalog', data', o, 0)
    BY <2>2, <2>3 DEF Rewriting
  <2>5. Reads(catalog', data', n) \in {Blank, Absent}
    BY <1>2, <2>2, <2>4, DeletedRead
  <2>6. superblock
    BY <1>1, <2>1 DEF IInv, Layout, Unformatted
  <2>7. AfterReboot(n)' \in {Blank, Absent}
    BY <2>1, <2>5, <2>6, RebootWillBeReads
  <2>8. AfterReboot(n)' \in Store!During(o, AfterReboot(n))
    BY <2>2, <2>7 DEF Store!During
  <2> QED
    BY <2>1, <2>2, <2>3, <2>8, CallStep
<1>6. ASSUME NEW n, fs_create_refused(n)
      PROVE  Store!Refuse
  <2> DEFINE o == Call("create", n, Blank)
  <2>1. Refuse(o) /\ o.kind = "create"
    BY <1>6 DEF fs_create_refused, Call
  <2> HIDE DEF o
  <2> QED
    BY <2>1, RefuseStep
<1>7. ASSUME NEW n \in Names, find_file(n) = MAX_FILES, pc = "idle"
      PROVE  AfterReboot(n) = Absent
  BY <1>1, <1>7, RebootReads DEF fs_read
<1>8. ASSUME NEW n \in Names, NEW t, fs_write_refused(n, t)
      PROVE  Store!Refuse
  <2> DEFINE o == Call("write", n, t)
  <2>1. Refuse(o) /\ o.kind = "write" /\ o.name = n /\ find_file(n) = MAX_FILES /\ pc = "idle"
    BY <1>8 DEF fs_write_refused, Refuse, Call
  <2> HIDE DEF o
  <2> QED
    BY <1>7, <2>1, RefuseStep
<1>9. ASSUME NEW n \in Names, fs_delete_refused(n)
      PROVE  Store!Refuse
  <2> DEFINE o == Call("delete", n, Blank)
  <2>1. Refuse(o) /\ o.kind = "delete" /\ o.name = n /\ find_file(n) = MAX_FILES /\ pc = "idle"
    BY <1>9 DEF fs_delete_refused, Refuse, Call
  <2> HIDE DEF o
  <2> QED
    BY <1>7, <2>1, RefuseStep
<1> QED
  BY <1>3, <1>4, <1>5, <1>6, <1>8, <1>9 DEF Operation, Store!StoreNext

(* While fs_flush writes, the file is in one of the conditions the store   *)
(* allows during the call, and the others stay as they were.               *)
LEMMA FlushStep ==
    ASSUME DiskAnswers, StoreInv, TypeOK', FlushSector
    PROVE  Store!StoreNext
<1>0. PICK o : o = op
  OBVIOUS
<1> DEFINE n == o.name
           old == AfterReboot(n)
<1>1. /\ IInv /\ TypeOK /\ pc = "flush" /\ reply = "busy"
      /\ n \in Names /\ o.kind \in {"create", "write", "delete"}
      /\ o.kind = "write" => o.text \in Texts
      /\ superblock
      /\ Rewriting(catalog, NewCatalog, data, o, pos)
  BY <1>0 DEF StoreInv, IInv, Layout, Unformatted, Quiet, Phases, Served, FlushSector, FlushSectorOf
<1>2. /\ superblock' = superblock /\ data' = data /\ op = o /\ op' = o
      /\ pos \in Nat
  BY <1>0, <1>1 DEF FlushSector, FlushSectorOf, TypeOK
<1>3. /\ catalog \in [Slots -> Entries] /\ catalog' \in [Slots -> Entries]
      /\ NewCatalog \in [Slots -> Entries]
  BY <1>1, NewCatalogType DEF TypeOK
<1>4. Rewriting(catalog', NewCatalog, data, o, pos + 1)
  BY <1>1, <1>2, <1>3, FlushWrites, RewritingGoesOn
<1>5. \A m \in Names : /\ AfterReboot(m) = Reads(catalog, data, m)
                       /\ AfterReboot(m)' = Reads(catalog', data, m)
  BY <1>1, <1>2, RebootIsReads, RebootWillBeReads
<1>6. \A m \in Names \ {n} : AfterReboot(m)' = AfterReboot(m)
  <2> SUFFICES ASSUME NEW m \in Names, m # n
               PROVE  Reads(catalog', data, m) = Reads(catalog, data, m)
    BY <1>5
  <2>1. Reads(catalog, data, m) = Reads(NewCatalog, data, m)
    BY <1>1, <1>2, <1>3, OthersRead
  <2>2. pos + 1 \in Nat
    BY <1>2
  <2>3. Reads(catalog', data, m) = Reads(NewCatalog, data, m)
    BY <1>3, <1>4, <2>2, OthersRead
  <2> QED
    BY <2>1, <2>3
<1>7. AfterReboot(n)' \in Store!During(o, old)
  <2>1. CASE o.kind = "create"
    <3>1. Creating(catalog, NewCatalog, o) /\ Creating(catalog', NewCatalog, o)
      BY <1>1, <1>4, <2>1 DEF Rewriting
    <3>0. o.name \in Names
      BY <1>1
    <3>2. \/ catalog = NewCatalog /\ old = Blank
          \/ catalog # NewCatalog /\ old = Absent
      <4>1. Creating(catalog, NewCatalog, o)
        BY <3>1
      <4>2. \/ catalog = NewCatalog /\ Reads(catalog, data, o.name) = Blank
            \/ catalog # NewCatalog /\ Reads(catalog, data, o.name) = Absent
        BY <1>3, <3>0, <4>1, CreatedRead
      <4> QED
        BY <1>1, <1>5, <4>2
    <3>3. \/ catalog' = NewCatalog /\ AfterReboot(n)' = Blank
          \/ catalog' # NewCatalog /\ AfterReboot(n)' = Absent
      BY <1>1, <1>3, <1>5, <3>1, CreatedRead
    <3>4. catalog = NewCatalog => catalog' = NewCatalog
      BY <1>1, <1>3, FlushWrites
    <3>5. AfterReboot(n)' \in {old, Blank}
      BY <3>2, <3>3, <3>4
    <3> QED
      BY <2>1, <3>5 DEF Store!During
  <2>2. CASE o.kind = "write"
    <3>1. Writing(catalog', NewCatalog, data, o)
      BY <1>4, <2>2 DEF Rewriting
    <3>2. \E k \in 0 .. MAX_FILE_SIZE : AfterReboot(n)' = Cut(o.text, k)
      BY <1>1, <1>3, <1>5, <2>2, <3>1, WrittenRead
    <3> QED
      BY <2>2, <3>2 DEF Store!During
  <2>3. CASE o.kind = "delete"
    <3>1. Deleting(catalog', NewCatalog, data, o, pos + 1)
      BY <1>4, <2>3 DEF Rewriting
    <3>2. AfterReboot(n)' \in {Blank, Absent}
      BY <1>1, <1>3, <1>5, <3>1, DeletedRead
    <3> QED
      BY <2>3, <3>2 DEF Store!During
  <2> QED
    BY <1>1, <2>1, <2>2, <2>3
<1>8. [m \in Names |-> AfterReboot(m)][n] = old
  BY <1>1
<1>9. CASE reply' = "busy"
  <2>1. Store!OnlyChanges(n, Store!During(o, old))
    BY <1>1, <1>6, <1>7, OneFileChanges
  <2>2. Store!Advance
    BY <1>1, <1>2, <1>8, <1>9, <2>1 DEF Store!Advance
  <2> QED
    BY <2>2 DEF Store!StoreNext
<1>10. CASE reply' # "busy"
  <2>1. reply' = "ok" /\ pc' = "idle"
    BY <1>1, <1>10 DEF FlushSector, FlushSectorOf
  <2>2. catalog' = NewCatalog
    <3>1. CatalogInSync'
      BY <1>1, Inductive DEF Next, IInv, Layout
    <3>2. \A s \in Slots : catalog'[s] = NewCatalog'[s]
      BY <2>1, <3>1 DEF CatalogInSync, NewCatalog
    <3> QED
      BY <1>1, <1>3, <3>2, FlushWrites
  <2>3. AfterReboot(n)' \in Store!After(o)
    <3>1. CASE o.kind = "create"
      <4>1. Creating(catalog', NewCatalog, o)
        BY <1>4, <3>1 DEF Rewriting
      <4>2. AfterReboot(n)' = Blank
        BY <1>1, <1>3, <1>5, <2>2, <4>1, CreatedRead
      <4> QED
        BY <3>1, <4>2 DEF Store!After
    <3>2. CASE o.kind = "write"
      <4>1. AfterReboot(n)' = Clip(o.text)
        <5>1. IInv' /\ Quiet' /\ Written'
          BY <1>1, Inductive, QuietNext, WrittenNext DEF StoreInv, Next
        <5>2. WriteStores'
          BY <5>1, WritesAreStored, PTL
        <5> QED
          BY <1>2, <2>1, <3>2, <5>2 DEF WriteStores
      <4> QED
        BY <3>2, <4>1 DEF Store!After
    <3>3. CASE o.kind = "delete"
      <4>1. Deleting(catalog', NewCatalog, data, o, pos + 1)
        BY <1>4, <3>3 DEF Rewriting
      <4>2. AfterReboot(n)' \in {Blank, Absent}
        BY <1>1, <1>3, <1>5, <4>1, DeletedRead
      <4> QED
        BY <3>3, <4>2 DEF Store!After
    <3> QED
      BY <1>1, <3>1, <3>2, <3>3
  <2>4. Store!OnlyChanges(n, Store!After(o))
    BY <1>1, <1>6, <2>3, OneFileChanges
  <2>5. Store!Return
    BY <1>1, <1>2, <2>1, <2>4 DEF Store!Return
  <2> QED
    BY <2>5 DEF Store!StoreNext
<1> QED
  BY <1>9, <1>10

LEMMA StoreStep ==
    ASSUME DiskAnswers, StoreInv, StoreInv', [Next]_vars
    PROVE  [Store!StoreNext]_(Store!storeVars)
<1>1. TypeOK'
  BY DEF StoreInv, IInv
<1>2. CASE Boot
  BY <1>1, <1>2, BootStep
<1>3. CASE Operation
  BY <1>1, <1>3, OperationStep
<1>4. CASE FlushSector
  BY <1>1, <1>4, FlushStep
<1>5. CASE PowerLoss
  <2>1. op'.kind = "none" /\ reply' = "none" /\ UNCHANGED disk
    BY <1>5 DEF PowerLoss, NoOp, Call
  <2>2. Store!PowerFails
    BY <2>1, DiskKept DEF Store!PowerFails, Store!NoCall
  <2> QED
    BY <2>2 DEF Store!StoreNext
<1>6. CASE UNCHANGED vars
  BY <1>6, NothingChanges DEF vars, disk
<1> QED
  BY <1>2, <1>3, <1>4, <1>5, <1>6 DEF Next

LEMMA StoreBegins == Init => Store!StoreInit
<1> SUFFICES ASSUME Init PROVE Store!StoreInit
  OBVIOUS
<1>1. \A n \in Names : AfterReboot(n) = Absent
  BY DEF Init, AfterReboot
<1> QED
  BY <1>1 DEF Init, Store!StoreInit, Store!NoCall, NoOp, Call

(* On a disk that answers, with the power failing between any two sector   *)
(* writes and any number of times, NawFS is the store of FileStore: a call *)
(* changes no file but the one it names, at any of its sector writes, that *)
(* file is in one of the listed conditions until the call returns, and     *)
(* what is reported done a restart finds done.                             *)
THEOREM NawFSImplementsStore ==
    ASSUME DiskAnswers
    PROVE  Spec => ImplementsStore
<1>1. Init => StoreInv /\ Store!StoreInit
  BY StoreInductive, StoreBegins
<1>2. StoreInv /\ [Next]_vars => StoreInv'
  BY StoreInductive
<1>3. StoreInv /\ StoreInv' /\ [Next]_vars => [Store!StoreNext]_(Store!storeVars)
  BY StoreStep
<1> QED
  BY <1>1, <1>2, <1>3, PTL DEF Spec, ImplementsStore, Store!StoreSpec
=============================================================================
