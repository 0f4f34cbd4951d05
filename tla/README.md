# A verification development for NawOS

NawOS is a 32-bit hobby operating system: one address space, no processes, no
threads. Everything happens in two contexts:

- the **main loop** of `kernel/kernel.c` (lines 15-37): after `net_init` it polls the
  RTL8139, handles the frames received and calls `net_periodic`, for ever, with
  interrupts on;
- the **keyboard interrupt** (`kernel/interrupts/irq1.asm`): the shell, the editor, the
  calculator and Lelya programs run *inside* it, with interrupts off, until they return.

So a file-system call is never interleaved with another one, but anything the main loop
does (handling a DHCPACK, printing a received text) can be cut in two, between any two
machine instructions, by a whole shell command. Nothing in the network or the terminal
code turns interrupts off. That, the power failing in the middle of a catalogue rewrite,
and a network that loses, delays and repeats messages are where this code is hard; the
models below are built around these three.

This directory holds TLA+ modules translated from the C code, TLC configurations that
check them on small instances, and proofs of their safety properties for every instance.
`PROJECT.json` maps each definition to the lines it models, names for every checked
property a plausible bug in that code the property detects (the `*_...` variants beside
the definitions in the modules), and lists the hazards and findings.

## 1. Inventory

| Component | State | Operations | Interacts with | What is hard | What makes it correct | Modelled |
|---|---|---|---|---|---|---|
| NawFS (`fs/nawfs.c`) | catalogue in memory (`entries`, `file_count`); on disk a superblock, 9 catalogue sectors, 64 data sectors | `fs_init` (recognise, format, load), `fs_create`, `fs_write`, `fs_delete`, `fs_read`, `fs_list` | called by shell, editor, Lelya; calls ATA | power loss between sector writes; a full catalogue; lost writes; unreadable sectors | files never share a sector; disk equals memory between calls; a successful call survives a restart; boot ends | `NawFS`, `FileStore` |
| ATA driver (`drivers/ata/ata.c`) | none (the drive's) | read and write a sector by PIO | NawFS, `readsec` | `ata_wait` times out and the result is ignored for writes | success means the sector is there | as NawFS sees it |
| Image builder (`fs/nawfs_builder.c`) | a file on the host | write an image with one file | `fs_init` reads the image | the two must agree on the format | the file is there after boot | as an initial state of `NawFS` |
| DHCP client (`net/net.c`, `net/dhcp.c`) | address (twice), server, two configured flags, pending offer, retry counter | `net_init`, `net_periodic`, `net_request_dhcp`, `dhcp_handle_udp_packet`, `net_send_text_broadcast` | main loop, shell, UDP, terminal | duplicated, late, refused answers of several servers; a `dhcp` command in the middle of a handler | uses only a leased address; whole lease; gets one in the end | `Dhcp` |
| UDP, IPv4, Ethernet (`net/udp.c`, `net/ipv4.c`, `net/ethernet.c`) | none | parse and build frames, find a DHCP option | RTL8139, DHCP, terminal | 16-bit length arithmetic over lengths the sender chose | a payload handed on lies inside the frame; a text sent arrives as long as it was | `Frames` |
| RTL8139 (`drivers/rtl8139/rtl8139.c`) | ring cursor `rx_cur`, `tx_slot`, buffers | poll, interrupt, send, receive | main loop and shell both send | the ring wraps with frames past its end; two contexts take a transmit slot; a bad frame blocks | frames are handed on once, in order; what is sent goes out whole | `Rtl8139`, `FrameQueue` |
| PCI (`drivers/pci/pci.c`) | none | scan for the card | RTL8139 | the 8-bit bus counter | the card is found where it is | the scan, in `Rtl8139` |
| Terminal (`kernel/terminal/terminal.c`) | history of 100 rows, row lengths and wrap flags, cursor, rows in use, view, batch depth, screen memory | put a character, clear, move the cursor, page up/down, batches | everything prints; main loop *and* interrupt | wrapping, erasing over a wrapped row, the history moving up, drawings put off; the two contexts | nothing written is lost; the screen shows the history; the cursor stays inside | `Terminal`, `TerminalContexts` |
| VGA, screen wrappers | screen memory | cell writes, forwarding | terminal | - | - | memory only |
| Keyboard and shell line (`kernel/input`, `kernel/shell/shell_input.c`) | modifier flags, tables of keys down, handler, line of 256 | interrupt, polling, translation, line editing, reading a number | shell, editor, Lelya, terminal | the same scancode read by polling and by the interrupt; a release nobody saw; tables cleared while keys are held | every key press is acted on once, and answered | `Keyboard`, `Console` |
| Shell (`kernel/shell/shell_commands.c`) | none | the commands | everything | - | - | the file commands in `NawFS`, `dhcp` in `Dhcp`, `netmsg` in `Rtl8139`, `edit` and `lelya` in `Console` |
| Editor (`apps/editor`) | buffer of 512, length, cursor, message, file name | insert, delete, move, load, save | NawFS, keyboard, terminal | the buffer must stay a C string; rows that wrap and rows that end; saving a file never created | what is saved is what is shown; the cursor is drawn on its character | `Editor`, `Console` |
| Lelya (`apps/nawlang`) | compiler tables, bytecode, stack, variables | compile, run | NawFS, keyboard, terminal, math | jumps completed when a block ends; `else`, `break`, `continue` in nested loops; full stack and tables | the compiled program does what the text says and stays in its code | `LelyaExpr`, `LelyaText`, `LelyaSource`, `Lelya` |
| Math library, calculator | a ring of 8 result buffers | complex arithmetic and formatting | Lelya, shell | floating point | - | no: floating point |
| Interrupt tables, boot loader, memory, string, port helpers | - | straight-line set-up, stateless helpers | - | - | - | no |
| `lib/mathtest.cpp` | - | a host program | - | - | - | no |

The hazards, each at its line and with the properties that watch it, are in
`PROJECT.json`; the few that no property watches carry a note that says why.

## 2. The modules

```
abstract        detailed                                       proofs                 instance
FileStore    <- NawFS                                          NawFSProofs            MCNawFS
                Dhcp                                           DhcpProofs             MCDhcp
FrameQueue   <- Rtl8139        (extends Frames)                Rtl8139Proofs          MCRtl8139
                Terminal                                       TerminalProofs         MCTerminal
                TerminalContexts (extends Terminal)                                   MCTerminalContexts
                Console        (extends Keyboard, Editor)      EditorProofs           MCConsole
                                                                 <- ConsoleProofs
LelyaSource  <- Lelya          (both extend LelyaText,         LelyaProofs            MCLelya
                                which extends LelyaExpr)
                                                               Induction
```

`<-` reads "is implemented by" between the first two columns and "is extended by" in the
third. The definitions named `..._<something>` beside a definition are slips of it, used
to see that a property notices them; no specification uses them.

### NawFS and FileStore

`NawFS` is `fs/nawfs.c` over a disk of a superblock, `CATALOG_SECTORS` catalogue sectors
of `SLOTS_PER_SECTOR` entries and `MAX_FILES` data sectors. `entries`, `file_count`,
`superblock`, `catalog` and `data` are the arrays of the code and of the disk; `pc` and
`pos` say in which loop the file system is and its counter; `op` and `reply` are the
call being served and what it returned.

One step is one sector read or written, with the memory updates beside it: `fs_create`
changes the entry, writes the data sector and goes to `flush`; each `FlushSector` writes
one catalogue sector. Only `PowerLoss` can come between; memory is then lost, so no
observer can tell finer steps. Every refusal of the code (`*_refused`) is an action with
the code's guards. Booting is `FsInit...`, `Format...Sector`, `LoadSlot`, and
`LoadFails`, which keeps what it has when a sector cannot be read.

Abstractions: a (name, ext) pair is one value; a text is an identity and a length, which
is all that truncation (`Cut`, `Clip`) can alter; a superblock is right or wrong; a
sector write is atomic on the medium. With `WriteFaults` a write may be dropped silently,
which is what `disk_write_sector` makes of a time-out; with `ReadFaults` any read at boot
may fail. `fs_read` is an operator: it changes nothing.

`FileStore` is what callers may rely on: a map from names to texts where an operation
changes only its own file, passes through listed intermediate conditions, and, once it
reports success, is found done after a restart. `NawFS` implements it under the mapping
`files[n]` = what `fs_read(n)` would find *if the power failed now* (`AfterReboot`), so
the refinement checks crash behaviour at every step and not only after a crash.

### Dhcp

`Dhcp` is the client and its main loop. All handlers are one step except the DHCPACK
handler, whose statements can be told apart by a `dhcp` command coming between them:
`AckAddress`, `AckInfo`, `AckServer`, `AckConfigured`, `AckBound` (an `-O2` build keeps
this order, as the copies are calls of the kernel's own `memcpy`). `DhcpCommand` may fire
at any point. For the other handlers, an interruption gives the same result as the
command just before or after them: the one case with arithmetic, `dhcp_retry_ticks--`,
overwritten after the command set it, is the command followed by several rounds of
`net_periodic`.

The wire is a set from which messages are taken without being removed (duplicates,
delays, reordering) unless `Lose` removes them. All messages carry one transaction id,
as in the code, so a late DHCPACK cannot be told from a fresh one. Servers offer and
acknowledge only addresses of their pool; some leave out the server identifier, which
the code must supply (`AckServer`). `granted` is a history variable: the addresses
leased so far. `interrupted` records whether a `dhcp` command came in the middle of the
last DHCPACK. Gateway and subnet are copied and printed but never used; they are left out.

### Terminal and TerminalContexts

`Terminal` has one action per call of `terminal.c`; `vga` is the drawn screen.
`text` is a history variable, the characters written less those erased and less the rows
that left the history; it stops being kept (`moved`) when a call places the cursor
elsewhere, since a reading order is then no longer defined. `TerminalContexts` extends it
with the main loop's `terminal_put_char` in the steps an interrupt can come between
(store, count, wrap, make room, draw) and whole shell writes as the interrupt.

### Frames, FrameQueue and Rtl8139

`Frames` follows a received frame through Ethernet, IPv4 and UDP to the DHCP client or
the terminal. Of its contents it keeps the fields that decide where it goes and how many
bytes of it are believed to be payload, 16-bit where the code is 16-bit. It also has the
lengths of the frames `udp_send_packet` builds, and `dhcp_find_option` byte by byte.

`Rtl8139` is the driver, the main loop around it and the card. The receive ring is
modelled in bytes: a header in memory is the place it begins at and the frame it
announces; storing a frame destroys the headers under it; `rx_cur`, the card's write
cursor and CAPR (with its offset of 16) are the numbers of the code, so alignment to 4,
the wrap, and the frame that runs past the end of the ring are all there. The main loop's
statements are steps, and between any two of them the card may store a frame, drop one
for want of room (reporting the overflow), transmit a descriptor or interrupt, and the
shell may send. Sending by the main loop is cut where an interrupt matters: the slot is
read, advanced, filled in two halves, started. An `-O2` build may keep `tx_slot` in a
register or read it again between the first two; both are outcomes (`SendTakesSlot`).
`accepted` and `delivered` are histories of frames stored and handled; `clean` says that
no two senders have shared a slot so far and none has filled one the card was still to
transmit, which the code does nothing to prevent.

`FrameQueue` is what the network code may rely on: frames come out in the order they came
in, each once, and in the end, unless one the driver refuses stands in front of them.
That exception is the code's: `rtl8139_handle_receive` leaves its loop at a bad length
without moving `rx_cur`, so a frame longer than `MAX_PACKET` stays at the head for ever.
`net_packet_received` is written and never read. Without a card the scan of `pci.c:39`
never ends, as its eight-bit counter is always below 256; the model does the same.

### Keyboard, Editor and Console

`Keyboard` is `keyboard_driver_translate_scancode` and its tables. `Editor` is the editor
as a value, `[buffer, len, cursor, status]`, and one operator per function; `Drawn` is
what `terminal_put_char` does with the same text, the reference the editor's own count of
rows and columns is compared with.

`Console` composes them with the keyboard controller, the interrupt, the shell's line and
the programs that poll. It models the queue of the controller in front of the data port,
which shows the last byte again when there is no other, and the interrupt latched while a
command runs inside the handler. A press has a number, carried by the bytes it makes, so
that `acted`, `twice` and `lost` can say what became of it. The code is right only up to
two effects which the histories `forgotten` and `swallowed` delimit:

- a program that starts or ends clears the driver's tables (`reset_state`), so a key then
  held counts as pressed anew when it repeats. Leaving the editor is such a moment, and
  the latched interrupt makes the shell read the same Esc once more;
- `lelya` reads releases itself without telling the driver, so the release of the Enter
  that started it is not seen and the next Enter is taken for a repeat.

`ActedOnce` and `NoPressLost` say that nothing else goes wrong. Also in the code and the
model: releasing one of two shifts clears the shift (`keyboard_driver.c:107`); an
unreadable file is opened as a new one (`editor_file.c:11`); a file that was never created
cannot be saved. Left out: the echo on the terminal, the sign in `input_read_int`,
extended keys while `lelya` runs, where it indexes an array out of bounds
(`shell_commands.c:83`). The two bytes of an extended key are queued together.

### LelyaExpr, LelyaText, LelyaSource and Lelya

A program is a sequence of items: a simple statement with the rest of its line, the header
of an `if` or `while`, an `else`, a closing brace, a line that is no statement. `LelyaText`
has its block structure, `LelyaExpr` both the value of an expression by its precedence and
the instructions the recursive-descent compiler emits for it (`parse_factor` is its first
level, `ParseAt` one call at any level).

`LelyaSource` is what the text means: control moves from item to item, and blocks are what
stands between matching braces. `Lelya` is `compiler.c` and `vm.c`: one statement compiled
per step, jumps emitted without a target and completed (`Patch`) when their block ends,
`break` and `continue` collected in the innermost loop's table, then the machine with its
stack, one instruction per step. `Lelya` implements `LelyaSource` when the machine's place
in the code is mapped to the item that instruction was made for.

The limits of the language are the code's: a `while` nested too deep is not one; a full
variable table gives its last entry to every new name; a simple statement takes the rest
of its line, a brace included; an `else if` compiles the second `if` as a statement of its
own; an `if` header ends at its first `)`. A brace that closes nothing makes the compiler
loop for ever (`compiler.c:593`), so `CompileEnds` speaks of balanced texts. One `break`
more than the table holds is "overrun", where the model stops, as the code then writes
past an array. The least integer divided by -1 traps, on both sides of the refinement.

Abstractions: spelling and spacing; names stand for their first 15 characters; a call of a
math function is a string made of its arguments. A call with more arguments than its
function takes, but not more than three, leaves those beyond on the stack (`vm.c:250` takes
the last ones). The compiler and the machine of the model do so too, but `LelyaSource` gives
such a call no meaning and the texts of the run have none; `StackEmptyBetween` speaks of texts
without them (`CallsFit`). Left out of the run also: a call without its closing parenthesis, a
comparison inside parentheses. `emit` does not check `MAX_CODE` (1024); the 511 characters
a file can hold cannot fill it.

## 3. The runs

Checked with TLC; deadlock is checked except where stated.

| Run | Instance | States | What it shows |
|---|---|---|---|
| `nawfs_power_loss` | 3 names, 3 files, 2 catalogue sectors of 2 slots, 2 texts, power loss | 317 752 | `TypeOK`, `NoCrossLink`, `CatalogInSync`, `WriteStores`, and `ImplementsStore` |
| `nawfs_faults` | 2 names, 2 catalogue sectors of 1 slot, read and write faults | 132 894 | `FreeSectorExists`, `EntriesDistinct`, `DeleteRemoves` within a session; `BootEnds`, `CallEnds` |
| `nawfs_lost_write` | the same, write faults | violation | "File written" for a write the drive dropped |
| `nawfs_torn_delete` | the same, power loss | violation | "File deleted" and the file is still there |
| `nawfs_built_image` | the same, no faults | violation | the builder's file does not survive the first boot |
| `dhcp` | 2 servers of 1 address, 1 of them terse, 2 commands, 1 retry tick | 97 377 | `TypeOK`, `SourceIsLeasedUndisturbed`, `LeaseIsWhole`; `GetsConfigured` |
| `dhcp_interrupted` | the same, 1 command | violation | configured at 0.0.0.0 |
| `terminal` | screen 2x2, history of 3 rows, 1 glyph, 1 batch | 55 044 | `TypeOK`, `RowsInUse`, `ScreenIsCurrent`, `ReadsBack` |
| `rtl8139` | ring of 256 bytes, frames of 64, 97 and (refused) 111, 4 stored, 3 sent, 5 in all, 2 transmit slots, card on bus 1 or on none of 3 | 587 220 | `TypeOK`, `PayloadWithinFrame`, `OptionIsThere`, `SentWhole`; `ImplementsQueue`, `OverflowAcknowledged`, `AllSent` |
| `console` | 9 keys (2 extended), editor of 4 characters on 2 columns, 3 presses, 2 keys held, 2 bytes queued | 1 046 934 | `TypeOK`, `ActedOnce`, `NoPressLost`, `TextEndsAtNul`, `SavedIsShown`, `CursorOnItsCharacter`, `VerticalMoves`; `EveryPressAnswered` |
| `lelya` | every text of up to 4 items of 8 kinds, up to 3 of 13, loops in loops, all expressions of 2 and 3 operands; 3-bit numbers, loop depth 2, 2 variables, strings and jumps, stack of 3 | 103 476 | `TypeOK`, `StaysInCode`, `StackEmptyBetween`; `ImplementsSource`, `CompileEnds` |
| `terminal_contexts` | the same, 3 net characters, 1 shell character | violation | a shell character is erased |

**Bounds.** *NawFS*: two catalogue sectors are the least a torn rewrite needs, two slots
in each let an entry move within a sector and across the boundary, three files leave one
slot beyond `MAX_FILES`, as the 144 slots for 64 files do. Three names can fill the
catalogue and still name a missing file; two texts differ in identity and length, so a
write cut short shows. Names other than the built image's are interchangeable (symmetry;
no liveness is checked in that run). *Dhcp*: two servers give every mixture of answers,
one of them terse; two commands let one undo and one follow; one retry tick is enough
for the counter to be set, run down and start again. *Terminal*: two columns make a row
that wraps and one that does not; three rows over a screen of two make the history move
up and the view move in it; one glyph is told from a blank, and `ReadsBack` counts
places, not characters. *Rtl8139*: three frames fill the ring, so it wraps at each of the
alignments the lengths give, overflows, and takes a frame past its end; the contents have
honest lengths, lengths too long, too short and of zero, and headers with options; two
slots are the fewest two senders can share or find still to be transmitted; the option
lists hold padding, an empty option, one that runs past the end, and a code among another
option's bytes. *Console*: three presses let one key be held while another starts or ends a
program and a third is read after it; two bytes in the queue let one byte be read while
another waits; four characters of text on two columns give rows that wrap, rows that end
and rows shorter than the cursor's column; the history of 6 rows lets the text move it up.
*Lelya*: four items hold a loop in a loop or an `if` with its `else` and the statement after;
the nested programs add a body before and after an inner block; two jumps and one too many
fit into a loop; a stack of three overflows on three operands and a call; 3-bit numbers
overflow and have a least one.

**Fairness.** *NawFS* (`FairSpec`): weak fairness of a boot or a call once begun, since
the processor goes on executing; nobody has to call, and nothing is assumed of power.
*Dhcp* (`FairSpec`): the main loop has no blocking call, so it finishes handlers (weak
fairness) and gets to `net_periodic` again and again (strong fairness: frames may hold it
up for a while); the network is assumed to answer and to deliver what is asked again and
again (strong fairness of a server's offer and acknowledgement and of their receipt),
without which no client gets an address. Refusals and losses stay free, and
`GetsConfigured` needs the retry of `net_periodic`: without it the property fails.
*Rtl8139* (`FairSpec`): weak fairness of the main loop, which runs for ever with no
blocking call, and of the card transmitting what it is told to; frames, interrupts and the
shell stay free. *Console* (`FairSpec`): weak fairness of the computer's steps together: a
waiting interrupt is taken and a polling loop goes round; the user need do nothing.
*Lelya* (`FairSpec`): weak fairness of the compiler and of the machine, which run in the
interrupt handler where nothing interrupts them.

**Deadlock.** `dhcp`, `dhcp_interrupted`: a configured client on a silent network has
nothing to do. `terminal_contexts`: its bounds end it. `console`: a machine whose user has
pressed all his keys waits. `lelya`: a program ends. Everywhere else it is checked.

## 4. Findings

Each is a violation run with the line of the repository it contradicts.

1. **Lost write** (`drivers/ata/ata.c:83`): the result of `ata_wait` is dropped on writes,
   so `fs_write` returns success for a sector never written.
2. **Torn delete** (`fs/nawfs.c:349`): the entries move down and the catalogue is rewritten
   one sector at a time; power failing between two sectors leaves one entry twice.
   `load_catalog` accepts both, a later `fs_delete` removes the first and reports success,
   and the file is still readable. `NoCrossLink` shows the damage goes no further: the
   two entries are of the same file.
3. **Built image** (`fs/nawfs_builder.c:61`): the image has a catalogue and no superblock;
   `fs_init` formats it.
4. **Interrupted DHCPACK** (`net/dhcp.c:216`): `dhcp` typed between the copy of the address
   and `configured = 1` leaves a client configured with address 0.0.0.0 that
   `net_periodic` will not retry.
5. **Erased output** (`kernel/terminal/terminal.c:141`): what the shell writes while the
   main loop is between moving to a new row and clearing it disappears.

## 5. The proofs

Checked with TLAPS, for every value of the constants that meets the modules' named
assumptions (which TLC evaluates for the instances). Every inductive invariant was checked
by TLC on the instances above before it was proved (that of `LelyaProofs`
with the bound of the stack's depth it says exists: 0 where an item begins, and the sum of the
effects of its instructions inside it).

**`Induction`** - induction over the naturals in the form of sets (`SetInduction`,
`InductionUpTo`), derived from the least element of a set, and from it that a function
defined by recursion over an interval exists and is the only one (`RecursionExists`,
`RecursionUnique`; `DownwardExists` when the value at a place depends on later ones). The
provers cannot use the library's induction theorems, which take an operator; with these the
recursive functions of the models, and `FlattenSeq` of the community modules, can be proved
about for every argument.

**`NawFSProofs`** - assumptions `NamesAssumption`, `SizesAssumption`, `RoomAssumption`,
`TextsAssumption`, `AbsentAssumption`, `HelloAssumption`: positive sizes, as many
catalogue slots as files.

- `TypeCorrect`: `TypeOK` always, on any disk. It is inductive as it stands.
- `NoFileIsCrossLinked`, `DiskFollowsMemory`: `NoCrossLink` and `CatalogInSync` always, on
  a disk that answers (`DiskAnswers`), with the power failing anywhere. `NoCrossLink` is
  not inductive: half way through a rewrite the disk is a mixture of two catalogues, and
  one has to know which. The inductive invariant is `TypeOK /\ Layout /\ NoCrossLink`, where
  `Layout` has one part per phase: what the disk holds is a prefix of the slots (`Packed`);
  memory holds exactly `file_count` entries (`MemoryFilled`); while loading, memory is the
  part of the disk read so far (`Loading`); while flushing, the sectors before `pos` are
  the image of memory and the others hold a catalogue at most one entry longer or shorter
  (`Flushing`); an unformatted disk holds at most one entry (`Unformatted`); and
  `CatalogInSync` itself. `LayoutNext` and `LinkNext` prove it kept, action by action.
- `RoomMeansSector`: `FreeSectorExists` always, on any disk: with fewer than `MAX_FILES`
  entries the sectors in use are fewer than the `MAX_FILES` data sectors (the pigeonhole
  principle, with the library's theorems on cardinality), so the second check of
  `fs_create` never fires.
- `EntriesStayDistinct`, `DeletedFilesAreGone`: `EntriesDistinct` and `DeleteRemoves`
  always, on a disk that may fail any read and drop any write, as long as the power stays
  on (`~PowerLosses`); with a power loss the second is false (finding 2). The invariant adds
  that the disk a session boots from holds one entry at most (`Booting`), that replies
  belong to calls (`Quiet`), and that the name of a delete is gone from the moment the
  entries have moved (`Gone`), which needs `EntriesDistinct`.
- `WrittenTextsAreThere`: `WriteStores` always, on a disk that answers, with the power
  failing anywhere (without the first it is false, finding 1). It rests on the
  invariant above: between calls the catalogue on disk is the one in memory, so a restart
  finds the entry `fs_read` finds (`RebootReads`), also when a torn delete left two.

- `NawFSImplementsStore`: `ImplementsStore`, that is, `FileStore` is implemented by `NawFS`
  on a disk that answers (`DiskAnswers`), with the power failing anywhere and any number of
  times. A file of the store is the first slot of its name on disk, so the proof asks of
  every sector `fs_flush` writes what that does to the first slot of every name. The
  invariant `StoreInv` is the one above with `Quiet`, `Written`, `Phases` (which
  call or boot step is under way where) and `Served`: during a flush the disk and the
  catalogue being written differ in a way that depends on the call, one new empty entry
  (`Creating`), entries of the written file only (`Writing`), or entries moved down from
  one slot on (`Deleting`). `OthersRead` shows that such a mixture says of every other file
  what the new catalogue says; `CreatedRead`, `WrittenRead` and `DeletedRead` that it says
  of the file itself what the store allows; `RewritingGoesOn` that the next sector keeps it.

**`DhcpProofs`** - assumptions `AddrsAssumption`, `PoolAssumption`, `NumbersAssumption`.

- `TypeCorrect`: `TypeOK` always.
- `TextsComeFromALease`, `LeasesAreWhole`: `SourceIsLeasedUndisturbed` and `LeaseIsWhole`
  always, for any servers, pools, retry interval and number of commands. Neither is
  inductive: both depend on how far the handler of a DHCPACK is and on who can have
  acknowledged. `IInv` adds that an acknowledged address was granted (`AcksAreGranted`),
  that a client which asked took up a server, so `server_id` is a server when a terse
  DHCPACK needs it (`AskedSomeone`), that nothing is acknowledged before `net_init`
  (`Fresh`), and what the handler has stored at each statement unless a command undid it
  (`HandledSoFar`). One lemma per conjunct, one step per action.

**`Rtl8139Proofs`** - `RingAssumption` (a ring of a multiple of four bytes, at most 65536,
each frame with its header and alignment smaller than the ring), `SizesAssumption`,
`ContentsAssumption` (length fields have their widths), `OptionsAssumption` (options are
bytes and the codes looked for are neither 0 nor 255).

- `TypeCorrect`, `PayloadsStayInFrame`: `TypeOK` and `PayloadWithinFrame` always.
- `RingIsQueue`: `FrameQueue`'s `Spec`, the safety part of `ImplementsQueue`, for every ring
  and every lengths of frames. The invariant is `TypeOK /\ Progress /\ Layout /\
  PayloadWithinFrame`: `Progress` relates the main loop's statement to the frames handled;
  `Layout` gives, for each frame stored and not yet taken, the distance its header lies
  behind the card's write cursor, the sum of the sizes of the frames from it on, and says
  that this header is still whole. The proof shows that the card stores a frame only
  into room that holds no such header, past the end of the ring included, and that
  `rx_cur` aligned and reduced is the place of the next one.
- `PayloadLiesInFrame`: for a frame of any length below 65536 and any values in the
  length fields, what `ethernet_receive_frame` hands on lies inside the frame.
- `TextArrives`: a text of at most 1472 bytes, put into a frame by `udp_send_packet` and
  padded by the network to any length, is handed on where and as long as it went in.
- `FramesAreSentWhole`: `SentWhole` always, for any number of slots and any sends. While
  `clean` holds the frames given and not yet transmitted lie in the slots from the card's
  turn on, in order and whole but for the one being filled (`InLine`). One frame more than
  there are slots may be on its way, as long as nothing of it has been copied.
- `FoundOptionsAreThere`: `OptionIsThere` always. `dhcp_find_option` is a recursion that
  jumps forward by lengths read from the message, so its value at a place is defined by that
  at any later one; `FindSearches` proves by induction from the end what it returns, and
  `OnwardHas` that the places it goes through are the `OptionStarts` of the property.

**`TerminalProofs`** - `ScreenAssumption` (a history longer than the screen, which has a
row and a column), `GlyphsAssumption`, `BoundsAssumption`.

- `TypeCorrect`, `RowsStayInUse`: `TypeOK` and `RowsInUse` always, for every size of screen
  and history. `RowsInUse` has what makes types hold: a full row is one that wraps, so the
  erasing that comes back to its end stays inside it. `Shape` is the two together without
  the screen.
- `ScreenStaysCurrent`: `ScreenIsCurrent` always, for any nesting of batches. It is not
  inductive, as it says nothing inside a batch; `Drawing` adds that there, too, a screen
  with no drawing pending shows the view.
- `WritingIsReadBack`: `ReadsBack` always: for every size, the rows the cursor has left and
  the part of its own row before it are the text written since the last clear, less what was
  erased and the rows the history lost. It needs that a row left by wrapping is full
  (`WrappedRowsFull`), or erasing back into it would take a character from the middle. The
  lemmas on `FlattenSeq` say what a row more at the end, a row less at the front and a
  character less at the end do to the text; each call then is one of those three.

**`EditorProofs`** - `SizesAssumption` of `Editor` (a buffer, a width, a history of at least
four rows).

- The lemmas about `Editor`'s operators on which the next module rests: `CString` of a
  buffer that ends where its text does; inserting and deleting keep it so; the row and
  column the editor computes by stepping over the text are those the terminal reaches
  drawing it (`CursorIsDrawnThere`); and searching the text for a row and column finds the last
  index that is not past them.

**`ConsoleProofs`** - also `KeysAssumption` (Esc is not an extended key, no key is named as
the prefix or the empty port), `ConsoleAssumption` (sizes), `TextsAssumption` (a file and a
line fit their buffers and are made of the characters keys make).

- `TypesAreKept`, `PressesAreActedOnOnce`, `PressesAreNotLost`: `TypeOK`, `ActedOnce` and
  `NoPressLost` always. The last two speak of histories only; what makes them true is how the bytes still queued,
  the keys still held and the driver's tables relate. `Presses` says: the bytes of a key are
  queued in the order of its presses, its release last (`Ordered`); a key acted on, whose
  repeats or release are still to come, is down in the tables or counted in `forgotten`
  (`KnownIsDown`); a key down in the tables is down for a press acted on whose release is
  still to come, or its release was swallowed (`DownIsKnown`); no press is acted on before
  an earlier one of its key (`InTurn`); a prefix stands before every byte of an extended key
  (`Prefixes`); and an interrupt with nothing queued finds in the port the last byte of a
  press that is already counted (`Stale`).
- `TextsEndAtNul`, `SavedTextIsShown`, `CursorStaysOnItsCharacter`, `UpAndDownGoOneRow`:
  `TextEndsAtNul`, `SavedIsShown`, `CursorOnItsCharacter` and `VerticalMoves` always, for a
  text, a screen and a history of any size. The first two are inductive with the types
  (`Editing`); the others hold of every editor of the right type, by the inductions of
  `EditorProofs`.

**`LelyaProofs`** - `BitsAssumption`, `TextSizesAssumption` and `SizesAssumption` (tables and
a stack with room for something), `InputsAssumption`, `ProgramsAssumption` (a text is a
sequence of items, and its numbers are integers the machine can hold; nothing is assumed of
its structure, so braces may match or not).

- `TypesAreKept`, `MachineStaysInCode`: `TypeOK` and `StaysInCode` always. Neither is
  inductive: while a block is open its jump has no target yet, and a `break` leads
  nowhere until the loop ends.
- `StackIsEmptyBetween`: `StackEmptyBetween` always, for a stack of any size, full or not; like
  the property, it is about texts whose calls have no arguments too many (`CallsFit`), and so
  is what the invariant says of depths.
- `InvariantHolds`: the invariant `Inv` from which they follow. Its part about the compiler,
  `CompilerInvariant`, says that every open `while` has its loop, in the same order
  (`Frames`), and that the code so far is `Sound`: the jumps without a target are those of
  the blocks and loops open, and no others; every other jump leads into the code or to its
  end; every argument is in its table; and there is a bound of the stack's depth at each
  instruction (`Levels`) which the instructions respect and which is 0 at the start of an
  item, of a loop, and wherever a jump leads. The part about the machine, `MachineInvariant`,
  says that a finished program ends with HALT, that nothing is open, and that the stack
  is below some such bound.

  The expressions come first. `ExpressionIs` says that the code of an expression, whatever
  its tokens, leaves one value (`Piece`); as `compile_expr` is a recursion over calls of
  three levels and two parts, it is by induction over a `Rank` of these calls, which also
  shows that the recursion has a value (`ParseExists`). Then each thing the compiler does
  to the code keeps it `Sound`: emitting a piece (`SoundJoins`), emitting a jump
  (`SoundAppended`), completing jumps (`SoundPatched`); and each thing it does to the blocks
  and loops changes the jumps they owe by just that one (`FrameOpens`, `FrameLoops`,
  `FrameLeaves`, `FrameEnds`, `FrameLoopEnds`). One lemma per action puts them together.

**Only model-checked**: liveness (`BootEnds`, `CallEnds`, `GetsConfigured`,
`OverflowAcknowledged`, `AllSent`, `CompileEnds`, `EveryPressAnswered`) and the fairness
part of `ImplementsQueue`, which TLAPS cannot do; and that a Lelya program does what its
text says (`ImplementsSource`). That needs two more facts about every text: that the values
the stack machine computes are those of `Value`, which splits an expression at its last
operator where the compiler goes from left to right, and that the place a completed jump
leads to is the item `StructureOf` finds by matching braces.

## 6. Not modelled, and why

- Floating-point arithmetic and its formatting (`lib/math.c`, `apps/calc`): out of TLC's
  reach; no concurrency and no persistent state but a ring of result buffers.
  `lib/mathtest.cpp` is a host program that calls it.
- The boot loader, interrupt tables, port and string helpers: straight-line set-up or
  stateless; helpers are modelled by what they do where they are called.
- The ATA port protocol: only its outcomes matter to NawFS.
- DHCP subnet and gateway: nothing uses their values. (`dhcp.c:204` keeps the gateway of an
  earlier lease when an answer has none.) `dhcp_find_option` itself is modelled.
- Parsing of the shell's command line, commands that only print, and printing formats.
  (`netmsg` prints "UDP broadcast sent" also when `net.c:59` sent nothing.)
- Addresses and checksums of frames; ARP is not in the code.
- The size of the receive buffer: `rx_buffer` has 16 + 1500 bytes past the ring, and a frame
  of 1518 bytes whose header is at the last offset, 8188, ends two bytes further.
- What the C standard leaves undefined after an array is left (`compiler.c:371`,
  `shell_commands.c:83`): the models stop there or do not go there.
- Torn copies inside the four-byte `memcpy` of an address: they need an interruption in
  the middle of the handler, for which `SourceIsLeasedUndisturbed` already claims nothing.

## 7. What could come next

1. `Console` composed with `Terminal`'s screen instead of the editor's picture of it, and
   with `NawFS` instead of a single file.
2. `ImplementsSource` for every text, from `LelyaProofs`' invariant and the two facts named
   at the end of section 5: the code of an expression against `Value`, and the targets of
   the jumps against `StructureOf`.
