# FBTLDR: a verification project

FBTLDR is a small 32-bit x86 system: a boot sector, a boot loader in real mode
(`src/bootloader-main`) and a kernel (`src/kernel`) with a physical memory manager, a timer,
PS/2 devices, PCI enumeration, an IDE driver, ACPI and a text terminal. This directory holds
TLA+ models of it, TLC configurations that check them on small instances, and proofs for
TLAPS.

The kernel has one processor and one flow of control, which interrupts preempt. All gates are
interrupt gates (`cpu-int-handlers.c:124`), so a handler runs with interrupts disabled and to
its end: a handler is one step of a model. The main flow disables interrupts nowhere after
`KernelMain` has enabled them; how finely its steps are cut depends on what it shares with a
handler. The build is `-O0` (`src/build/Makefile`), so every mention of a global variable is a
load or a store, and the models that need it cut the main flow there.

Paths below are relative to `src/kernel/source` unless they say otherwise.

## The system and what makes it correct

| component | state | operations | what is hard | what makes it correct |
|---|---|---|---|---|
| physical memory manager, `memory.c:145-306` | descriptors of frames, table of allocations that lives in frames of its own | `AllocatePhysicalMemory`, `ReallocatePhysicalMemory`, `ConcatMemory`, `FreePhysicalMemory` | the table moves while blocks are taken and released; failure in the middle | no frame in two blocks, no frame lost, table and blocks keep their bytes |
| memory map, `kernel.c:7-26`, `memory.c:10-143` | the array of regions, in place | `TransformBIOSMemoryMap`, `RemoveMemoryRegions`, `InstallPMM` | 32-bit ends, overlap cases, an array that grows while walked | only free memory is handed out, and all of it |
| timer, `pit.c` | a 64-bit tick counter | `PITHandler`, `Sleep`, the getters | a 64-bit variable on a 32-bit processor | a sleep is as long as asked and ends |
| PS/2 port buffers, `ps2-dev.c:123-161, 219-237` | two arrays with lengths | handlers push, the main flow pops | unprotected reads and writes against interrupts | bytes come out once, in order, and nothing else does |
| PS/2 devices, `ps2-dev.c`, `ps2-ctrl.c` | which device is on which port, handlers | `PS2DevSendByte`, `PS2DevReset`, `PS2DevGetType`, `PS2DevsInit` | answers by polling or by interrupt, retries, two ports, late bytes | an answer belongs to its command and port; the start ends |
| keyboard, `ps2-kbd.c` | shift, caps lock, scan code set | `PS2KbdReadKey`, `ReadChar`, `ReadString` | state kept from press and release | the case of a letter follows the keys held |
| mouse, `ps2-mouse.c` | a cycle of three bytes, position | `InstallPS2Mouse`, `PS2MouseHandler` | a cycle that is not the buffer's, and is never brought back in step | the pointer follows the mouse and stays on the screen |
| IDE, `ide.c` | controllers, channels, devices, interrupt flags | install, read, write, packets | flags raised by interrupts and cleared by waits; allocation failures | a wait ends and belongs to its command; nothing freed twice |
| PCI, `pci.c` | lists of devices in allocated blocks | recursive enumeration | recursion over buses, every step can fail | every function found once, nothing leaked |
| ACPI, `acpi.c` | fields and sleep type found in tables | `InstallACPI`, `ACPIPowerOff` | search and checksums, damaged and old tables, one time out for two registers | only the machine's own tables are used; enabled means switched on |
| PS/2 controller, `ps2-ctrl.c` | which ports there are, the configuration byte | `InstallPS2Ctrl`, the byte transfers | answers that are not the expected ones, one port or two | the ports are those that work; only a failed test makes it fail |
| interrupts, `pic.c`, `cpu-int-handlers.c`, `.asm` | masks, tables of handlers | mask, unmask, install, dispatch | two controllers, masks read and written apart, withdrawn requests | each interrupt finds its handler and is ended |
| terminal, `terminal.c` | cursor offset, screen | `PutChar`, `PrintFormatted`, input | handlers that print, scrolling | the cursor stays on the screen |
| conversions, `string-utils.c`, `int-utils.c` | a digit buffer | number to text and back | signs, radices, the smallest integer | the text denotes the number |
| boot loader, `src/bootloader-main` | segment and offset pairs, the list of memory entries | disk reads in parts, memory map, handover | parts and tracks, segments, the two ways a list ends | the kernel is read whole, the list is complete |

They interact by calls from one main flow. The PCI, IDE and kernel code call the memory
manager; the start of the PS/2 controller asks ACPI whether there is one; the PS/2 code, ACPI and
IDE call `Sleep`; interrupts reach `PITHandler`, the PS/2 and the IDE handlers through `HardwareInterruptHandler`, and these share plain global variables with the
main flow. PROJECT.json lists each component with the state of its model, and the hazards of
the code with the properties that watch them.

## Modules

| module | models | form |
|---|---|---|
| `FrameHeap` | what the memory manager promises | abstract specification: blocks of bytes only their owner changes |
| `PhysicalMemory` | `memory.c:145-317` after installation | one step per call |
| `PhysicalMemoryProofs` | | proofs about the descriptors, blocks and bytes of `PhysicalMemory`, and that it implements `FrameHeap` |
| `MemoryMap` | `kernel.c:7-26`, `memory.c:10-143` | one step per iteration of a loop |
| `Boot` | `src/bootloader-main` up to the kernel, over `MemoryMap`, which it extends | one step per call of the BIOS |
| `MemoryMapProofs` | | proofs about `MemoryMap`, and from them about `Boot` |
| `PITClock` | `pit.c` | one step per load of half the counter |
| `Interrupts` | `pic.c`, the start of drivers with handlers, dispatch, over `PITClock`, which it extends | one step per port access of the mask, part of an interrupt, or step of the clock |
| `InterruptsProofs` | | proofs about `PITClock`, and from them about `Interrupts` |
| `PS2DevBuffer` | `ps2-dev.c:123-161, 219-237` | one step per load and store |
| `PS2Mouse` | `ps2-mouse.c` over `PS2DevBuffer`, which it extends | one step per interrupt |
| `PS2MouseProofs` | | proofs about `PS2DevBuffer` and `PS2Mouse` |
| `ACPI` | `acpi.c` | one step per entry of the root table, or poll |
| `PS2Ctrl` | `ps2-ctrl.c:6-51`, after `ACPI`, which it extends | one step per write or read of a port |
| `PS2CtrlProofs` | | proofs about `ACPI` and `PS2Ctrl` |
| `PS2Devices` | `ps2-dev.c:18-120, 163-201`, the byte transfers of `ps2-ctrl.c`, the command of `InstallPS2Kbd` | one step per port access or pop |
| `PS2DevicesProofs` | | proofs about `PS2Devices` |
| `PCI` | `pci.c:20-138` over `PhysicalMemory`, which it extends | one step between two calls or returns of its procedures |
| `Drivers` | `ide.c:12-70, 435-487`, `kernel.c:58-99`, over `PCI`, which it extends | one step per controller |
| `IDE` | `ide.c:100-121, 136-419, 505-569, 610-629`, one channel | one step per word moved, wait or command |
| `IDEProofs` | | proofs about `IDE` |
| `Terminal` | `terminal.c:20-132`, the printing branch of `HardwareInterruptHandler` | one step per load and store of `CursorOffset` |
| `Conversions` | `int-utils.c`, `string-utils.c`, the alignment of `math-utils.c` | operators and their definitions |
| `Console` | `ps2-kbd.c:198-286`, `terminal.c:142-188`, over `Terminal`, which it extends | one step per byte of the keyboard |
| `ConsoleProofs` | | proofs about `Terminal` and `Console` |

The modules whose names begin with `MC` hold the instances that are checked: regions, BIOS lists, lines, firmware,
computers, keyboards and mice, machines, drives and users.

Names are those of the source. An operator whose name is that of another with a suffix after `_`
(`Lowered_Not` for `Lowered`) is a plausible fault of the other; no specification uses
it. PROJECT.json pairs each property with the fault that must violate it, which shows that the
property can be broken by a fault of the code.

### Physical memory

The manager is called from the main flow only: no handler allocates. A call is therefore one
step, and the operators `AllocatePhysicalMemory(s, count)` and so on are functions from a record
of the four variables to another, so that `ReallocatePhysicalMemory` and `ConcatMemory` compose
them as the C functions do. `descriptors` is the flags and counts of all frames, `Allocations`
the first `NumberOfAllocations` entries of the table, `AllocData` the table's own block. The
table is kept twice: as the sequence `Allocations`, which the control reads, and as bytes
`EntryByte` in `memory`, which tell whether a copy or a driver's write has fallen on it.
Reads outside the model's memory give `Garbage`; a free of an address that is not in the table is a legal call and leaves
everything as it is.

`AllocData = NoBlock` is the start; a move of the table copies as many bytes as the *old* block
has. `FreePhysicalMemory` has a branch that would shrink the table but compares the wrong way
round (`memory.c:217`) and is never taken: the table keeps its block until it grows beyond a
multiple of a frame again, and may then move to a smaller block than it has. The copy then runs past the new block;
`OnlyAShrinkingTableOverruns` says that this is the only case in which a driver's bytes change
behind its back. With entries of 16 bytes and frames of 4096 this needs 257 live blocks, which
the drivers do not reach today; `ImplementsFrameHeap` is checked below that limit.

Assumptions: no request is for zero bytes, and sizes are not within a frame of 2^32
(`RequestAssumption`). The code has no check for either. A request of zero bytes does happen, for a bus
without functions behind a bridge (`pci.c:53`) and for a controller without drives (`ide.c:453`). It finds room
for nothing at the first frame, busy or not, and when it is released the frame's owner loses it. The machines of
`pci` have neither: the properties fail for those that do.

### Memory map

The loops of `TransformBIOSMemoryMap` (with its bubble sort) and `RemoveMemoryRegions` work in
place; each iteration is a step. `RemoveMemoryRegions` is called twice: by `KernelMain` with the
reserved ranges (`remove`), then by `InstallPMM` with the table of regions (`removeMap`). `Length` of a region is the
operator `FramesCount`, since it is read only after the last loop has set it from `Size`.

Assumptions, which the code relies on and does not check: entries are
disjoint, allocatable entries begin on a frame and do not end at 2^32 (`BiosAssumption`); the reserved ranges begin on a
frame and end below 2^32, as those of `kernel.c` do (`ReservedAssumption`); the array of regions, while it grows, does not
reach the top of the address space (`RoomAssumption`). The first is what a BIOS is required to report; the
hazards list what happens otherwise (`memory.c:51`).

`Boot` comes before: `at` is where the loader reads to and later writes entries, `placed` the history of the
sectors read, `report` what the BIOS has in store. A BIOS ends its list with a zero in the last entry or with
an error in the call after it, which the loader counts as an entry although nothing is written: the kernel then reads
`Unwritten`, what was in memory before. Memory that nobody has written is taken to be zero (`entriesCount` relies
on it as well), which makes that entry reserved and empty. `KernelAssumption` keeps the kernel and its list within one
segment, since `AddValueToSegOff` advances the segment by a paragraph when the offset wraps
(`segoff.c:4`). An entry of the BIOS has 24 bytes and a region of the kernel 16, and the kernel writes the regions over
the entries: `LoaderAssumption` states the order of the two sizes, by which no entry is overwritten before it is read. A list of a single entry that is marked as the last one stops the loader.

### Timer

The main flow loads `low` and then `high`; `PITHandler` changes both in one step. `loadedAt`,
`called` and `duration` are history: the tick of the load, the tick of the call and its argument.

### Port buffers

One port is modelled; the two ports have separate variables and identical code. A byte is the number of
its arrival, so that order and duplicates are visible. `seen`, `quiet`, `received` and `taken` are
history. The device's own handler, called at the end of `PS2FirstHandler`, does not touch the
buffer and is left out.

### PS/2 devices

The main flow runs `PS2DevsInit` and, when it succeeds, the scan code command of `InstallPS2Kbd`. `pc` is
the call of `PS2DevSendByte` it is in, or the statement after it; `at` is the place in
`PS2DevSendByte`. `Return` is where an answer goes back to the caller, whose next statements up to the next
port access belong to that step. The controller is one output buffer for both
ports and an interrupt line for each; a read of the data port returns the last byte again when
there is no new one, which is what a handler gets that comes after a poll. A byte carries its
value, its sender and the number of the write it answers; the last two are what the properties speak of, and no guard
of the code's reads them.

The devices are external: an `ACK` for each byte, what follows it, or `RESEND`. A keyboard
reports keys from the start, a mouse when it is told to. A `circumstance` says how they behave: when it is
`quick`, whatever is due has arrived before the main flow goes on, which is what the 10 ms of `Sleep` after every
byte are for, and `ps2_late_id` shows what they do not cover. The properties about the outcome of the start
are stated for quick devices without keys, of which at most the first refuses bytes (`Calm`), `NoByteIsStuck` for all. The buffers of the ports are queues here, since
`PS2DevBuffer` looks at them closely and the start leaves them short; the modules share the order in
which bytes come out (`QuietPopsAreFifo`). `InstallPS2Ctrl` and the reading of the configuration come before.

A refused identification makes the type `0xEEEE`, and the device a mouse; the properties about the outcome
are stated for fewer refusals than attempts.

### PCI

`PCI` composes the enumeration with the memory manager: it extends `PhysicalMemory` and uses the manager's
operators and variables in a next-state relation of its own. The four procedures of `pci.c` recurse through bridges; `stack` holds
their activations and `lists` the local variable `tmp` of each, so that a list survives its
caller's other calls or not exactly as a block of the manager does. A device's nine bytes are one
byte, its name, written where the code writes it. The code that joins two lists stands in
`pci.c` four times and is one action, `Join`.

`MachinesAssumption`: bridges lead to buses above their own, each to another, as firmware configures them. An unconfigured
bridge makes the code recurse for ever. The manager is
used with requests of at least one byte, as in its theorems: no bus behind a bridge is empty.

`Drivers` goes on where `PCI` ends: each controller in the list gets channels and devices in blocks of their own, the table
of controllers is reallocated for each, and `KernelMain` takes copies of one after the other and releases them. A
failure releases what was taken, in one case twice (`ide.c:456, 28`), and the next controller is tried. Channels, devices and table
entries are written into the manager's memory, where a block handed out twice would show. The registers of the channels
are left out; a nonzero control base makes the code take them from the other base (`ide.c:483`).

### IDE

One channel with its two drives; the other channel has a flag and registers of its own. The main flow finds
the drives as `IDEInitDevs` does, and clients then call `IDEReadSectors` and `IDEWriteSectors` with any of
them. Registers are written and a command given in one step, since nothing a drive shows changes between two
waits for it except by a step of the drive; reading or writing a word, testing the interrupt flag and clearing it are steps
of their own. A word carries the drive, the sector and its place in both the sector and the buffer, so that a transfer is
right exactly when the sequence of its words is.

The drives are external: busy as long as they like, then with a block of data, finished or failed, raising the line
of the interrupt controller, which remembers its rise until the handler runs. A drive that takes linear addresses
takes 48-bit ones. What the code gets wrong is kept:

* a drive is selected by `Type`, not `Index`, so that only a disk as master and a packet drive as slave are
  reached (`InPlace`, and the finding);
* the control register that should switch interrupts off is computed as 0x3F8, where nothing is, so they stay on
  (`ide.c:484, 586`);
* the numbers in a packet are in the processor's order: a drive takes address `n` for `n * 2^24` and a length of one for 2^24
  (`Swapped`). A packet read therefore fails, or ends with the drive still offering data, for which `EndSector`
  waits, and which ends only when the drive fails; it then reports success. No property claims that packet reads
  are right, only that they lose no interrupt;
* before its first command a packet read waits for an interrupt that need not come (`ide.c:370`).

### Keyboard and terminal

`Terminal` cuts the printing of a character into loads and stores, since `HardwareInterruptHandler` prints when an
interrupt comes that nobody handles, between any two of them. What a flow has still to do is a sequence of
instructions (`Put`, `Text`, `Erase`) with the register they use; `flow` holds the main flow's and, while it runs,
the handler's. The bytes of `TerminalBuffer` are characters, `Color` and NUL. Formatting is left out: the
handler prints `Message`.

`Console` reads bytes of the keyboard, decodes them and echoes what `InputChar` and `InputString` echo. Keys stand for
classes of keys that the code treats alike; `Bit4` lists those whose scan codes have bit 4, which the code takes for a
release after the prefix `0xE0`. The user, who is external, presses, holds and releases keys at any time; `held` and
`capsMeant` are the keyboard as the user sees it, and each byte carries the character that was meant, which no
guard of the code's reads. What the code does that a user may not expect is kept:

* every byte of a shift key toggles `ShiftPressed`: a shift key that repeats while it is held, both held together, or a
  byte lost in a full buffer leave it inverted, for this line and the next (`confused` excepts these from `LineAsMeant`);
* a key without a character, such as a function key, puts NUL into the line, which ends the string there;
* the keypad's enter and the delete key are dropped as releases, arrows give digits;
* `InputChar` takes a backspace that comes first for a character; a tab echoes four places, of which erasing takes
  back one (`uneven` excepts both from `EchoMatches`);
* when the echo has filled the last place of the screen, the `\r` of the line's end is refused
  (`terminal.c:21`), and the new line begins past the end;
* a handler that prints inside a character can leave the cursor at an odd place; erasing from place 1 then takes it to
  2^32 - 1. `raced` excepts this from `WritesStayOnScreen`, which holds when the handler prints between
  two characters.

### Interrupts

`Interrupts` extends the clock with the way by which its ticks come. A line's request is latched until it is
acknowledged; the timer's is the tick of `PITClock`, which now waits for the start, for the handler of another line and for
the end of interrupt. `step` numbers the main flow's start: remap and mask, `sti`, then for each driver in `Order`
the installation of its handler, the read of the mask, and the write of the mask with its line open, three steps that
an interrupt may come between. From the acknowledgement to `iret` the processor takes nothing else (`cpu`). A device may withdraw
a request, as one does whose byte is read by polling; the controller then answers with its line 7, and
a spurious request of the slave leaves the cascade in service, which the end of interrupt must end. The
handlers of other lines than the timer's do nothing here; they are in the modules of their drivers. An edge on a
line whose request is still latched is lost, as in the hardware.

### Mouse

The buffer of `PS2DevBuffer` and the cycle of `ps2-mouse.c` count the same bytes independently: `received` gives the mouse's
place in its packet, `MouseCycle` the driver's, and the buffer may overflow or be emptied meanwhile. `shouldX` is where the
packets have moved the pointer, a movement past the edge being dropped whole as the code does. The driver may be
installed at any byte, and never gets back in step when that was inside a packet (`inStep`). `MouseY` is tested for an
addition and then lowered (`ps2-mouse.c:82`), so that it wraps below zero: no property speaks of it. A packet holds
movements of nine bits (`DeltasAssumption`), which `(INT8)` cuts to eight: one of -200 moves the pointer by 56 the other way. Where
such a movement should lead nothing says, so `Due` takes what the code makes of it, and what is claimed is that the pointer
stays on the screen and that the movements after it are followed from there. The overflow bits of a packet are not looked at.

### ACPI and the PS/2 controller

A firmware is what lies in the areas searched: pointers good and damaged, tables, an outdated chain that is whole in itself,
addresses below and above 4 GB. What the code gets wrong is kept:

* `sdtCount` is the length of the entries in bytes, and is not set at all for a pointer of a later revision: any number
  up to `MaxEntries`. What is read behind the table designates no table here;
* a signature `_S5_` that is nowhere leaves the length at the greatest number, so that bytes behind the table are looked at
  and may pass (`ProperS5`);
* `SCIEnabled` is set before the machine is asked to switch and stays set when it does not; the installation fails then;
* installation succeeds with `SCIEnabled` clear when no entry is used; `SleepTypeB` is never set;
* `STOP()` jumps to itself, so that `KernelMain` never reaches `ShutdownKernel`; `ACPIPowerOff` is modelled as a call that may
  come at any time after the installation.

`InstallPS2Ctrl` is straight-line code with two branches, so `Steps` lists its port accesses and `at` is the place in it. The
controller is external: an input buffer that a byte written too early overwrites, an output buffer that
answers and keys share, a configuration. A command does not wait for the input buffer, data does; an answer is whatever byte comes
next. The configuration written back enables the clocks that were just disabled, so that keys come through, and after a failed
test the ports stay as they are (`ps2-ctrl.c:34`). `StartedAsItIs` and the end of this start are stated for quick
controllers without keys, `Calm`.

### Conversions

Strings are sequences of digit values. The three statements at the end of `Conversions` are assumptions of `MCConsole`, so that
the run `console` evaluates them for all values of a word of nine bits. `StringToInt` and `StringToUint` ignore their radix and multiply
once too often, which wraps when ten times the value does not fit; `IntToString` of the least value indexes `Digits`
with negative numbers. `DigitBuffer` is shared with handlers that print numbers (`terminal.c:109`), which `Terminal` does not show,
since its handler prints a message.

## Runs

| run | shows | bounds, and why they are enough |
|---|---|---|
| `frames` | no frame shared or lost, the table intact, the abstract heap implemented | two allocatable regions and a reserved one; two live blocks plus the one a reallocation holds fill them, so allocations and reallocations fail for want of frames; the table grows only when it is empty, so that the failure to grow it (`memory.c:162`) is left to the theorems; frames of two bytes separate bytes from frames |
| `table_growth` | the table through its moves; what a shrinking table overwrites; joined blocks hold both contents | one entry per frame: the table moves at every allocation, after releases to a smaller block; three blocks, so that two different ones are joined |
| `memory_map` | the kernel and the BIOS list reach their places; only free memory is handed out, and all of it | sixteen frames of four bytes, lists of up to three entries at every offset, each way of ending, four reserved ranges: each overlap case occurs; a kernel of three sectors in two parts, which crosses tracks |
| `clock` | every interrupt finds its handler and is ended; torn loads, early and late ends, termination | a driver on each controller and a line without one, masks all open and all closed; a half of four values wraps within seven ticks |
| `ps2_buffer` | what races between pops and interrupts may cost, and that the pointer follows the mouse | a buffer of three that six bytes, two packets, overflow; movements inside the screen, past either edge, and one of nine bits that is cut |
| `start` | the sleep type is the machine's own; enabled means switched on; the ports are those that are there; both starts end | firmware with each table damaged, outdated or out of reach, with each field of the FADT; controllers with every outcome of the tests, one port or two, a pending byte, slow, and with two keys; three polls shared by two registers |
| `ps2_start` | the start with devices that answer in time, and no byte stuck with devices that do not | five layouts: each keyboard's type, each port, one and two devices; five refusals exhaust three retries; with slow devices two keys or movements and a refusal at any time |
| `ps2_late_id` | a start that fails without a refusal (finding) | a keyboard and a mouse |
| `pci` | the list is complete and held; what leaks; the depth of the recursion; the table of controllers and its copies; what remains true when memory runs out | three buses of three slots of three functions: every place of a bridge, two in a row and side by side, multifunction devices, and no PCI at all; up to three controllers with one to three drives; fourteen frames, which some machines exhaust in the enumeration and others in the drivers |
| `ide` | successful transfers are right, disk transfers return, no interrupt of a packet is lost | seven layouts; three calls; parts of two sectors and counts of one and three, so that calls take two parts; addresses on both sides of the 2^24 boundary, which is 8 here, and calls that cross it; disks with and without linear addresses; one failure anywhere |
| `console` | lines are what was meant and the screen shows them, nothing is written past it, lines end; numbers are converted right | a screen of two lines of two places that every line scrolls; the cursor begins at the first place, the last and past it; lines of two characters; five events of a user with shift keys, four with all the other kinds of keys, five with letters over two lines, three with an interrupt at any point; a buffer of four bytes, which these overflow |
| `ide_wrong_drive` | the slave disk is never reached (finding) | two disks, one call |

Fairness. `Interrupts`: the timer requests (it runs without help), and an interrupt that has been taken goes on to its end, so
both are weakly fair. The main flow is strongly fair: interrupts preempt it again and again, but each handler is short
and the flow executes between two of them. `PS2Mouse`: the pops of the main flow are
weakly fair; the device owes nothing, and sends at most `MaxBytes` bytes. No liveness is claimed
for a pop from an empty buffer, which waits without a timeout. `PS2Devices`: the main flow and the handlers are weakly
fair as above. A device that has a byte to send sends it: delivery is strongly fair, since the two
devices share one output buffer and none of them is shut out by the other for ever. `IDE`: the main flow and the
handler are weakly fair, and a busy drive gets ready in the end, which is what the loops without a timeout
rely on. `PS2Ctrl`: the main flow is weakly fair, and a controller does its commands; the machine need not
follow the command to switch to ACPI mode, which is what the time out is for. `Console`: the main flow with the handler is weakly fair, and users owe nothing.

Deadlock is checked where the modelled code runs for ever. `Boot`, `PS2Ctrl`, `PS2Devices` and `Drivers` end, clients of `IDE`
stop after `MaxCalls`, users of `Console` stop, and a pop or a packet may wait for a silent device, so their runs switch it off.

## Findings

* `ps2_late_id`: `PS2DevReset` empties the buffer right after `RESET_DONE`, because a mouse may send
  its identification byte then. A byte that takes longer is popped as the answer to the next
  command, and the start of all devices fails.
* `ide_wrong_drive`: drives are selected by what they are instead of where they are. A slave disk is never reached, and
  what is written to it overwrites the master.

More limits of the code are not runs of their own; the properties of the passing runs are stated
around them, or their inputs leave them out:

* a request of zero bytes yields the address of a frame that may be taken, and its release sets that frame free. An empty
  bus behind a bridge in slot 1, such as an AGP bridge without a card, makes a wrong list of it: a list placed there is
  released and overwritten, and the host bridge is replaced by a copy of another device. A controller without drives
  costs an owner its frame in the same way;
* a kernel that passes the end of its 64 KB segment is loaded over itself (`segoff.c:4`);
* a mouse driver that is installed inside a packet never gets back in step, `MouseY` wraps below zero, and a movement
  of more than 127 or less than -128 is cut and may be made the other way (`ps2-mouse.c:76`);
* an ACPI pointer of a later revision leaves the number of entries unset: `PowerOffIsRight` claims that the tables are
  found for revision 0 only;
* when the low half of the counter wraps between the two loads of the loop in `Sleep`, the value read is
  2^32 ticks ahead and the sleep ends at once. It takes 49 days to happen, and `EarlyOnlyAcrossAWrap` says that
  nothing else ends a sleep early;
* `PS2DevBufferPopFirstByte` lowers the length and loads it again for the index (`ps2-dev.c:149`). An interrupt between
  the two makes it read above the bytes that count and return a stale one: `QuietPopsAreFifo` speaks of pops
  without an arrival, `NoPhantomBytes` and `ArrivalOrder` of what remains true of all;
* `PS2DevSendByte` selects the second port once, before the loop that repeats a refused byte, and the selection
  lasts for one byte (`ps2-dev.c:109`): the repeated byte goes to the first device, which answers it, while the second waits.
  `Calm` is about devices of which at most the first refuses;
* a multifunction host bridge ends the loop over host controllers before the first bus (`pci.c:28`), and no
  bus is scanned: the machines of the runs have a host bridge of one function;
* a packet command does not wait for the other drive: after one that was given while a disk still wrote, the next write
  waits for the packet drive, which is selected, is ignored by the disk and succeeds (`ide.c:324`).
  `TransfersRight` speaks of writes on channels without packet drives;
* the poll between the words of a write does not look at errors (`ide.c:349`): a write of which a sector failed may succeed;
* a refused allocation in the PCI enumeration releases a list that the caller releases again (`pci.c:54-58`), when
  its address may be that of another list: `ListsAreHeld` and `ListIsRight` speak of enumerations in which memory
  did not run out, `ControllersKept` and `OnlyReplacedListsLeak` of all.

## Proofs

`PhysicalMemoryProofs` proves for every set of regions, every request and any number of live
blocks that `PhysicalMemory` keeps its types, that no frame is in two blocks, and that the
descriptors account for exactly the blocks. The inductive invariant `IInv` is one predicate
`Good` on the record of the four variables: types, each block a run in one region, blocks pairwise
disjoint, descriptors in accord. It is stated on records and not on variables because a call
passes through several intermediate states (blocks taken, table moved, old table released), each of which has
to be good for the set of blocks that exist at that moment; lemmas for `AllocatePhysicalFrames`,
`FreePhysicalFrames` and `ReallocatePhysicalFrames` are stated for any such record and composed
by the lemmas for the calls. `FramesAccounted` alone is not inductive: releasing a run needs
to know that no other block reaches into it. The proofs rest on `SizesAssumption`, `RequestAssumption` and
`RegionsAssumption`.

The module then adds the bytes. The invariant `Sound` is `Good` and `TableHolds`: the table's block has room for the
entries, and the bytes there are theirs. That `Good` keeps blocks apart is what makes it inductive, since
a driver's write and the copies of the manager then fall on one block only. Each operator of the manager gets a lemma that says
which blocks keep their bytes (`SameBytes`), also when the table moves in the middle of the call. Three theorems follow:
`TableIntact`; that only a move of the table to a smaller block changes a block behind its owner's back; and that
`ConcatMemory` joins. They rest on the assumptions above.

It also proves that the manager implements `FrameHeap`: each call maps to a step of the heap or leaves it alone.
This is false of a table that shrinks, as the run `table_growth` shows. It is proved twice: for every behaviour in which the table never
moves to a smaller block, and, without a condition on behaviours, for `EntrySize * MaxLive <= FrameSize`, when the table
never needs more than one frame. In the kernel that is 256 live blocks. Nothing is claimed beyond that.

`InterruptsProofs` begins with the clock: it proves the types (`TypeOK`, which no run repeats), `LoadsNeverLag` and `EarlyOnlyAcrossAWrap` for halves of any width
and any number of ticks that fits in 64 bits. The invariant adds that the half in the register is the
low half of the tick at which it was loaded, that this tick is not before the call, and that
unless the high half has changed since the call, the tick waited for lies the argument after the call. It rests on
`ClockAssumption`: the counter does not wrap as a whole.

It then carries the last two over to the kernel with its interrupts. Each step of `Interrupts` is a step of the
clock or leaves it alone (`ClockSteps`), so the clock's invariant and its action properties hold however the ticks are held up. It
also proves `InterruptsAreServed` for any lines, any order of drivers and any masks the BIOS leaves. Its invariant
`ServedInv` has three parts: outside a handler nothing is in service, and inside one exactly what the end of interrupt will end;
interrupts are off until the controllers are programmed; and from then on only lines with a handler are open.
The last needs that the mask that was read is still the controller's when it is written, though interrupts come
between, and that the line about to be opened has its handler already. It rests on `LinesAssumption`.

`MemoryMapProofs` proves `OnlyFreeMemory` and `NoFrameIsLost` for every map, list of ranges and all sizes. `MapInv` says
for each loop what it has done so far:

* while the map is transformed, the allocatable regions are whole frames in the entries read, apart from each other, and no frame is missing
  (`Collected`);
* the sort keeps this, and `SortedSoFar` states which regions are in their places;
* while ranges are removed (`Cutting`), the regions up to the index are clear of the ranges already removed and all are in order. A region
  that a range has made reserved is still compared with the ranges after it, and counts until then (`Active`). Two parts
  are less obvious. `Even`: `RemoveMemoryRegions` rounds the address and the size of a region each on its own, which may put
  the end past the old one by up to a frame unless one of the two ends is on a boundary already. `Fits`: the array
  grows when a range lies inside a region, which happens at most once for each range since the regions are apart, so that the array
  that `InstallPMM` reserves before its own call of `RemoveMemoryRegions` is large enough for the region that this call may add;
* at the end (`Finished`) the regions are in order, clear of all ranges and of the array itself.

For `Boot` it proves `KernelFindsWhatItNeeds` and carries the two results over to a start from the first sector. `BootInv` adds to `MapInv`
that the sectors read are the first of the kernel, each at its address, with `at` where the next one goes
(`KernelLoaded`), and that the list is not begun, the first entries of the report, or complete (`NothingYet`, `Between`,
`Complete`). That sectors are where they should be needs that turning a sector number into cylinder, head and sector and back
is the identity, and that no offset wraps; the latter is `KernelAssumption`.

`PS2MouseProofs` proves the three properties of the port buffers for buffers of any length and any number of bytes.
`BufferInv` follows a pop through its loads and stores: a length that is going to be lowered is
positive, and the length that was loaded is at most the one in memory, since interrupts only make it grow (`Lengths`); the
bytes that count are in order (`InOrder`); and a pop without an interrupt reads the byte just above
those that remain (`QuietPop`). `MouseInv` proves `MouseFollows` for every movement
that a packet can hold and screens of any size that fits in a word and is not below 127 (`ScreenAssumption`): for a driver in step, `MouseCycle` is the place in the packet, and the sign that the
first byte brought is still that of the movement when the second comes. From eight bits and their sign `Rel` gives back a movement that fits in
eight (`MovementKept`), and of any other a movement of eight bits (`RelIsShort`), which `MoveIsMoved` keeps on the screen.

`PS2CtrlProofs` proves `PowerOffIsRight`, `EnabledMeansOn` and `StartedAsItIs` for any number of pointers, tables and polls. For
the search for the tables, `ACPIInv` says that the loop reads the entries of a root table that a whole pointer gives
(`Rooted`), that the one FADT among them has been read when `SCIEnabled` is set (`ReadOnce`), and what each place between the polls knows of
the registers (`Switched`): that the shared counter has not run out where `EnabledMeansOn` is claimed implies that the *first* register
was seen too. `ReadOnce` is needed because the loop goes on after the machine has been switched, and a second FADT would replace the fields that the first was
enabled with. `CtrlInv` follows the controller through the list of steps: `Told` is the configuration it will have when it has done what waits
in its input buffer, and `ConfigAt` and `OutAt` what that and the answer are at each step. They rest on `ComputersAssumption`, in which
`IsFirmware` says what the fields of a firmware mean: at most one FADT in a root table, since `InstallACPI` reads each that it finds; the `\_S5_` behind every chain of
whole tables is the machine's, for machines whose sleep type is claimed; and what a description that is complete has.

`PS2DevicesProofs` proves `FailsOnlyWhenRefused`, `StartedRight` and `AnswersMatch` for any devices, any number of attempts and any number of
refusals. The bytes on their way from a device are in its own queue, in the controller and in the buffer of the port, and a handler that comes late reads
one twice; `Stream` is their concatenation. `CalmInv` says that the stream of the port that is being started is what its device has still to say at this statement
(`Remaining`), or one refusal, and that the other port's is empty (`InStep`). Everything
else follows from that: refusals are counted as attempts (`Counted`), and what was taken for a type was the type (`KnownSoFar`). `InStep` is false for slow devices,
as the finding shows, and for a second device that refuses. The assumption is `DevicesAssumption`: identifications are those of a keyboard or a mouse, of two bytes or one.

`IDEProofs` proves `TypeOK` and `TransfersRight` for drives of any layout and pace, sectors and parts of any size and any number of failures. `DrivesInv` adds
that the drive list is what is attached and has been looked for (`Listed`); that a disk either rests or is exactly at the word
where the loop is (`DiskInStep`); that the words moved are the first of those wanted (`MovedSoFar`), each of its sector and place, across the parts into which the
call is cut; and that a disk that still writes is the selected one (`WaitedFor`), which is why the next command waits for it, and which a packet drive beside it would make false.

`ConsoleProofs` proves `WritesStayOnScreen` and `EchoMatches` for a screen of any size, lines of any length, any message, and any number of keys, calls and interrupts.
The second speaks only of states in which nothing is being printed, so the invariant has to say, of every load and store between two such states, what the
register holds and which text stands before which place of the screen. `ConsoleInv` says where the main flow is: between two instructions that each print a character (`Between`), at one of the nine
instructions that printing is (`Putting`, with a clause of `Stage` for each, of which the first three scroll), going back one place (`GoingBack`), at the beginning of a line or on the way to the next (`Moving`),
or before one of the tests of the cursor (`Testing`). In each it names the text before the cursor, and says that the instructions that remain lead from that text to what is to be shown
(`Leads`). The cursor is odd only inside a character, which is why a handler that comes between two characters does no harm to the cursor and one that comes inside (`raced`) may. Where a handler has printed, nothing
is claimed of the text, but the places and the parity are followed through it. The proofs rest on `TerminalAssumption` (a screen of at least two lines whose size fits in a word) and on `ConsoleAssumption`, by which the cursor
starts at a character of the screen or at its end.

The module then proves `LineAsMeant` for buffers and lines of any length and users who press, repeat and release any keys at any time. `UserInv` relates the keyboard as the user sees it with what the code has made of
the bytes that it has read: unless something was lost or a toggle could not follow (`confused`), the bytes in the buffer lead from the code's `ShiftPressed` and `CapsLockActivated` to the user's shift and caps lock
(`Follows`), with the two states before each byte under which its character is the one that was meant. The states are given as two functions on the places of the buffer, so that no induction over the buffer is needed: a byte that
arrives extends them and one that is read shortens them. The invariant also needs that a prefix and the byte of its key arrive together (`Whole`), since the byte after a prefix is not looked at for a shift key, and that no two shift keys are held.

Only model-checked:

* liveness, which is out of the prover's reach together with fairness: `SleepReturns`, `EmptyBufferReturns`, both `StartEnds`, `NoByteIsStuck`, `WaitsEnd`, `LinesEnd` and the
  others of the runs;
* `ListIsRight`, which compares the list with what a recursive definition finds, and the conversions, which need induction over digits; no
  prover here does induction over data;
* the PCI lists and the table of controllers (`EnumerationTypeOK`, `ListsAreHeld`, `ControllersKept`, `OnlyReplacedListsLeak`). `Good` and the lemmas about the
  manager would carry them, but `RequestAssumption` would have to hold of every request of the enumeration, and so the machine would have to be assumed free of the empty buses above and small enough for its memory.

Possible extensions: both channels of an IDE controller at once; a mouse that sends while the devices are started; the PCI lists from the theorems about the manager.

## Not modelled

* Descriptor tables, port instructions and other single instructions, and the boot sector's straight-line code: nothing in
  them interleaves or branches in a way that a state would tell apart. Exceptions print and stop.
* Functions that nothing calls: the transfers with a timeout and `PS2CtrlReboot`, `PS2MouseSetSampleRate` (which sends
  its second byte to the port that is its value) and the mouse's getters, `IDEGetChnl` and `IDEGetChnlDev`, `MaskPICIRQ`, `UnmaskPIC`
  and the functions that uninstall. An action for one would be a step that the kernel never takes.
* VESA mode setting, the divisor of the timer, the formatting of `PrintFormatted`, the scan code tables and message texts: data
  that no property depends on.
