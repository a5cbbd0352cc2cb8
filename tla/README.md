# LittleKernelPkg: a TLA+ verification development

LittleKernelPkg is an EDK2 platform package that runs UEFI on top of the LittleKernel
bootloader (EFI Droid). PrePi is entered from LittleKernel with a table of callbacks (`lkapi_t`),
builds the memory map and the HOBs, and hands over to DXE; the drivers then wrap LittleKernel's
eMMC, display, timer, interrupt and RTC services as UEFI protocols, and BDS restores the
non-volatile variables from a block device. This directory holds TLA+ modules of that
code, the TLC configurations that check them and the TLAPS proofs about them. File references
are relative to `src/`.

    tlc -workers 2 -config MCNvVars.cfg MCNvVars      # a run: see section 4
    tlapm NvVarsProofs.tla                            # a module of proofs: see section 5

`PROJECT.json` lists components, runs, the mutants that show what each property can see,
the source lines behind every definition (`map`), findings, hazards and theorems.

## 1. The system

One CPU (ARM, 32 bits), no preemptive threads: what runs concurrently are TPLs
(`TPL_APPLICATION` < `TPL_CALLBACK` < `TPL_NOTIFY` < `TPL_HIGH_LEVEL`) and interrupts. A
handler at a higher TPL runs to its end on top of what it interrupts. Power may be lost or the
machine reset at any instruction.

| Part | Code | State it keeps | Operations | Calls / is called by |
|---|---|---|---|---|
| NV variable persistence | `Library/NvVarsBlockIoLib`, `Library/EmuVariableFvbLib`, part of `PlatformBm.c` | variables in RAM, image on the device, update event, `NvVars` flag | connect, load, save, event handler | serialisation, block device, variable driver / BDS, FVB writes |
| Variable serialisation | `Library/SerializeVariablesLib` | growing buffer of records | add, iterate, to and from buffer | variable services / persistence |
| EMU variable FVB | `Drivers/EmuVariableFvbRuntimeDxe` | emulated flash of two blocks, volume and store headers | init, read, write, erase, attributes | `PlatformFvbDataWritten` (signals the save) / variable and FTW drivers |
| Memory map | `Library/LittleKernelLib/LittleKernelMem.c` | list of ranges | insert, MMU table, HOBs | LittleKernel's `mmap_get_all` / PrePi |
| Interrupts | `Drivers/ArmGic` | handler tables, GIC enables | register, enable, disable, EOI, IRQ entry, exit | GIC, handlers / DXE core, LittleKernel |
| Timer | `Drivers/TimerDxe` | period, notify function | register, set period, tick, exit | LittleKernel's timer, DXE core |
| DXE bridge | `Drivers/DxeInit` | one event per wait of LittleKernel | create, signal, wait | LittleKernel's drivers |
| Display | `Drivers/LcdGraphicsOutputDxe` | mode, flush mode, deferred-flush flag, frame buffer | QueryMode, SetMode, Blt, flush, timer | LittleKernel's LCD / consoles, applications |
| eMMC | `Drivers/MMCHSDxe` | device list | read, write, init | LittleKernel's bio / persistence, file systems |
| RTC | `Library/RealTimeClockLib` | seconds, time zone and daylight variables | get, set | LittleKernel's RTC / runtime services |
| BDS policy | `Library/PlatformBootManagerLib` | console variables, `BootOrder`, `Boot####`, `Key####` | before and after console | persistence, UefiBootManagerLib / BDS |
| PrePi | `PrePi` | where UEFI's memory and the stacks are | entry point, HOB list | memory map / LittleKernel |
| Reset, serial, delay, lkapi pointer | the other directories | none | callbacks | |

What is hard in each, and what makes it correct:

- **Persistence.** The image is overwritten in place, by BDS at `TPL_APPLICATION` while clients
  change variables and by the event's handler at `TPL_CALLBACK`; the handler's own save writes a
  variable and signals its event again; statuses are dropped on the way. Correct: whenever the
  machine is quiet, the device has what the variables are; an image torn by a reset contributes
  nothing; a store that survived is not loaded over; every change reaches the device; the chain
  of events ends.
- **Serialisation.** Records of variable length in 32-bit arithmetic, an iteration that may be
  cut short, callback errors. Correct: what was written is read back, filtered names never, and
  no record reaches past the buffer.
- **EMU FVB.** Block, offset and size come from clients and are added in machine words; the
  formatting may be interrupted and found again in reserved memory. Correct: two blocks, each
  separate from the other and from everybody's memory; a header is accepted only if the
  formatting was completed; a volume that was found is not written.
- **Memory map.** Ranges split, trim and span items of a hand-linked list. Correct: it is a
  partition of the address space, equal to the address-by-address overlay; reserved ranges are
  never given away; table and HOBs follow it.
- **Interrupts, timer, bridge.** `RestoreTPL` inside the tick's handler turns interrupts on
  before the interrupt is ended; registration is three stores; two tables per vector. Correct:
  handlers do not nest, TPLs are kept, interrupts are ended, waits end, notifications run.
- **Display.** Refused flushes are left to a 30 Hz timer that interrupts the clients between any
  two of their steps. Correct: nothing drawn in AUTO mode stays undisplayed, no half-drawn frame is
  shown, one frame buffer.
- **BDS policy.** Options and keys are variables written one after another; a reset may come after
  any, RAM may survive it or not, and only the keys are saved on the device. Correct: however often a
  boot was interrupted, what is offered is what the platform wants offered, and the user's options
  stay what and where they are.
- **PrePi.** UEFI's memory is placed by the flags of 32-bit differences before there is a stack. Correct: it lies in
  the system memory, off the firmware, and in nothing that LittleKernel reported.
- **eMMC.** Range checks on unsigned sums. **RTC.** Leap years, wrap-around of the epoch.

## 2. Modules

| Module | Models | Uses |
|---|---|---|
| `NvVars` | persistence, end to end: BDS connect, load, save, event handler, clients, resets | |
| `MemoryMap` | abstract: the map, address by address | |
| `MmapRanges` | the list of `LittleKernelMem.c`, MMU table, HOBs | `MemoryMap` (refinement) |
| `LcdFlush` | the driver's entry point, display initialisation, Blt, flushing and its timer | |
| `PrePiMemory` | the entry point's placement of UEFI's memory and stacks | |
| `PrePi` | that memory against map, table and HOBs | `MmapRanges`, `PrePiMemory` |
| `Interrupts` | GIC drivers (v2 and v3), LittleKernel's handlers, tick, TPLs, waits | |
| `BootPolicy` | PlatformBootManagerLib: consoles, boot options, keys, text mode | |
| `FlashBlocks` | abstract: two blocks of flash and the memory of their clients | |
| `EmuFvb` | the EMU variable FVB: formatting, read, write, erase, resets | `FlashBlocks` (refinement) |
| `VariableRecords` | SerializeVariablesLib: records packed into a growing buffer and unpacked | |
| `MmcBlocks` | MMCHSDxe: which transfers reach LittleKernel's driver | |
| `ImageStore` | abstract: a store of variables and what a device claims to hold of it | |
| `NvImage` | the data path of a save and a load: records, header, blocks | `VariableRecords`, `MmcBlocks`, `ImageStore` (refinement) |
| `Calendar` | abstract: a clock that carries from second to year | |
| `RtcTime` | RealTimeClockLib: conversions, checks, zone | `Calendar` (refinement) |
| `MC*` | instances for TLC | the module named |
| `*Proofs` | theorems | the module named, `TLAPS` |

### NvVars

State: `fvb` is the non-volatile part of the variable store in the EMU volume, `vol` the names of
volatile variables. On the device, `hdr` is block 0 with its signature and CRC — represented by
the image the CRC was computed over — and `blk` the data blocks; the CRC matches when
`hdr = blk`. `bds` is how far `PlatformBdsRestoreNvVars` (via `VisitingBlockIoInstance` and
`ConnectNvVarsToBlockIo`) has come, `saver` and `step` who is inside `SaveNvVarsToBlockIo` and
where, `left` the names or blocks still to do, `snap` the buffer of records. `pending` is the
event's signalled state. Everything that needs more than one call of an external service is
more than one action: each `SetVariable` of a load, each `GetVariable` of a save, each block of
`WriteBlocks`; a reset may come between any two, and the blocks of a save reach the device in
any order. `SetVariable` of a client may come between two steps of BDS (both run at
`TPL_APPLICATION`, and clients also at `TPL_CALLBACK`) but not into the event's handler.
`IterationDisturbed` is what `GetNextVariableName` does when the store changes under it.

A variable of the image that `SetVariable` refuses with one of the two ignored statuses is passed by
(`LoadVariableIgnored`); any other error ends the load (`LoadVariableFails`).

The history variables `base`, `complete` (none of the variables of `base` was refused), `touched`, `newer` (changed
by a client while `NvVars` was there), `saveErr`, `missed` record what properties speak of and guard no action. External: the variable driver (writes only what
changes), the event dispatcher, the block device (a block is written whole or not).

### MmapRanges and MemoryMap

`mappings` is the linked list as a sequence of `[lo, hi, cell]`, `cell` being flags, memory
attribute and memory type. `MmapInsertRange` is a function from list to list: `Container` is the
early exit of the loop, `Combination` the `CombinationList` it collects otherwise, `Coherent` the
adjacency check, `Splice` the relinking in all of its cases. `LKApiMmapAdd`, `AddSystemMemory`,
`BuildTable` and `ArmPlatformBuildMemoryAllocationHobs` follow in the order in which PrePi has
them called; without memory for the table PrePi goes on all the same, to the allocation HOBs (phase
`untabled`). `MemoryMap` has one action: lay a range over the map if every address may be given
up. `MmapRanges` implements it by `Overlays`, mapping each address to the cell of its item.

### PrePiMemory and PrePi

`PrePiMemory` is `_ModuleEntryPoint` in registers of `Words` values: `Room` is the difference that
`subs` computes, `AboveFd` the two branches on its flags, `Top` the alignment of a top that overflows.
A `Placement` is what the build chose; `Sensible` are the placements with room for the region at all.
`PrePi` lets the memory map be built (by `MmapRanges`, an address being a page) while PrePi runs in
the region, for every sensible placement with that system memory.

### LcdFlush

`pc` is where each of two contexts is, "app" at `TPL_APPLICATION` and "callback" at
`TPL_CALLBACK`; `Runs` says who may step: TPL_NOTIFY, which `Blt` raises to, keeps the callback
out, and callbacks keep the application out. `LKDisplayFlushScreen` is three steps (`ReadNow`,
`Compare`, `Flush`) because it reads the clock and compares it before it raises the TPL. Times
are relative to now and saturate: `sinceFlush` is the age of `mLastFlush`, `age` that of `Now`.
`RenderTime` of a call that changed to AUTO after an unread `Now` is `Long` (the code subtracts
0 from the time since power-on). `driver` is how far the entry point has come: it installs the protocols
before it knows whether the display needs flushes, and callbacks may use them in between. A timer that cannot be
created or set is only asserted, so that a release build runs without it (`untimed`). `dirty` and
`manual` are history; `manual` also covers what was drawn before `gDisplayNeedsFlush` was set.

### Interrupts

`stack` is the CPU's stack of frames: the application, and on top of it interrupts and
notifications. `RestoreTPL` is a step of the frame that calls it, during which notifications
queued above the level it returns to are pushed and interrupts are on — also inside
`TimerInterruptHandler`. The application and notifications raise their TPL and restore it to their own (`OwnTPL`).
`lkapi_int_register_handler` is its three stores, for a vector that may be unmasked already: the code does not look.
`Acknowledge` may push an interrupt frame whenever the CPU's interrupts are on, the
source is pending and enabled and no interrupt is active: all sources have one priority, so that
an active one holds the others back. `Revision` says which of the two drivers runs: they differ in
registers (each has its own definitions over shared ones), and at exit: both mask one source after
another with the CPU's interrupts on, then GICv2 acknowledges and ends what is signalled, while
GICv3 ends every source. The DXE core and LittleKernel's drivers are external.

### BootPolicy

`step` is where BDS is in `PlatformBootManagerBeforeConsole` and `PlatformBootManagerAfterConsole`,
`todo` the rest of the list that its loop runs over. Each write of a variable is an action. UefiBootManagerLib
is external and modelled from what its calls promise: an option is added under the lowest free number,
`BootOrder` before `Boot####` (`adding` is what is in between); deleting takes the number out of `BootOrder` and leaves
the variable; a key counts while `Boot####` has the contents it was made for (`Valid`). A warm reset
keeps the variables if their store is reserved memory, a cold one keeps only what is saved on the device, and of
these variables that is the keys: the filter of SerializeVariablesLib (`SerializeVariablesLib.c:37`)
leaves out `Boot*` and the consoles. `NvVars` has the steps of connecting the device; here it is one
step that may fail to load, to save, or both. The UI and the shell may fail to be added, which is only asserted
(`missing` notes it). The UI and the menu are hidden options, so the user cannot
delete them. The removal loop takes all of `BootOrder` as its list and passes by numbers without a variable, which the
code's list does not have; the two come to the same, and numbers are what it deletes by.

### EmuFvb and FlashBlocks

Memory is an array of cells with addresses below `Space`, the word size; the volume lies at
`Base`, buffers anywhere else. `Word` is the addition of two `UINTN`. Three cells stand for what the
driver looks at: the compared fields of the volume header, its checksum, the store header.
`Becomes` is a copy that a reset leaves done in any part. `call` records the arguments of the last call
in both modules, so that what `FlashBlocks` allows is what that call asked for: its block, offset, buffer or list
of ranges, or nothing if one of them does not exist (`Refused`). `EmuFvb` implements it by
`KeepsBlocksApart`, block `l` being the cells at `Base + l * BlockSize`.

### NvImage, VariableRecords, MmcBlocks and ImageStore

`NvVars` has the concurrency of a save and takes images as they are; `NvImage` has the bytes and
lets one call run after the other. A cell of a buffer is a byte; a UINT32 is `Word` cells of
which the first is the number, a CHAR16 and a GUID are one number each. `VariableRecords` is
SerializeVariablesLib operator by operator: `AppendToBuffer` with its padding,
`EnsureExtraBufferSpace`, `UnpackVariableFromBuffer` with the check of its last offset (each
earlier one lies below it, sizes being far from 2^32), and `Records`, the loop over a buffer.
`NvImage` puts a buffer behind a header (`ImageFile`), writes the file in whole blocks if
`MmcBlocks!Accepted` lets it through, and reads header, size and CRC back from the device's
cells. A CRC is represented by the data it is of. A save whose file would be as large as the address
space ends as AllocatePool fails (`Copied`). A reset or a device error leaves any subset of a
write's blocks done. `MMCHSInitialize` is `Publish` for each device and `MMCHSInitializeReturns`; a
device that fails ends it, one that is not published does not. `ImageStore` says what all that is
for, in terms of the variables only: `KeepsImages` maps the header's claim (`Claimed`) and
whether it holds (`Signed`, `Accepted`, `CrcOk`) to it, and `Activity` what runs: `ImageStore` has a
loading phase in which the variables change only to what the image says, and clients only outside of it. `packed` and `refused` are history.

### RtcTime and Calendar

`rtc` is LittleKernel's 32-bit clock, which counts with or without the driver and keeps its value
through resets; `TimeZone` is the library's variable, which does not. `CivilDate` and
`JulianDate` are the arithmetic of `EpochToEfiTime` and `EfiTimeToEpoch` in integers: where the
code's unsigned terms wrap, they wrap back in the same sum. The lengths of minute, hour and
day and the width of the counter are constants. `Calendar` knows nothing of quotients: its clock
ticks by carrying, and days before a date are counted one by one. What `LibSetTime` subtracts
for zone and daylight saving is a parameter of it (`Ahead`).

## 3. Faithfulness: what is abstracted

Names, values, memory cells and ranges' contents are members of small sets; a CRC matches exactly
when the image is the one it was computed over (no collisions); debug output is left out. An assertion that fails stops a debug build; in
a release build it does nothing (`DebugLib|BaseDebugLibNull`, `LittleKernelPkg.dsc:32`), and the models take that
build: where a status is only asserted the code goes on (`TableAllocationFails`, `CreateEvents`,
`PlatformRegisterFvBootOption`). Where an assertion states something a run can decide, it is a property (`RegisteredWhole`). Every allocation and every call whose status the
code looks at may fail, and the statuses it drops are dropped.

## 4. What is checked

| Run | Question | Bounds | Size |
|---|---|---|---|
| `nvvars` | do device and variables agree, whatever clients, faults and resets do? Does every change reach the device, and the chain of events end? | 2 savable variables, 1 filtered, 1 value; 2 client writes, 1 fault, 2 resets (cold or warm), 1 foreign signal | 394 k states, 45 s |
| `nvvars_crc` | finding | 1 variable | a counterexample |
| `nvvars_newer` | finding | 1 variable, 2 values; 2 writes, 1 reset | a counterexample of 21 states |
| `mmap` | does the list implement the address map; do table and HOBs follow it; is PrePi's own memory left alone? | 5 addresses (pages of 2 bytes, registers of 10 values), 3 insertions of any range, 3 kinds, 3 requests, then the system memory; every sensible placement | 40 s |
| `mmap_end` | finding | 6 addresses, 4 entries a page | a counterexample |
| `lcd` | is everything drawn shown, and whole? | flush 1–2 ms, delay of at most 2 ms between steps, a VRAM at a fixed address | 38 k states, 6 s |
| `int` | do handlers nest, TPLs slip, half-registered handlers run? | tick, block device and one more source; 2 handlers; 2 levels of notification; 2 interrupts deep; GICv2 | 2.9 M states, 80 s |
| `int_live` | do waits end and notifications run? | tick and block device, one level, one interrupt deep; GICv3 | 24 k states, seconds |
| `boot` | is what is offered settled, and the user's options kept, however boots were interrupted? | 2 options of the VNOR device, a disk, a display, an option of the user's; numbers up to 8; 2 resets, 1 fault, 1 change by the user | 2.5 M states, 60 s |
| `image` | does a save leave a whole image or something that can be told from one; does a load take only whole ones? | 4 names (2 filtered, `NvVars` among the others), 2 sizes of data, 4 blocks of 8 cells, 2 devices; 3 client writes, 1 fault, 1 reset | 865 k states, 80 s |
| `rtc` | do the conversions follow the calendar; does a failed call change nothing? | every second of 49,710 days of 8 seconds; 78 dates; 2 calls, 1 tick after them, 1 reset | 398 k states, 50 s |
| `fvb` | do the sums in words keep blocks and memory apart; is formatting recognised? | blocks of 4 cells, 12 addresses, 2 calls with all blocks, offsets, buffers of up to 3, all lists of two ranges | 296 k states, 60 s |

Why the bounds are enough to be of interest:

- *nvvars*: a torn image needs a save, a second save and a reset; using it a second boot; a third one shows what the
  second wrote. Each boot saves by itself when it connects, when the event is created and when its own save
  writes `NvVars`, so the two writes can both fall into saves that are under way. One fault, wherever it
  falls, is enough to reach each dropped status. The filtered variable shows that it never gets onto
  the device. One value is enough for the invariants, which compare with "no such variable" as well.
- *mmap*: after three insertions a list can have a reserved item between two others, items of
  three kinds under one new range, and items of one address at either end of the space; the
  system memory is a fourth insertion. Five addresses give each of four ranges room of its own.
- *lcd*: two contexts are all there is between `TPL_APPLICATION` and `TPL_NOTIFY` in this driver;
  with two units of delay a call can be overtaken by a flush of either length.
- *int*: the second interrupt is the one that comes in while the first restores its TPL or
  returns; a third on the same stack repeats it.
- *boot*: two resets are an interrupted boot after an interrupted boot, the second of which finds what the first left
  (a number without its option, stale keys); with two options of one device a loop that skips or
  deletes by index goes wrong; the user's one change is the addition, deletion or move that a later boot must respect. Numbers up to 8 are more than are ever used at once.
- *fvb*: offsets and sizes reach beyond the block, the volume and, with `Word`, 2^w; two
  calls are a write or an erase and what another call sees of it, with resets around and inside
  them.
- *image*: names and data are padded or not; a variable with long data does not fit on the device beside
  `NvVars`, one with short data fills its last block. An image that is torn needs two saves and a fault or a reset; the
  budget has both, so that an interrupted save can follow another and complete it.
- *rtc*: the day is short, the calendar is not: 2^32 seconds are as many days as here, so that each day
  up to February 2106 is seen. The dates of calls lie at and beyond the limits of months, of leap
  years, of the counter and of the years that the code takes.

Deadlock is not checked: each of the systems may really stop. ExitBootServices or the end of PrePi
ends it, and budgets are spent.

### Properties

- `NvVars`: `QuietImpliesClean` (device = variables when quiet, but for two named excuses: the
  last save failed and its status was dropped, or a change fell between the creation of the event and
  `PcdSet64S`), `EventSnapshotExact`, `UntouchedFromImage` (nothing of a torn image gets in, and a whole one
  gets in wholly unless a variable is refused), `ChangeReachesDevice`, `EventSettles`.
- `MmapRanges`: `Partition`, `Overlays` (refinement), `InsertExact` (refused only if an
  address may not be given up), `ReservedKept`, `HobsSound`, `TableMatchesMap`.
- `PrePi`: `UefiRegionKept`.
- `LcdFlush`: `NothingForgotten`, `WholeFrames`, `DeferredFlushHappens` (if there is a timer); `TypeOK` also says that
  a frame buffer at a fixed address is allocated once.
- `Interrupts`: `HandlersNotNested`, `TplDiscipline`, `RegisteredWhole` (a function and an argument, and they belong together but
  in between the two stores that replace them), `WaitEnds`, `QueuedRuns`; `TypeOK` also bounds the depth of the stack.
- `BootPolicy`: `OffersSettled` (nothing of the VNOR device, UI and menu once, F2 and Esc lead to the
  menu, the shell is there, the largest text mode is set), `UserOptionsKept`; `TypeOK` also says that `BootOrder`
  names no number twice and that the display devices of `ErrOut` are in `ConOut`.
- `EmuFvb`: `FormattedIfValid`, `FoundVolumeKept`, `KeepsBlocksApart` (refinement: what a call does is what its
  arguments ask for).
- `NvImage`: `PackedIsUnpacked` (at every moment of a save), `KeepsImages` (refinement: saves leave whole images or
  what can be told from one, loads set nothing but what a whole image says),
  `LoadedIsComplete`; `TypeOK` also says that the records lie inside the allocation.
- `RtcTime`: `RoundTrips`, `ReadsBack`, `KeepsCalendar` (refinement).

What the code loses and the properties therefore except is said by the `hazards` in `PROJECT.json` that no
property covers: the dropped statuses of saves and of a partial load, the signal missed before `PcdSet64S`, the
flush that comes too often or late, the second allocation of a frame buffer, the subtracted zone, system memory that is
refused.

Each property has a mutant of the code, kept beside the definition it changes, that violates it.

### Fairness

- `NvVars!FairSpec`: weak fairness of `Progress`: the boot thread goes on with what it is doing
  and the dispatcher runs a signalled event at `TPL_CALLBACK`. The handler is a chain of
  synchronous calls. Clients, faults, resets and ExitBootServices are promised nothing.
- `LcdFlush!FairSpec`: strong fairness of a call that has begun in the application (it may be
  interrupted again and again, but a callback takes less than the timer's period); weak
  fairness of callbacks and of the handler's dispatch (it waits at most for a TPL to be
  restored); the periodic timer expires again and again; time passes.
- `Interrupts!FairSpec`: strong fairness of what each depth of the stack has begun (interrupts
  are rare against the code's speed, so a frame goes on between them) and of the
  `RestoreTPL` of code that raised its TPL; the block device answers; the GIC does not pass over a
  pending interrupt for ever, which the strong fairness of its entry says.

### Findings

Three runs show a disagreement of the code with what it says of itself.

1. `nvvars_crc`, `Library/NvVarsBlockIoLib/BlockIoAccess.c:98`: on a CRC mismatch `ReadNvVars`
   returns the status of `CalculateCrc32`, which is success; the load then marks the variables as
   loaded.
2. `nvvars_newer`, `Library/NvVarsBlockIoLib/BlockIoAccess.c:193`: the `NvVars` variable, which is to keep a load from
   overwriting newer changes, is saved into the image and loaded from it with the others. From the moment the load has
   set it the store counts as loaded; a client's change of a variable that the load has not come to is
   overwritten. A warm reset at that point leaves a store that counts as loaded with a part of the image, which the next
   boot then saves (with a store in reserved memory only; `PcdEmuVariableNvStoreReserved` is 0 in `LittleKernelPkg.dsc:353`).
3. `mmap_end`, `Library/LittleKernelLib/LittleKernelMem.c:401`: the MMU table's pages are counted
   without the terminating entry; with an identity map and a list that fills its pages it is
   written behind them.

Seen while modelling and not the subject of a run:

- `LibSetTime` subtracts time zone and daylight saving from what it stores, and `LibGetTime` adds
  neither back but returns the zone (`RealTimeClockLib.c:202`): with a zone set, the time read is not
  the one that was set. (UEFI's LocalTime = UTC - TimeZone would have it added, too.) Early on
  1 January 1970 the subtraction wraps to 2106. `Ahead` keeps both apart from what the properties say.
- The flush rate is checked before the TPL is raised (`LcdGraphicsOutputDxe.c:557`): a flush of the
  timer's that comes in between is followed by another at once.
- `SerializeVariablesSetSerializedVariables` returns success "All variables were set successfully"
  (`SerializeVariablesLib.c:741`) also when the last one was not; `LoadedIsComplete` excepts it.
  `SerializeVariablesAddVariable` tests its parameters and does nothing about them (line 802).
- The last byte of a device's GUID is its index or its id (`MMCHS.c:372`), so that two devices may get the same
  device path; the second is then not published and the status is overwritten by the next one's.
- `Fvb.c:438` says that a write across the end of a block is `EFI_BAD_BUFFER_SIZE`, and the code
  writes up to the end and returns success (as does the read, `Fvb.c:523`); the caller can only
  see it in `*NumBytes`.
- The exit handler of GIC v3 (`ArmGicV3Dxe.c:205`) says it acknowledges pending interrupts, and
  masks every source and then ends it. The one of GIC v2 (`ArmGicV2Dxe.c:220`) does acknowledge, but finds nothing signalled, for it
  has masked everything before.
- GIC v3 says "Route the SPIs to the primary CPU" and writes `CpuTarget | ARM_GICD_IROUTER_IRM`
  (`ArmGicV3Dxe.c:317`), which is any CPU; with one CPU running it is the same.
- `lkapi_int_register_handler` refuses a vector above `mGicNumInterrupts` and not that one itself
  (`ArmGicCommonDxe.c:69`), and `ArmGicDxe.c` hands LittleKernel its functions also if the driver's
  initialisation failed.
- `TimerDriverSetTimerPeriod` (`TimerDxe.c:148`) changes the hardware's period before `mTimerPeriod`: a tick in
  between passes the old one, though line 54 speaks of "the amount of time since the last handler call".
- `lkapi_event_wait` calls `WaitForEvent` (`DxeInit.c:45`), which the DXE core refuses above `TPL_APPLICATION`, and the
  variables are saved at `TPL_CALLBACK`: whether LittleKernel's block driver waits for events there is
  not visible in this repository, so the model's waits are at `TPL_APPLICATION`.
- The UEFI region that is put below the firmware ends with the firmware's first byte (`Top` adds 1 to
  the firmware's base as it does to the last address of memory, `ModuleEntryPoint.S:72`); where memory ends
  with the address space, aligning the overflowed top gives up a page. `RegionPlaced` states both.
- A client that draws between the installation of the LCD's protocols and `gDisplayNeedsFlush`
  (`LcdGraphicsOutputDxe.c:244`) is not flushed and not noted. `Blt` before the first `SetMode` initialises the
  display but never configures BltLib.
- An interrupted addition of a boot option leaves its number in `BootOrder` until an option of that number is written; nobody
  takes it out.

## 5. What is proved

For every value of the constants that satisfies the modules' assumptions:

| Theorem | Statement |
|---|---|
| `NvVarsProofs!TypeCorrect` | `Spec => []TypeOK`: types, and who may run beside whom |
| `NvVarsProofs!QuietClean` | `Spec => []QuietImpliesClean` |
| `NvVarsProofs!EventSnapshot` | `Spec => []EventSnapshotExact` |
| `NvVarsProofs!ImageOrNothing` | `Spec => []UntouchedFromImage` |
| `MmapRangesProofs!TypeCorrect`, `PartitionAlways` | `TypeOK`, `Partition` |
| `MmapRangesProofs!InsertionExact` | `Spec => []InsertExact`: refused exactly when it has to be |
| `MmapRangesProofs!ImplementsMemoryMap` | `Spec => Overlays`, i.e. the list implements `MemoryMap` |
| `MmapRangesProofs!ReservedNeverGiven` | `Spec => ReservedKept` |
| `MmapRangesProofs!HobsAgree`, `TableMatches` | `HobsSound`, `TableMatchesMap` |
| `MmapRangesProofs!RegionPlaced` | for every sensible placement the UEFI region is in the system memory, free memory below the stack, and off the firmware but for its first byte |
| `MmapRangesProofs!RegionKept` | `PrePi!Spec => []UefiRegionKept` |
| `LcdFlushProofs!TypeCorrect` | `Spec => []TypeOK` |
| `LcdFlushProofs!ForgetsNothing` | `Spec => []NothingForgotten` |
| `LcdFlushProofs!FramesAreWhole` | `Spec => WholeFrames` |
| `InterruptsProofs!TypeCorrect` | `Spec => []TypeOK`, with the bound on the depth of the stack |
| `InterruptsProofs!NoNestedHandlers` | `Spec => []HandlersNotNested` |
| `InterruptsProofs!TplKept` | `Spec => []TplDiscipline` |
| `InterruptsProofs!HandlersRegisteredWhole` | `Spec => []RegisteredWhole` |
| `BootPolicyProofs!TypeCorrect` | `Spec => []TypeOK` |
| `BootPolicyProofs!Settled` | `Spec => []OffersSettled` |
| `BootPolicyProofs!UserKept` | `Spec => UserOptionsKept` |
| `EmuFvbProofs!TypeCorrect`, `FormattedAlways`, `FoundKept` | `TypeOK`, `FormattedIfValid`, `FoundVolumeKept` |
| `EmuFvbProofs!BlocksApart` | `Spec => KeepsBlocksApart`, i.e. `EmuFvb` implements `FlashBlocks`, call by call |
| `NvImageProofs!TypeCorrect` | `Spec => []TypeOK`: the growing buffer is never shorter than what is in it |
| `NvImageProofs!UnpackingUndoesPacking` | `Spec => []PackedIsUnpacked`, for names and data of any length |
| `NvImageProofs!CompleteLoads` | `Spec => []LoadedIsComplete` |
| `NvImageProofs!ImplementsImageStore` | `Spec => KeepsImages`, i.e. `NvImage` implements `ImageStore`, its loads included |
| `NvImageProofs!TransfersInside` | exactly the transfers of whole blocks that exist are `Accepted` |
| `RtcTimeProofs!TypeCorrect` | `Spec => []TypeOK` |
| `RtcTimeProofs!RoundTripsAlways` | `Spec => []RoundTrips` |
| `RtcTimeProofs!DateReadBack` | `Spec => []ReadsBack` |
| `RtcTimeProofs!ImplementsCalendar` | `Spec => KeepsCalendar`, i.e. `RtcTime` implements `Calendar` |

The assumptions are those named in the modules. Those that are not only types and sizes:
`MmapRanges` and `PrePi` take the address space and a page as given by the build, `EmuFvb` that the
volume lies in memory, `RtcTime` that the counter holds the days of the years that `LibSetTime`
takes (`CounterAssumption`; 2^32 seconds do), `BootPolicy` that the options of the platform, of the
VNOR device, of other devices and of the user are different ones, `NvImage` that a cell nobody has written is
no number and no CRC, that the header lies in the first block, and that the last block and the address space are
far from 2^64 (`BlockAssumption`). The bounds of the environment
(budgets, depth of interrupts, largest number of an option) may be any numbers.

Arguments:

- *NvVars.* `QuietImpliesClean` says nothing of a save that is under way, so it is not
  inductive. `IInv` adds what the handler has collected (`EventCollecting`) and written
  (`EventWriting`) so far: each name already done agrees with the variable, because nobody
  changes variables while the handler runs; and `CleanOrFlagged`: after the event exists, the
  device is clean, or a save is pending or under way, or one of the two excuses holds. The save's own
  `SetNvVarsVariable` signals the event exactly when it changes the store. `StoreInv` is the same for the
  load: until it begins the store has only what clients wrote, and while it runs the device is the
  image it began with (`Loading`), of which each variable is still to come, is there, was refused, or was
  changed by a client.
- *MmapRanges.* `ListInv` is type and `Partition`. `Chain(m, a, b)` (a list that goes from `a`
  to `b` without gap) is what the operators are shown to preserve: prefixes and suffixes of a
  chain are chains (`ChainPrefix`, `ChainSuffix`), so are what is left of an item on
  either side of the new range, and chains that meet concatenate (`ChainJoin`); `Splice` is five of
  those. That the items spanned by a combination need no further check follows from their
  order. `ReservedKept`: an item between the first and the last of a coherent combination is one of
  it (`NothingBetween`), so a reserved item is never inside. Each address has one item (`Located`,
  `LocatedOnce`), which is what the refinement maps it to; `FitsUsable` and `UsableFits` are the two
  directions of `InsertExact`, `SpliceOverlays` the refinement's step. `BuiltInv` says that table and HOBs are of the
  list that is final; the table's entries are numbered by `Index`, a count of the mapped items before one,
  which is shown to be a bijection (`IndexCounts`).
- *PrePi.* `Comparison`: for a sensible placement the flags decide as the integers would, since
  no region is half the address space; then each of the branches is arithmetic, with `LastPage` for the
  top that overflows. `RegionKept` puts that together with the list: the pages of the region lie
  in the item of the system memory.
- *LcdFlush.* `IInv` adds `Alone` (at most one context is inside `Blt`, and only where the TPLs
  let it be), `Noted` (drawn in AUTO and not flushed implies the flag or a `Blt` under way) and
  `DrawnManual` (a `Blt` that will not flush drew when it was nobody's to flush). Time is arithmetic on saturated numbers, whose order `Bounds` has.
- *Interrupts.* `IInv` says what the stack can look like (`StackOK`): the application at the bottom, TPLs that
  do not fall on the way up and rise under a notification, and under each frame one that can be interrupted by
  it. The interrupts in service are those of the frames inside a handler, of which there is at most one
  (`HandlersOK`): a tick's handler in `RestoreTPL` has its interrupt still active, and the GIC, whose sources have
  one priority, gives out no second. `BlockOK` is about the three stores of a registration: function and
  argument belong together unless the application is between them, and both are there when the vector is handed over. Every
  action changes, pushes or pops the top frame; the lemmas `TopChanged`, `Pushed` and `Popped` keep `StackOK` for each
  kind, and the rest is one lemma per action.
- *BootPolicy.* `OffersSettled` speaks of the end of a boot only. `IInv` has what each step on the way can rely on
  although a reset may have come after any write of an earlier boot: `OwnInv` (the UI's and the menu's variables
  are never deleted or overwritten, hence unique, and there once their step is past), `AddInv` (a number that is being given
  out is in `BootOrder`, and its old variable is neither's), `KeyInv` (this code's keys have
  places of their own, so that a stale one is replaced by one of the same place), `VnorInv` (while the loop runs, each option
  of the VNOR device is still on the list; afterwards there is none but for the old variable of a number just taken),
  `TodoInv`. `OmitFacts` is the one lemma about lists: `s` and `s` without an element have the same other elements in
  the same order; removing, appending and putting first are instances. `UserKept` follows: what is added has a new number,
  what is stored is not of the user, what is removed is a VNOR or a vanished device's. The loop of
  `ConsoleSetBestMode` is a recursive function, about which `BestModeIsLargest` is proved by a least counterexample.
- *EmuFvb.* `IInv` adds `Prepared`: what each step of the formatting finds. The refinement maps
  memory to blocks; the one place where a word could wrap, `Offset + *NumBytes`, cannot for
  a buffer that is memory and does not overlap the volume, since it is shorter than the address
  space less two blocks (`NoWrap`). The formatting, and whatever resets leave of calls, map to
  `Prepare` and `PowerLoss`.
- *NvImage*, the format. `Unpacks` says that a record is read as what it is of wherever it lies: each field begins
  where the unpacking looks for it, because both sides round up by the same rule (`Aligned`, `Sizes`), and `AppendWord`
  and `AppendFollows` say what appending leaves of the buffer. `Packed(buf, recs)` is what a buffer of records is; nothing
  packed is one (`NothingPacked`), and one variable more makes another (`OneMorePacked`). That the loop `Records`
  comes upon exactly `recs` (`RecordsRead`) and `Visited` leaves none out (`AllVisited`) would be inductions over the
  buffer; they are proved by a least counterexample: the last offset from which the walk goes wrong.
- *NvImage*, the rest. `IInv` says that the instance holds what was collected (`SaveInv`; the file is of all
  variables when it is written), that the header of the device is blank or that of an image some save has packed
  (`DeviceInv`), and that the records still to be set are those of a whole image, of which each variable is set, still to
  come, or refused (`LoadInv`). `DeviceWritten` is the step that matters: the header lies in one block, so whatever
  blocks a failed write or a reset leaves done, the device's claim is the old or the new one, and the new one's CRC matches
  when all blocks are done (`WrittenCells`, `CellAddress`). In between it is the CRC that says whether the claim is kept.
- *MmcBlocks.* The sum `Lba + BufferSize / BlockSize - 1` stays below 2^64 or, for nothing at block
  0, wraps to a number above every block (`Wrap`). `AcceptedFile` uses it for the file of a save.
- *RtcTime.* `DayRoundTrip`: each of the nested quotients is the number of whole cycles (400, 100, 4
  years and 1 year, the last of each a day longer), so that the day is
  146097 g + 36524 c + 1461 b + 365 a + da, which is what `JulianDate` adds up. `Units`: hours, minutes and
  seconds are the remainders of the day, for units of any length. `TypeOK` is inductive. `ReadsBack` needs
  `AskedInv`: what `LibSetTime` has stored is the time it was asked for less what it subtracts. For the
  refinement, `Calendar` counts the days before a date as the cardinality of a set of leap years and a sum of lengths;
  `Multiples` and `LeapYears` turn the count into quotients, `MonthsBegin` does the months, and
  `DayCount` shows that `JulianDate`, which starts its years in March, counts the same days. `NextSecond` follows
  the carry from second to year, `SetInstant` is a call.

The attempt to prove `ImplementsCalendar` showed a mistake in `Calendar`, not in the code: two guards of a CASE in
`Successor` held at once, of which TLC took the first and the logic takes any. The alternatives are nested now.

Model-checked only:

- all liveness: `ChangeReachesDevice`, `EventSettles`, `DeferredFlushHappens`, `WaitEnds`, `QueuedRuns`. TLAPS does not
  reason about `ENABLED`, on which fairness rests.

Every invariant, action property and refinement that a run checks is also proved. The three findings are runs; they
need no more than their counterexamples.

## 6. What is not modelled

- The attributes calls, `GetBlockSize` and `GetPhysicalAddress` of the FVB, and
  `SetVirtualAddressMap`: constants, and a change of pointers without effect on the blocks.
- Records whose sizes are near 2^32: only buffers whose CRC matches are unpacked, and the library that
  packs them writes none. Device paths, media changes and the reset of MMCHSDxe.
- Drawing (`BltLibGopBlt` is external) and the LCD's power. `LcdCopy`, the double buffer and the rotated
  mode are compiled out (`LcdGraphicsOutputDxe.h:37`).
- The rest of `PrePiMain` (serial port, CPU HOBs, decompression, the jump to the DXE core): one call
  after another on one CPU, before any event or interrupt.
- `lkapi` pointers, serial port, delays, reset: single calls of LittleKernel without state.
- The creation and destruction of events in DxeInit: whose events they are and when they go away is
  LittleKernel's code, which is not here.
- In BDS, the continue key and EndOfDxe, which leave no state in this code, failures to write a key's variable or to
  find the menu (asserted only; after the second the code uses a number that was never set), and the boot manager's
  own work after the hooks.

## 7. Plan

What is left, in this order:

1. The safety half of the liveness properties, as invariants that could be proved: a deferred flush always has an armed
   timer behind it, a change that has not reached the device has a signal pending or a reason, a queued notification
   has a frame that will run it. TLC's liveness runs would then be about scheduling only.
2. Transfers of MMCHSDxe at any block: `TransfersInside` is about all of them, `NvImage` uses those at block 0.
3. The attributes calls of the FVB, if they ever come to change anything.
