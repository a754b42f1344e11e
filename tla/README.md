# Verification of the miniature operating system

TLA+ models of the boot loader and the kernel under `src/`, TLC instances that
check them, and TLAPS proofs. `PROJECT.json` lists the components, the runs, the
lines every definition translates, the findings, the hazards and the theorems.

## The system and its models

The boot loader (`src/bootloader-efi`) reads kernel and first program from disk,
leaves the UEFI boot services, builds the kernel's page table and jumps into
the kernel (`src/kernel`). The kernel takes over physical memory, sets up
descriptor tables, starts the other processors, routes the legacy interrupts,
creates a context for the first program, loads it and switches to it.

| Module | Code | State and actions |
| --- | --- | --- |
| `TrackedMapper` | `bootloader-efi/src/mem/tracked_mapper.rs` | a tracker is a record of used entries and two cached bounds; each method is an operator |
| `BootMemory` | `bootloader-efi/src/main.rs`, `mem/*.rs`, `context.rs` | `efi_main` from `exit_boot_services` to the jump: one action per mapping call, the region table written descriptor by descriptor and sorted at the end, then the kernel taking frames. Uses `TrackedMapper`, and `FrameSource`'s idea of a kernel that may take any frame not declared unavailable |
| `KernelElf`, `UserElf` | `bootloader-efi/src/kernel.rs`, `kernel/src/mem/load_elf.rs` | the two ELF loaders: one action per program header, per relocation, and for the final pass. `ElfFormat` has what both share, `ElfInputs` the files |
| `FrameAllocator` | `kernel/src/mem/frame_allocator.rs` | merging the regions, then `next_n` loop step by loop step |
| `FrameSource` | the same file, as its callers see it | abstract: blocks are granted, never overlapping |
| `Processors`, `Madt` | `kernel/src/acpi/local_apic.rs`, `AcpiSettings` in `shared/src/arg.rs` | the processors and how the BSP reads its own id; the table of the firmware and what the loader passes on of it. Shared by the next three |
| `ApStartup` | `acpi/ap_startup.rs`, `asm/trampoline.asm`, `main.rs`, `gdt.rs`, `mem/heap.rs` | the BSP's loop, the trampoline and `_start_ap`, interleaved; frame allocator and heap as cells that panic when two CPUs are inside |
| `IoApic` | `bootloader-efi/src/acpi.rs`, `kernel/src/acpi/io_apic.rs` | parsing the MADT entry by entry, then each override, then each interrupt in turn with the two register writes of its entry |
| `AcpiBoot` | `main.rs` (`_start`) | extends the two: the loader parses the MADT, `_start` starts its processors and then routes its interrupts, while the started processors wait |
| `InterruptEntry` | `interrupt_macro.rs`, `interrupt.rs`, `syscall.rs` | entry and exit code of handlers and system calls, instruction group by instruction group, interrupted anywhere |
| `Scheduler` | `kernel/src/context/` | `switch_context` step by step on several CPUs, with its three kinds of locks, and the operations on contexts between switches |
| `ContextIds` | `kernel/src/context/list.rs` | `alloc` and `dealloc` with spin lock, RefCell, queue and counter |
| `UserAddrSpace` | `kernel/src/mem/user_addr_space.rs`, `context/list.rs` | `new`, `setup_kernel`, `alloc`, `resolve`, `spawn` and `Drop` |
| `Console` | `shared/src/framebuffer_writer.rs`, `kernel/src/logger/mod.rs`, `panic.rs`, `gdt.rs` | cursor and glyphs of the writer, the logger's mutex, the panic handler, several CPUs, each before and after its `init_gdt` |

Variables and actions have the names of the code where TLA+ allows it. An
operator called `Mut...` is a deliberately wrong variant of the definition after
it; no specification uses it. `MC...` modules hold only the instances.

How the parts meet: `BootMemory` produces the region list that `FrameAllocator`
consumes, and its `RegionsSorted` is the precondition of the merge;
`FrameAllocator` has one caller at a time, which `AcpiBoot` shows of the boot
and the single CPU that runs contexts gives afterwards; `AcpiBoot` composes
`IoApic` and `ApStartup`, and `MCElf` runs both loaders on the same files;
`ContextIds` lets callers panic at a second borrow of the queue unless they have the
storage guard, which `Scheduler` has; `UserElf` fills the frame lists that `UserAddrSpace` gives back.

## The runs

| Run | What it shows |
| --- | --- |
| `frame_allocator` | For all sorted lists of up to three regions and all sequences of three requests: the merge is exact; a panic needs a full table; requests are answered; and the allocator implements `FrameSource`, so that blocks are free and disjoint (the mapping is in `FrameAllocator`) |
| `scheduler_one_cpu` | With signals and shared or missing address spaces: CR3 belongs to the running context, the idle loop gives way to a ready context, and whoever stays ready gets a turn again and again |
| `scheduler_two_cpus` | A context runs on one CPU, its registers are in one place, no stack is the entry stack of two CPUs, the switch lock always comes back and nothing deadlocks |
| `context_ids` | No id is held twice and none is lost (each one handed out is with a caller or in the queue), with the guard of `CONTEXT_STORAGE` and without it; with it the lock comes back. A variable `guarded`, chosen at the start, tells the two cases apart |
| `tracker` | No entry in use is handed out, even if entries are freed; as long as none is (`may_free`), one entry is found whenever one is free |
| `boot` | The loader never takes a frame of a file, device or argument, and the regions handed over are sorted, the top-level entries are the agreed ones, and the kernel never gets a frame the loader left behind, if the bootstrap file is not longer than the kernel file |
| `boot_bootstrap` | The same `KernelKeepsOff` is **violated** when the bootstrap file is longer: its region gets the length of the kernel file (the finding of `PROJECT.json`) |
| `elf` | Both loaders, for every combination of segment ends inside, at and across page bounds, with few and with enough frames: the image in memory is what the file says, and the TLS template points at its initial data; rights follow the segments, the file is not written to, no frame is used twice or lost. The bootloader panics at a header of any type below the first `LOAD` (an unsigned subtraction, `kernel.rs:87`, in the debug build that `run.sh` boots); the kernel's loader passes over it |
| `user_addr_space` | Frames are owned and given back once; large buffers are apart, and every longer buffer resolves byte for byte; only a lack of frames stops the kernel |
| `acpi_boot` | Every processor the MADT lists as usable is started and gets its own id and stack out of the shared trampoline page, frame allocator and heap are entered by one CPU at a time, the redirection tables end up as the MADT says, every unmasked entry sends to the BSP except the one between its two writes, which may still send where the firmware left it, and the boot gets through |
| `interrupt_entry` | The kernel always runs with its own GS base and the user with theirs, interrupted code gets back its registers, and functions find the fields of `InterruptStack` under their pointer, for handlers nested in each other at any instruction |
| `console` | Every pixel is on the screen, records of two CPUs do not mix, and the panic message of every CPU past `init_gdt` gets through. Before that, `pcr()` goes through a GS base nobody has set, and the CPU may fault instead |

Every property of the passing runs has a mutant of a mapped definition that TLC
catches with that property. What the theorems below settle for every value of the
constants is not checked again by a run in full: a run keeps the properties that are not
proved, and of the proved ones those a small instance illustrates best. `TypeOK` of
each module states the types of its variables; it holds in the instances here and is
proved for `FrameAllocator`, `Scheduler` and, as part of the invariants, for
`ContextIds`, `Console`, `InterruptEntry` and `AcpiBoot`.

### What the source says and the code does not do

Some comments, messages and tests of the repository promise more than the code
does. Except for `KernelKeepsOff` above they are not runs of their own; each is
stated at the end of its module, and TLC refutes it when it is put into the
module's configuration with the constants given here.

| Definition | Instance | What happens |
| --- | --- | --- |
| `SkipsIdleFirst` (`Scheduler`) | `MCSchedulerOne.cfg` | `skip_idle` is never set; the idle context is not skipped |
| `RunFoundWhileFree` (`MCTrackedMapper`) | as is | a request for more than one entry finds nothing in an empty table |
| `OneFoundWhileFree` without its condition | as is | a free entry is missed after `mark_as_unused` |
| `BootsWithoutFramebuffer` (`BootMemory`) | `MCFramebuffers = {FALSE}` | the assertion on `KERNEL_ARG_P4` fails |
| `GuardPageUnmapped` (`BootMemory`) | as is | the guard page of the kernel stack is mapped writable |
| `KernelUsesUsable` (`BootMemory`) | `MCHoles = TRUE` | memory no descriptor mentions is handed out |
| `SmallApart`, `EveryBufferResolves` (`UserAddrSpace`) | as is | small buffers share one address; buffers in the first pages resolve to `EFAULT` |
| `StackAccessible` (`UserAddrSpace`) | `Contexts = {c1, c2}`, `Limits = {24}` | a second `spawn` finds the window mapped and panics |
| `SkipsTheBsp` (`ApStartup`), `OnlyToBsp` (`IoApic`) | `BspId = 1`, `X2 = FALSE` | the LAPIC id register is read without its shift |
| `AlwaysToBsp` (`IoApic`) | as is | between its two writes an entry is unmasked and still sends to `ResetDest` |
| `GdtLayout` (`ApStartup`) | as is | only the first CPU gets the user segments |
| `SuitableMapped` (`IoApic`) | as is | the last entry of an I/O APIC is left out |

Those of `ApStartup` and `IoApic` go into `MCAcpiBoot.cfg`. Two more promises come
from tests: `dealloc` accepts ids that were never handed out, which the test at
`context/list.rs:244` excludes (the model gives back only ids that are held, as the
callers do), and the frame allocator starts at 0x100000 while its test
(`frame_allocator.rs:232`) expects the third page above its base.

## Bounds

- Memory is counted in small units: a frame is 2 cells (`FrameAllocator`,
  `BootMemory`), a page 3 or 4 bytes (`UserAddrSpace`, ELF). Two cells are enough
  for "inside a frame" to differ from "at its bound"; the ELF pages leave room
  for a pointer of two bytes that straddles pages.
- Three regions give every relation of neighbours (apart, touching, overlapping,
  nested) twice in a row, which is what the merge and the skipping loop look at.
  `MaxRangeCount = 3` makes a full table reachable.
- Page tables have 7 or 8 entries instead of 512: the searches compare indices with the
  bounds and with each other only.
- One and two CPUs, and two contexts besides the idle ones: every race in `switch_context`
  is between the CPU that switches and one that scans. Three callers for ids: one
  in the middle of each operation and one that begins.
- Four processors in every order of the MADT, so that one AP is started between two
  others and the BSP's own entry is at every place; `MaxCpus = 4`, and one table with
  five, stand for the 256 places of the arrays. The BSP has id 5 and reads it through its
  x2APIC registers, and the destination the firmware left in the entries (`ResetDest`) is
  an AP, so that "the BSP", "id 0" and "what was there before" are three things. One or two I/O APICs and up to two
  overrides out of eight (to a free number, to each other's, out of range, reserved).
- `MaxDepth = 3`: a handler interrupted in its entry by a second one that is itself
  interrupted; an NMI blocks further NMIs until an `iretq`.
- `Console`: eighteen screens from exactly one glyph to two by two, with and without unused
  columns; three characters and a newline per record are enough to wrap, to go back to the
  start of a row and to clear. A CPU logs once and may panic once (`MaxRecords`).
- ELF: a file has a header inside the image that no loader looks at or, without
  relocations, one below it, and one without a size.
- Counters (`MaxId`, `MaxBuffers`, `MaxCalls`, `MaxGrants`) are bounded in guards.

`CHECK_DEADLOCK FALSE` is set where the system stops by design or by bound: a boot
that ended, a halted CPU, all requests used up. The scheduler and tracker runs check
deadlock.

## Fairness

Weak fairness only, and only where the code runs on by itself:

- `FrameAllocator`: merging and a request under way go on; nothing waits. New requests
  are not assumed.
- `Scheduler`: a CPU inside `switch_context` goes on, and `run_userspace` calls it in
  a loop from the idle context. Nothing makes another context give up its CPU, and
  nothing is assumed of it.
- `ContextIds`: a caller that has the lock goes on. Taking the spin lock is not fair.
- `AcpiBoot`: the loader and every started CPU go on, and interrupts that were sent arrive.
  The code has no timeout for a processor that does not answer.
- `Console`: a CPU inside the logger goes on. The spin mutex is not fair; the waiting
  ends because each CPU has finitely many records to write. With CPUs that log
  forever, the code does not promise it.

## Proofs

Eight modules hold theorems (`tlapm M.tla`); they hold for every value of the
constants that satisfies the named assumptions.

- **`FrameAllocatorProofs`** (assumptions of `FrameAllocator`: a positive frame size, a
  table with at least one place, requests for at least one frame, and at least one
  region but no more than fit, in ascending order). `IInv` adds to the properties where the
  cursor is: while merging, the last range starts no later than any region still to
  come; afterwards the cursor is behind every range passed and every block ends
  before it. Proved: types, the exact merge, blocks free and disjoint, panic only with
  a full table, out of memory final, and the refinement of `FrameSource`.
- **`SchedulerProofs`** (any set of CPUs, contexts, signals and address
  spaces; ids of CPUs' idle contexts and of new contexts are distinct naturals). The strengthening says, for
  each place in the switch, which guards the CPU holds and where registers, stack,
  flag and address space of both contexts are. The guards cross the switch, so none
  of the properties is inductive without it. Ten theorems, eight invariants and two
  action properties.
- **`ContextIdsProofs`** (any number of callers, guarded or not; `FirstId` and `MaxId`
  naturals). `IdsInv` adds that the lock has one owner and says
  which ids are in transit. Proved: `IdsUnique`, `QueueFree` and `IdsKept`, which
  needs the lock too: the counter must not have moved between its reading and its writing,
  and whoever gives back an id must hold it.
- **`ConsoleProofs`** (any number of CPUs; a screen holds one glyph, the buffer all
  rows). `IInv` adds that the drawn glyphs lie in columns, above the row of the cursor or in
  it (behind the cursor too, after a carriage return), that the mutex has one
  owner which is writing, and that only the last record shown can still grow. The parts
  need each other: a glyph behind the buffer would panic under the mutex. Proved:
  `InsideScreen`, `GlyphsApart` (a glyph is beside the others or exactly where one was),
  `RecordsWhole`, and that no panicking or halted CPU
  holds the mutex.
- **`InterruptEntryProofs`** (any depth of nesting, `MaxDepth` positive). `EntryInv` says of
  every frame, the interrupted ones included, what is on its stack and in the registers
  at its instruction, as seen by the frame above it: `Seen(i)` is the state the next
  frame will restore. The properties speak of the top frame and of returns only and are
  not inductive: a return makes the frame below the top. Proved: `GsRight`,
  `Transparent`, `FrameAsStruct`.
- **`AcpiBootProofs`**, with the lemmas of **`ApStartupProofs`** about the start (any
  number of processors with ids below 256, any set of MADTs whose entries of one type are
  about different things and name processors that exist: `MadtAssumption`). For the start,
  `SmpInv` says that it is a sequence: all APs but the one at `next` wait or have not run,
  the one at `next` has come as far as the two flags and the interrupts under way tell, and
  the trampoline has its words until it waits. `CellInv` reads off the labels who is in a
  cell, so that `NoBorrowPanic` follows. For the tables, `ParseInv` places each entry of the
  MADT in its array at its rank, and `RouteInv` says that an entry of a redirection table
  is unmasked when, and only when, an interrupt before `irq` belongs there, and `SentInv`
  that it sends to the id the BSP read, or where it was left while it is masked or between
  its two writes. Proved:
  `OwnIdAndStack`, `NoBorrowPanic` and `RoutedAsMadt` without further conditions; `AllReady`
  and `HandledWhereSent` if the BSP recognises itself (`OwnId = BspId`: x2APIC mode, or id
  0), for any destination the firmware left. Otherwise these two are refuted, see
  `SkipsTheBsp` and `OnlyToBsp` above. Facts about
  counting and smallest elements come from the library (end of `AcpiBootProofs`).
- **`BootMemoryProofs`** (any memory map, size of a frame, number of I/O APICs, of table
  entries from six on and of frames a mapping takes: `BootConstantsOK`; of the firmware,
  `MachinesOK`: no file, argument or device window lies in memory it describes as
  conventional). The properties speak of the end of the boot; `Inv` says of every call
  on the way there what it leaves behind. `AllocInv`: what was given away lies below the
  next frame and in a descriptor of free memory, so that `allocated_region`, which
  only knows the first and the next frame, covers it. `GotInv`: the frames of the call
  under way are different ones. `SlotInv`: the entries in use are those above `LastFree`,
  without a gap, so that the search for the next call finds the one it asserts.
  `MapInv` and `TableInv`: the regions of the calls that are over are mapped whole, and
  the table covers files and devices once it is built, tables and argument once
  `map_kernel_arg` has added its two entries. `KernelInv`: the kernel's frames are
  in none of the regions. Sorting is by rank (`Place`); that ranks are different and
  fill the table is counted with the library. Proved: `LoaderKeepsOff`,
  `RegionsSorted` and `LayoutAgreed`, and `KernelKeepsOff` if no bootstrap file is longer
  than its kernel file: it is entered with the length of the kernel file, and run
  `boot_bootstrap` shows what happens otherwise.

Only model-checked: all liveness properties (the prover has no fairness or ENABLED); and
the safety properties of the tracker under any sequence of calls (the boot sequence asks
for one entry at a time, which the proof covers), the ELF loaders and address spaces.
What those say rests on folds over entries or headers and on recursive functions
over the bytes of a buffer (`Resolve`, the relocations), that is on induction over
data, which the installed provers cannot do.

## Not modelled

- Faults raised by the entry code itself, and the stack it switches to: the NMI handler
  has no stack of its own, and the depth of the interrupted stack is not in the model.
- Finding and checksumming the RSDP, the switch to ACPI mode through the SMI port, and
  `IoApic::set_mask`, which nothing calls. The entries of the redirection tables are masked
  before setup, with one destination left in all of them.
- Which top-level entries `mark_range_as_used` marks for a header (`kernel.rs:102`): the
  image lies in the one entry that `find_free_space_and_mark` has marked before.
- The buddy allocator, the UART, the font, xmas_elf: external crates. What the code
  needs of them is in the models that use them.
- Register accessors, CPU feature listing, integer newtypes, UEFI file access, screen
  mode selection, the system call library (constants and one instruction), the
  bootstrap program and the image builder: no state that several steps could bring out
  of order. `KError::demux` never yields an error, but the kernel returns only `Ok(0)`.
- `ipi_wakeup` logs from a handler, but no code sends that interrupt.
- The boot loader's own copy of the framebuffer writer and logger: the algorithm is the
  one in `Console`, with one CPU.
- Colours, and the pixel format the kernel assumes.
- Places the models stop short of, worth knowing when the code around them changes: APs spin
  on `BSP_READY`, which nothing stores (`main.rs:209`); the switch saves the lower half of
  the FS and GS bases and loads all of them (`switch.rs:181`); two exceptions with an error
  code use the macro without one (`interrupt.rs:142`); `spawn` loses the frames of its stack
  when `new_context` fails after it (`list.rs:139`); two CPUs that allocate in two spaces
  could find the same shared page unused (`user_addr_space.rs:307`), which needs APs that run
  contexts; an AP whose LAPIC id is 0 gets the `LogicalCpuId` of the BSP when the BSP has
  another one (`main.rs:195`), and its entry of `IDTS` replaces that of the BSP, whose
  table stays loaded; a frame that `raw_unmap` deallocates stays on the list of its space and
  is deallocated again by `Drop` (`load_elf.rs:321`), which has no effect while
  `frame_dealloc` is empty.
