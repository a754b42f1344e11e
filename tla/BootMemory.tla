------------------------------ MODULE BootMemory ------------------------------
(***************************************************************************)
(* The memory side of the bootloader, from exit_boot_services to the jump   *)
(* into the kernel: bootloader-efi/src/main.rs (efi_main,                   *)
(* construct_unsafe_phys_mem_region_map), mem/frame_allocator.rs,           *)
(* mem/page_allocator.rs and mem/runtime_map.rs.                            *)
(*                                                                          *)
(* The loader builds the kernel's page table with frames of its own         *)
(* allocator, and tells the kernel which physical regions to keep off.  The *)
(* kernel then hands out every other frame (module FrameAllocator, here in  *)
(* its abstract form FrameSource).  What must not happen is that a frame    *)
(* the loader still needs ends up in the kernel's hands.                    *)
(*                                                                          *)
(* Addresses are counted in cells, FrameSize to a frame, so that lengths    *)
(* that are no multiple of a frame occur.  How many frames the tables below *)
(* a top-level entry and the segments of the kernel take is left open       *)
(* between 1 and MaxTake (module KernelElf has the segments themselves).    *)
(***************************************************************************)
EXTENDS TrackedMapper

CONSTANTS
  FrameSize,     \* cells per frame, 4096 bytes
  LowFrame,      \* frame of 0x100000, the first one either allocator uses
  StackFrames,   \* kernel_stack_size in frames
  MaxTake,       \* bound: frames one mapping takes
  MaxRegions,    \* length of unav_phys_mem_regions, 512
  Machines,      \* firmware memory maps, loaded files and devices
  MaxGrants      \* bound: frames the running kernel asks for

VARIABLES
  machine,   \* what the firmware reports and where it put the files
  pc,        \* the call of efi_main under way
  need,      \* frames it has still to take
  got,       \* frames it has taken
  fa,        \* the frame allocator [pos, cur, next]
  taken,     \* frames allocate_frame returned
  tracker,   \* kernel_pml4_table's book-keeping
  p4,        \* kernel_pml4_table's entries: the region each one maps
  mapped,    \* the physical frames mapped, per region
  stack,     \* pages of the stack region that are mapped, and its base page
  frames,    \* gdt and kernel page table, by name
  row,       \* descriptors looked at for them
  regions,   \* unav_phys_mem_regions
  reserved, owned \* what the kernel's frame source works with

vars == <<machine, pc, need, got, fa, taken, tracker, p4, mapped, stack, frames, row, regions,
          reserved, owned>>
table == <<row, regions>>
kernelVars == <<reserved, owned>>

-------------------------------------------------------------------------------
\* Frames and cells.
FrameOf(cell) == cell \div FrameSize
FramesOf(obj) == FrameOf(obj.start) .. FrameOf(obj.start + obj.length - 1)
RegionOf(obj) == [start |-> obj.start, length |-> obj.length]
Page(cell) == [start |-> cell, length |-> FrameSize]
Overlaps(frame, region) ==
  /\ frame * FrameSize < region.start + region.length
  /\ region.start < (frame + 1) * FrameSize

NoFramebuffer == [start |-> 0, length |-> 0]
HasFramebuffer == machine.framebuffer # NoFramebuffer

KERNEL_BYTES_P4 == Entries - 1
BOOTSTRAP_BYTES_P4 == Entries - 2
KERNEL_STACK_P4 == Entries - 3
FRAMEBUFFER_P4 == Entries - 4
KERNEL_ARG_P4 == Entries - 5
PHYS_MEM_P4 == 0

-------------------------------------------------------------------------------
(***************************************************************************)
(* LinearIncFrameAllocator over the memory map.  It only ever moves up, and *)
(* only through descriptors of kind CONVENTIONAL.                           *)
(***************************************************************************)
usable_after_bootloader_exit(d) == d.ty \in {"conventional", "boot_services"}

\* Mutant: memory of the boot services counts as free while files are in it.
MutUsable(d) == usable_after_bootloader_exit(d)

Usable(d) == d.ty = "conventional"
LastFrame(d) == d.frame + d.count - 1
FirstIn(a, d) == IF a.next < d.frame THEN d.frame ELSE a.next
Fits(a, d) == FirstIn(a, d) <= LastFrame(d)

\* The descriptor the next frame comes from: the current one while it lasts,
\* then the next of the iterator that has a frame left; 0 when there is none.
NextDescriptor ==
  LET left == {k \in fa.pos .. Len(machine.map) :
                 Usable(machine.map[k]) /\ Fits(fa, machine.map[k])}
  IN  IF fa.cur # 0 /\ Fits(fa, machine.map[fa.cur]) THEN fa.cur
      ELSE IF left # {} THEN Min(left) ELSE 0

max_phys_addr ==
  Max({(LastFrame(machine.map[k]) + 1) * FrameSize : k \in 1 .. Len(machine.map)})

allocated_region ==
  [start |-> LowFrame * FrameSize, length |-> (fa.next - LowFrame) * FrameSize]

-------------------------------------------------------------------------------
(***************************************************************************)
(* What the firmware reports.  The files come from its allocate_pages, the  *)
(* argument lies on its stack and the windows of the devices are no memory: *)
(* none of them is in memory it still describes as free.                    *)
(***************************************************************************)
Object == [start : Nat, length : Nat \ {0}]
Descriptor == [frame : Nat, count : Nat \ {0}, ty : STRING]
Machine ==
  [map : Seq(Descriptor) \ {<<>>}, kernel : Object, bootstrap : Object, arg : Object,
   framebuffer : Object \cup {NoFramebuffer}, lapic : Nat, io_apics : Seq(Nat)]

\* The files, the argument and the windows of the devices.
LeftBehind(m) ==
  FramesOf(m.kernel) \cup FramesOf(m.bootstrap) \cup FramesOf(m.arg)
  \cup (IF m.framebuffer # NoFramebuffer THEN FramesOf(m.framebuffer) ELSE {})
  \cup {FrameOf(m.lapic)} \cup {FrameOf(a) : a \in Range(m.io_apics)}

ASSUME BootConstantsOK ==
  /\ Entries >= 6
  /\ FrameSize \in Nat \ {0} /\ LowFrame \in Nat /\ StackFrames \in Nat
  /\ MaxTake \in Nat \ {0} /\ MaxRegions \in Nat /\ MaxGrants \in Nat

ASSUME MachinesOK ==
  \A m \in Machines :
    /\ m \in Machine
    /\ \A k \in DOMAIN m.map : m.map[k].ty = "conventional" =>
         (m.map[k].frame .. LastFrame(m.map[k])) \cap LeftBehind(m) = {}

-------------------------------------------------------------------------------
\* The frames a call takes: tables and segments in any number up to MaxTake.
Needs(step) ==
  CASE step \in {"boot_table", "kernel_table", "phys", "gdt"} -> {1}
    [] step \in {"kernel", "bootstrap", "framebuffer", "arg"} -> 1 .. MaxTake
    [] step = "stack" -> {StackFrames + 1 + n : n \in 1 .. MaxTake}
    [] OTHER -> {0}

\* The top-level entry each call asserts it gets.
Slot == [kernel |-> KERNEL_BYTES_P4, bootstrap |-> BOOTSTRAP_BYTES_P4,
         stack |-> KERNEL_STACK_P4, framebuffer |-> FRAMEBUFFER_P4, arg |-> KERNEL_ARG_P4]

Init ==
  /\ machine \in Machines
  /\ pc = "boot_table"
  /\ need = 1
  /\ got = <<>>
  /\ fa = [pos |-> 1, cur |-> 0, next |-> LowFrame]
  /\ taken = {}
  /\ tracker = new
  /\ p4 = [e \in Index |-> "none"]
  /\ mapped = [r \in {"phys", "kernel", "bootstrap", "stack", "framebuffer", "arg"} |-> {}]
  /\ stack = [pages |-> {}, base |-> 0]
  /\ frames = [gdt |-> 0, pml4 |-> 0]
  /\ row = 0 /\ regions = <<>>
  /\ reserved = {}
  /\ owned = {}

\* The objects mapped are all smaller than one top-level entry, and every search
\* goes backwards.
Search == find_free_space_and_mark(tracker, 1, TRUE)
SlotAgrees == pc \in DOMAIN Slot => Search.some /\ Search.index = Slot[pc]

Calling == pc \notin {"kernel_runs", "panic"}

\* The assertion on the entry fails, before the call takes any frame.
WrongSlot ==
  /\ Calling
  /\ ~SlotAgrees
  /\ pc' = "panic"
  /\ need' = 0
  /\ tracker' = Search.tracker
  /\ UNCHANGED <<machine, got, fa, taken, p4, mapped, stack, frames, table, kernelVars>>

\* allocate_frame; every caller panics when there is no frame left.
allocate_frame ==
  /\ Calling
  /\ SlotAgrees
  /\ need > 0
  /\ LET k == NextDescriptor
     IN  IF k = 0
           THEN /\ fa' = [fa EXCEPT !.pos = Len(machine.map) + 1, !.cur = 0]
                /\ pc' = "panic"
                /\ need' = 0
                /\ UNCHANGED <<got, taken>>
           ELSE LET f == FirstIn(fa, machine.map[k])
                IN  /\ fa' = [pos |-> IF k = fa.cur THEN fa.pos ELSE k + 1,
                              cur |-> k, next |-> f + 1]
                    /\ taken' = taken \cup {f}
                    /\ got' = Append(got, f)
                    /\ need' = need - 1
                    /\ UNCHANGED pc
  /\ UNCHANGED <<machine, tracker, p4, mapped, stack, frames, table, kernelVars>>

\* The rest of a call, once it has its frames.
Ready(step) == pc = step /\ need = 0 /\ SlotAgrees
Continue(step) == pc' = step /\ need' \in Needs(step) /\ got' = <<>>
EnterSlot(region) ==
  /\ tracker' = Search.tracker
  /\ p4' = [p4 EXCEPT ![Slot[pc]] = region]

-------------------------------------------------------------------------------
map_boot_stage_page_table ==
  /\ Ready("boot_table")
  /\ Continue("kernel_table")
  /\ UNCHANGED <<machine, fa, taken, tracker, p4, mapped, stack, frames, table, kernelVars>>

create_page_table ==
  /\ Ready("kernel_table")
  /\ frames' = [frames EXCEPT !.pml4 = got[1]]
  /\ Continue("phys")
  /\ UNCHANGED <<machine, fa, taken, tracker, p4, mapped, stack, table, kernelVars>>

\* One frame for the table of 1 GiB pages.  The entry is marked *unused*.
map_physics_memory ==
  /\ Ready("phys")
  /\ tracker' = mark_as_unused(tracker, PHYS_MEM_P4)
  /\ p4' = [p4 EXCEPT ![PHYS_MEM_P4] = "phys"]
  /\ mapped' = [mapped EXCEPT !.phys = 0 .. FrameOf(max_phys_addr - 1)]
  /\ Continue("kernel")
  /\ UNCHANGED <<machine, fa, taken, stack, frames, table, kernelVars>>

\* mark_range_as_used finds the entry already taken and changes nothing.
load_kernel_to_virt_mem ==
  /\ Ready("kernel")
  /\ EnterSlot("kernel")
  /\ mapped' = [mapped EXCEPT !.kernel = FramesOf(machine.kernel) \cup Range(got)]
  /\ Continue("bootstrap")
  /\ UNCHANGED <<machine, fa, taken, stack, frames, table, kernelVars>>

\* Mutant: the last, partly filled frame is forgotten.
MutBootstrapFrames(file) == FrameOf(file.start) .. FrameOf(file.start + file.length) - 1

\* The frame holding the address one past the file is mapped as well.
BootstrapFrames(file) == FrameOf(file.start) .. FrameOf(file.start + file.length)

map_bootstrap ==
  /\ Ready("bootstrap")
  /\ EnterSlot("bootstrap")
  /\ mapped' = [mapped EXCEPT !.bootstrap = BootstrapFrames(machine.bootstrap)]
  /\ Continue("gdt")
  /\ UNCHANGED <<machine, fa, taken, stack, frames, table, kernelVars>>

init_gdt ==
  /\ Ready("gdt")
  /\ frames' = [frames EXCEPT !.gdt = got[1]]
  /\ Continue("stack")
  /\ UNCHANGED <<machine, fa, taken, tracker, p4, mapped, stack, table, kernelVars>>

\* One page more than the stack, "additional size for guarding"; the base that
\* is returned lies one page up.
alloc_and_map_kernel_stack ==
  /\ Ready("stack")
  /\ EnterSlot("stack")
  /\ mapped' = [mapped EXCEPT !.stack = Range(SubSeq(got, 1, StackFrames + 1))]
  /\ stack' = [pages |-> 0 .. StackFrames, base |-> 1]
  /\ IF HasFramebuffer THEN Continue("framebuffer") ELSE Continue("regions")
  /\ UNCHANGED <<machine, fa, taken, frames, table, kernelVars>>

map_framebuffer ==
  /\ Ready("framebuffer")
  /\ EnterSlot("framebuffer")
  /\ mapped' = [mapped EXCEPT !.framebuffer = FramesOf(machine.framebuffer)]
  /\ Continue("regions")
  /\ UNCHANGED <<machine, fa, taken, stack, frames, table, kernelVars>>

-------------------------------------------------------------------------------
DescriptorRegion(d) == [start |-> d.frame * FrameSize, length |-> d.count * FrameSize]

TooMany(rs) == Len(rs) > MaxRegions

\* The memory that is in use, descriptor by descriptor.
PushDescriptor ==
  /\ Ready("regions") /\ row < Len(machine.map)
  /\ LET d == machine.map[row + 1]
         rs == IF usable_after_bootloader_exit(d) THEN regions
               ELSE Append(regions, DescriptorRegion(d))
     IN  IF TooMany(rs)
           THEN Continue("panic") /\ UNCHANGED table
           ELSE row' = row + 1 /\ regions' = rs /\ UNCHANGED <<pc, need, got>>
  /\ UNCHANGED <<machine, fa, taken, tracker, p4, mapped, stack, frames, kernelVars>>

\* The regions behind them, in the order they are written; bootstrap is given the
\* length of the kernel file.
Unavailable ==
  <<allocated_region>>
  \o (IF HasFramebuffer THEN <<RegionOf(machine.framebuffer)>> ELSE <<>>)
  \o <<RegionOf(machine.kernel),
       [start |-> machine.bootstrap.start, length |-> machine.kernel.length],
       Page(machine.lapic)>>
  \o [k \in 1 .. Len(machine.io_apics) |-> Page(machine.io_apics[k])]
  \o <<Page(frames.gdt * FrameSize), Page(frames.pml4 * FrameSize)>>

construct_unsafe_phys_mem_region_map ==
  /\ Ready("regions") /\ row = Len(machine.map)
  /\ LET rs == regions \o Unavailable
     IN  IF TooMany(rs)
           THEN Continue("panic") /\ UNCHANGED regions
           ELSE Continue("arg") /\ regions' = rs
  /\ UNCHANGED <<machine, fa, taken, tracker, p4, mapped, stack, frames, row, kernelVars>>

\* Mutants: the regions are left in the order they were written; the frames
\* taken for the argument's own tables are not recorded.
MutSorted(rs) == rs
MutArgRegions == <<RegionOf(machine.arg)>>

\* sort_unstable_by_key: every region goes to the place that the number of regions
\* not behind it gives it (equal starts, whose order is open, stay as written).
Before(rs, j, k) == rs[j].start < rs[k].start \/ (rs[j].start = rs[k].start /\ j <= k)
Place(rs, k) == Cardinality({j \in DOMAIN rs : Before(rs, j, k)})
Sorted(rs) == [n \in DOMAIN rs |-> rs[CHOOSE k \in DOMAIN rs : Place(rs, k) = n]]

ArgRegions == <<RegionOf(machine.arg), allocated_region>>

map_kernel_arg ==
  /\ Ready("arg")
  /\ EnterSlot("arg")
  /\ mapped' = [mapped EXCEPT !.arg = FramesOf(machine.arg)]
  /\ LET rs == regions \o ArgRegions
     IN  IF TooMany(rs)
           THEN Continue("panic") /\ UNCHANGED regions
           ELSE Continue("switch") /\ regions' = Sorted(rs)
  /\ UNCHANGED <<machine, fa, taken, stack, frames, row, kernelVars>>

\* context_switch loads CR3 and jumps: from here on the kernel's frame source
\* (init_frame_allocator) knows the regions and nothing else.
context_switch ==
  /\ Ready("switch")
  /\ Continue("kernel_runs")
  /\ reserved' = Range(regions)
  /\ UNCHANGED <<machine, fa, taken, tracker, p4, mapped, stack, frames, table, owned>>

Source == INSTANCE FrameSource

\* frame_alloc in the kernel: any block of whole frames below phys_mem_size that
\* the frame source may grant.
frame_alloc(f) ==
  LET block == [start |-> f * FrameSize, size |-> FrameSize]
  IN  /\ pc = "kernel_runs"
      /\ Cardinality(owned) < MaxGrants
      /\ block.start + block.size <= max_phys_addr
      /\ Source!Grant(block)
      /\ UNCHANGED <<machine, pc, need, got, fa, taken, tracker, p4, mapped, stack,
                     frames, table>>

Boot ==
  \/ WrongSlot \/ allocate_frame
  \/ map_boot_stage_page_table \/ create_page_table \/ map_physics_memory
  \/ load_kernel_to_virt_mem \/ map_bootstrap \/ init_gdt \/ alloc_and_map_kernel_stack
  \/ map_framebuffer \/ PushDescriptor \/ construct_unsafe_phys_mem_region_map \/ map_kernel_arg
  \/ context_switch

AllFrames == LowFrame .. FrameOf(max_phys_addr - 1)

Next == Boot \/ \E f \in AllFrames : frame_alloc(f)

Spec == Init /\ [][Next]_vars

-------------------------------------------------------------------------------
\* Shapes; the indexed writes of the region table stay inside it.
TypeOK ==
  /\ pc \in {"boot_table", "kernel_table", "phys", "kernel", "bootstrap", "gdt", "stack",
             "framebuffer", "regions", "arg", "switch", "kernel_runs", "panic"}
  /\ fa.pos \in 1 .. Len(machine.map) + 1
  /\ fa.cur \in 0 .. Len(machine.map)
  /\ fa.next >= LowFrame
  /\ tracker \in Tracker
  /\ Len(regions) <= MaxRegions

\* What the loader still needs once the kernel runs.
LiveFrames == taken \cup LeftBehind(machine)

OwnedFrames == {FrameOf(b.start) : b \in owned}

\* No frame the kernel's allocator hands out is a page table, stack, file, device
\* window or argument the bootloader left behind (main.rs:256-262): the regions
\* handed over cover them all, the frames taken while the last ones were written
\* included.
KernelKeepsOff == OwnedFrames \cap LiveFrames = {}

\* The loader's own allocations, page by page until the jump, never hit a loaded
\* file, the stack it stands on or a device window.
LoaderKeepsOff == taken \cap LeftBehind(machine) = {}

\* "caller should ensure the regions is sorted by MemoryRegion.start"
\* (kernel/src/mem/frame_allocator.rs:86): the kernel merges them in one pass.
RegionsSorted ==
  pc \in {"switch", "kernel_runs"} =>
    \A j, k \in 1 .. Len(regions) : j < k => regions[j].start <= regions[k].start

\* When the kernel starts, the top-level entries are the ones shared/src/lib.rs
\* fixes, each object is mapped whole, and the page table itself is reachable.
LayoutAgreed ==
  pc = "kernel_runs" =>
    /\ p4[KERNEL_BYTES_P4] = "kernel" /\ p4[BOOTSTRAP_BYTES_P4] = "bootstrap"
    /\ p4[KERNEL_STACK_P4] = "stack" /\ p4[FRAMEBUFFER_P4] = "framebuffer"
    /\ p4[KERNEL_ARG_P4] = "arg" /\ p4[PHYS_MEM_P4] = "phys"
    /\ FramesOf(machine.bootstrap) \subseteq mapped.bootstrap
    /\ FramesOf(machine.arg) \subseteq mapped.arg
    /\ Cardinality(mapped.stack) = StackFrames + 1
    /\ taken \subseteq mapped.phys

-------------------------------------------------------------------------------
(***************************************************************************)
(* What the source says and the code does not do.                           *)
(***************************************************************************)
\* "failed to initialize framebuffer logger, use uefi stdout logger as fallback"
\* (main.rs:71): a machine without a framebuffer still boots, as long as there
\* are frames and room for the regions.
BootsWithoutFramebuffer ==
  ~HasFramebuffer /\ pc = "panic" =>
    NextDescriptor = 0 \/ TooMany(regions \o ArgRegions)

\* "additional size for guarding" (runtime_map.rs:20): the page below the kernel
\* stack is not mapped, so running off the stack faults.
GuardPageUnmapped == stack.base - 1 \notin stack.pages

\* "Only Usable regions can be freely used" (shared/src/arg.rs:14): the frames
\* the kernel hands out are memory the firmware described as usable.
KernelUsesUsable ==
  \A f \in OwnedFrames : \E k \in 1 .. Len(machine.map) :
    /\ usable_after_bootloader_exit(machine.map[k])
    /\ f \in machine.map[k].frame .. LastFrame(machine.map[k])
===============================================================================
