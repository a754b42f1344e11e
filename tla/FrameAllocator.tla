---------------------------- MODULE FrameAllocator ----------------------------
(***************************************************************************)
(* The kernel's physical frame allocator, kernel/src/mem/frame_allocator.rs *)
(* LinearIncFrameAllocator only moves forward: a LinkedRangeIterator walks  *)
(* from 0x100000 upwards and jumps over the memory regions the bootloader   *)
(* declared unavailable.  Nothing is ever given back (frame_dealloc is      *)
(* empty), so the whole correctness of every page table, kernel stack and   *)
(* user page rests on two facts: a block handed out meets no unavailable    *)
(* region, and no block handed out before.                                  *)
(*                                                                          *)
(* The loops of from_memory_regions and next_n are steps of their own; the  *)
(* indices of the code start at 0, those of the sequences here at 1, so     *)
(* ranges[idx + 1] below is `ranges[current_range_index]`.  One caller is   *)
(* inside the allocator at a time: the composition of the callers is the    *)
(* subject of module ApStartup.                                             *)
(***************************************************************************)
EXTENDS Integers, Sequences

CONSTANTS
  Window,         \* bytes per frame (PAGE_SIZE)
  Start,          \* first address ever tried (0x100000)
  PhysMemSize,    \* phys_mem_size
  MaxRangeCount,  \* MAX_RANGE_COUNT, 512
  RegionLists,    \* the unavailable regions a bootloader may pass
  Counts,         \* the frame counts callers ask for
  MaxCalls        \* bound: requests per behaviour

(***************************************************************************)
(* The bootloader sorts the regions (map_kernel_arg) and always writes some *)
(* (the frames it allocated, the APIC, the loaded files).  Every caller     *)
(* asks for at least one frame.                                             *)
(***************************************************************************)
ASSUME ConstantsOK ==
  /\ Window \in Nat \ {0}
  /\ Start \in Nat
  /\ PhysMemSize \in Nat
  /\ MaxRangeCount \in Nat \ {0}
  /\ Counts \subseteq Nat \ {0}
  /\ MaxCalls \in Nat

ASSUME RegionListsOK ==
  \A rs \in RegionLists :
    /\ rs \in Seq([start : Nat, length : Nat])
    /\ Len(rs) \in 1 .. MaxRangeCount
    /\ \A i, j \in 1 .. Len(rs) : i <= j => rs[i].start <= rs[j].start

VARIABLES
  regions,        \* unav_regions, fixed at boot
  pc,             \* where the (only) call is
  i,              \* loop index of from_memory_regions
  ranges,         \* merged_stack, later LinkedRangeIterator.ranges
  idx,            \* initial_index, later current_range_index
  current_value,  \* LinkedRangeIterator.current_value
  curr,           \* the local `curr` of next_n
  count,          \* the argument of the request being served
  blocks,         \* history: every block handed out
  oom,            \* history: a request has been answered with None
  calls           \* number of requests so far

iterVars == <<regions, i, ranges>>
vars == <<regions, pc, i, ranges, idx, current_value, curr, count,
          blocks, oom, calls>>

-------------------------------------------------------------------------------
\* Half-open ranges, as Range<u64> of the code.
EndOf(region) == region.start + region.length
ToRange(region) == [start |-> region.start, end |-> EndOf(region)]
Contains(range, a) == range.start <= a /\ a < range.end

\* phys_start_addr is the base of P4 slot PHYS_MEM_P4 = 0, so the virtual and
\* the physical address of a frame are the same number.
base_address == 0
phys_mem_right_boundary == base_address + PhysMemSize

required_size == Window * count

-------------------------------------------------------------------------------
Init ==
  /\ regions \in RegionLists
  /\ pc = "merge"
  /\ i = 2
  /\ ranges = <<ToRange(regions[1])>>
  /\ idx = 0
  /\ current_value = Start
  /\ curr = 0
  /\ count = 0
  /\ blocks = {}
  /\ oom = FALSE
  /\ calls = 0

(***************************************************************************)
(* from_memory_regions: fold the sorted regions into disjoint ranges.       *)
(***************************************************************************)
\* Mutant: a region inside the top range cuts the range short.
MutShrink(peek, r) == EndOf(r)

StartsBeyond(peek, r) == peek.end < r.start
MergedEnd(peek, r) == IF peek.end < EndOf(r) THEN EndOf(r) ELSE peek.end

MergeInto(stack, r) ==
  LET n == Len(stack)
  IN  IF StartsBeyond(stack[n], r)
        THEN Append(stack, ToRange(r))
        ELSE [stack EXCEPT ![n].end = MergedEnd(stack[n], r)]

MergeRegion ==
  /\ pc = "merge"
  /\ i <= Len(regions)
  /\ ranges' = MergeInto(ranges, regions[i])
  /\ i' = i + 1
  /\ UNCHANGED <<regions, pc, idx, current_value, curr, count, blocks, oom, calls>>

MergeDone ==
  /\ pc = "merge"
  /\ i > Len(regions)
  /\ pc' = "index"
  /\ i' = 1
  /\ UNCHANGED <<regions, ranges, idx, current_value, curr, count, blocks, oom, calls>>

\* The ranges that end at or before Start are skipped for good.
InitialIndex ==
  /\ pc = "index"
  /\ i <= Len(ranges)
  /\ idx' = IF ranges[i].end <= Start THEN i ELSE idx
  /\ i' = i + 1
  /\ UNCHANGED <<regions, pc, ranges, current_value, curr, count, blocks, oom, calls>>

InitDone ==
  /\ pc = "index"
  /\ i > Len(ranges)
  /\ pc' = "ready"
  /\ UNCHANGED <<regions, i, ranges, idx, current_value, curr, count, blocks, oom, calls>>

-------------------------------------------------------------------------------
(***************************************************************************)
(* frame_alloc_n(n), frame_alloc() for n = 1.                               *)
(***************************************************************************)
Request(n) ==
  /\ pc = "ready"
  /\ calls < MaxCalls
  /\ calls' = calls + 1
  /\ count' = n
  /\ pc' = "next"
  /\ UNCHANGED <<iterVars, idx, current_value, curr, blocks, oom>>

Advanced == current_value + required_size
OutOfMemory(r) == r + required_size > phys_mem_right_boundary

\* What allocate_frames makes of the address next_n returns.  The iterator has
\* advanced already: a request that does not fit uses up the addresses it tried.
Answer(r) ==
  /\ pc' = "ready"
  /\ current_value' = Advanced
  /\ IF OutOfMemory(r)
       THEN oom' = TRUE /\ UNCHANGED blocks
       ELSE /\ blocks' = blocks \cup {[start |-> base_address + r, size |-> required_size]}
            /\ UNCHANGED oom
  /\ UNCHANGED <<iterVars, idx, curr, count, calls>>

\* "iterates over the last range"
ReturnPastLast ==
  /\ pc = "next"
  /\ idx = Len(ranges)
  /\ Answer(current_value)

\* "if not overlapped with next range"
MutFitsBefore(range) == current_value <= range.start
FitsBefore(range) == current_value + required_size <= range.start

ReturnBeforeRange ==
  /\ pc = "next"
  /\ idx < Len(ranges)
  /\ FitsBefore(ranges[idx + 1])
  /\ Answer(current_value)

\* "make current value overlap with current range"
EnterRange ==
  /\ pc = "next"
  /\ idx < Len(ranges)
  /\ ~FitsBefore(ranges[idx + 1])
  /\ current_value' = Advanced
  /\ curr' = Advanced
  /\ pc' = "skip"
  /\ UNCHANGED <<iterVars, idx, count, blocks, oom, calls>>

MutSkipInside ==
  /\ pc = "skip"
  /\ Contains(ranges[idx + 1], curr)
  /\ UNCHANGED vars

SkipInside ==
  /\ pc = "skip"
  /\ Contains(ranges[idx + 1], curr)
  /\ curr' = curr + required_size
  /\ UNCHANGED <<iterVars, pc, idx, current_value, count, blocks, oom, calls>>

\* The range after the one just left is read even when there is none: slot
\* MAX_RANGE_COUNT does not exist (index panic), and a slot past range_size was
\* never written, so the comparison may come out either way.
NextOverlaps(n) ==
  IF n < Len(ranges) THEN {Contains(ranges[n + 1], curr)} ELSE BOOLEAN

\* Mutant: the array is exactly as long as the list of ranges.
MutPastArray(n) == n = Len(ranges)

LoopAgain(overlapped, n) == overlapped /\ n < Len(ranges)
PastArray(n) == n = MaxRangeCount

LeaveRange ==
  /\ pc = "skip"
  /\ ~Contains(ranges[idx + 1], curr)
  /\ idx' = idx + 1
  /\ \/ /\ PastArray(idx + 1)
        /\ pc' = "panicked"
        /\ UNCHANGED current_value
     \/ /\ ~PastArray(idx + 1)
        /\ \E overlapped \in NextOverlaps(idx + 1) :
             IF LoopAgain(overlapped, idx + 1)
               THEN UNCHANGED <<pc, current_value>>
               ELSE pc' = "next" /\ current_value' = curr
  /\ UNCHANGED <<iterVars, curr, count, blocks, oom, calls>>

NextN == ReturnPastLast \/ ReturnBeforeRange \/ EnterRange \/ SkipInside \/ LeaveRange

Boot == MergeRegion \/ MergeDone \/ InitialIndex \/ InitDone

Next == Boot \/ NextN \/ \E n \in Counts : Request(n)

Spec == Init /\ [][Next]_vars

\* The code between a request and its answer runs without waiting for anyone.
FairSpec == Spec /\ WF_vars(Boot) /\ WF_vars(NextN)

-------------------------------------------------------------------------------
Range == [start : Nat, end : Nat]
Block == [start : Nat, size : Nat \ {0}]

(***************************************************************************)
(* Shapes, and where the loop index may point: the inner loops of next_n    *)
(* only run while current_range_index names a range.                        *)
(***************************************************************************)
TypeOK ==
  /\ regions \in Seq([start : Nat, length : Nat])
  /\ pc \in {"merge", "index", "ready", "next", "skip", "panicked"}
  /\ i \in Nat \ {0}
  /\ ranges \in Seq(Range)
  /\ Len(ranges) \in 1 .. MaxRangeCount
  /\ idx \in 0 .. Len(ranges)
  /\ pc = "skip" => idx < Len(ranges)
  /\ current_value \in Nat
  /\ curr \in Nat
  /\ count \in Counts \cup {0}
  /\ pc \in {"next", "skip"} => count \in Counts
  /\ blocks \subseteq Block
  /\ oom \in BOOLEAN
  /\ calls \in 0 .. MaxCalls

\* "ranges without intersect, end exclusive": what from_memory_regions builds is
\* ascending, and there is a gap between any two ranges.
RangesSeparated ==
  \A j, k \in 1 .. Len(ranges) : j < k => ranges[j].end < ranges[k].start

\* Merging neither loses an unavailable region nor takes free memory away: each
\* region merged so far lies in one range, each address of a range in a region.
MergeExact ==
  pc # "merge" =>
    /\ \A k \in 1 .. Len(regions) : \E j \in 1 .. Len(ranges) :
         ranges[j].start <= regions[k].start /\ EndOf(regions[k]) <= ranges[j].end
    /\ \A j \in 1 .. Len(ranges) : \A a \in ranges[j].start .. ranges[j].end - 1 :
         \E k \in 1 .. Len(regions) : Contains(ToRange(regions[k]), a)

\* No block that allocate_frames hands out meets a region the bootloader
\* declared unavailable.
BlocksAvoidRegions ==
  \A b \in blocks : \A k \in 1 .. Len(regions) :
    b.start + b.size <= regions[k].start \/ EndOf(regions[k]) <= b.start

\* No two blocks share a byte: a frame has one owner.
BlocksDisjoint ==
  \A b, c \in blocks :
    b # c => b.start + b.size <= c.start \/ c.start + c.size <= b.start

\* Blocks are whole frames counted from Start, and inside physical memory.
BlocksWithinMemory ==
  \A b \in blocks :
    /\ Start <= b.start
    /\ \E n \in 0 .. b.start : b.start = Start + Window * n
    /\ b.start + b.size <= PhysMemSize

\* Reading one range too many only goes wrong when the table is full.
PanicsOnlyWhenFull ==
  pc = "panicked" => Len(ranges) = MaxRangeCount

\* A request that did not fit has used up the memory it tried: once one request
\* was answered with None, none is ever answered with a frame again, not even a
\* smaller one.
OomIsPermanent == [][oom => blocks' = blocks]_vars

\* Every request is answered (or meets the end of the table), however the
\* ranges lie: the skipping loops of next_n terminate.
RequestsAnswered == pc = "next" ~> pc \in {"ready", "panicked"}

\* The allocator is a FrameSource: every step of its loops either grants one
\* block that is free and not reserved, or changes nothing a caller can see.
Source == INSTANCE FrameSource WITH
  reserved <- {regions[k] : k \in 1 .. Len(regions)}, owned <- blocks

\* allocate_frames implements the abstract source of frames.
ImplementsSource == Source!Spec
===============================================================================
