----------------------------- MODULE UserAddrSpace -----------------------------
(***************************************************************************)
(* Address spaces of user programs, kernel/src/mem/user_addr_space.rs, and  *)
(* ContextStorage::spawn (kernel/src/context/list.rs), which creates them.  *)
(*                                                                          *)
(* new maps two pages for buffers in a private table, and setup_kernel then *)
(* replaces entry 0 of the top table, under which they are, by the kernel's *)
(* own.  From there on everything below entry 0 is shared by all spaces and *)
(* the kernel: the first PhysPages pages are 1 GiB pages (runtime_map.rs),  *)
(* the rest is mapped page by page (variable shared).  Addresses are        *)
(* numbers, PageSize to a page.  A loop over pages is one step per page and *)
(* nothing else runs meanwhile: the lock of the space is held, and the only *)
(* CPU that runs contexts does not leave the kernel.                        *)
(***************************************************************************)
EXTENDS Integers, Sequences, SequencesExt, FiniteSets, FiniteSetsExt

CONSTANTS
  PageSize, SmallMax, MediumMax,  \* 4096, 64 and 512
  BasePage,                       \* the base address 0x1000 of spawn
  PhysPages,                      \* pages under the 1 GiB pages
  P1Pages, P2Pages,               \* pages of a page table, of a page directory
  StackPage, StackPages,          \* 0x7f_8000_0000 and 64
  BootPage, BootPages,            \* 0x7f_c000_0000 and the length of bootstrap
  LastPage, Limits,               \* pages of the model; frames there may be
  Contexts, Sizes, MaxBuffers     \* contexts, buffer sizes and buffers of the model

\* Every frame is under the 1 GiB pages, so the buffers end before the windows.
ASSUME LayoutAssumption ==
  /\ 0 < SmallMax /\ SmallMax < MediumMax /\ MediumMax < PageSize
  /\ \A n \in Limits : n <= PhysPages
  /\ BasePage + 2 <= PhysPages /\ 2 * PhysPages <= StackPage
  /\ StackPage + StackPages <= BootPage /\ BootPage + BootPages <= LastPage + 1

VARIABLES
  limit,     \* number of frames
  next,      \* the next frame of the allocator
  shared,    \* the frame of every page below entry 0, 0 for none
  tables,    \* the tables that exist below entry 0
  space,     \* of each context: its address space, or NoSpace
  stack,     \* of each context: the first frame of its kernel stack, 0 for none
  freed,     \* how often each frame was given back
  buffers,   \* the buffers handed out: [base, len]
  op,        \* the loop that is running
  panicked   \* why the kernel stopped, "" if it has not

vars == <<limit, next, shared, tables, space, stack, freed, buffers, op, panicked>>

NoSpace == [pml4 |-> 0]
NoOp == [do |-> "none"]
Boot == -1                     \* a frame of the bootstrap program

Init ==
  /\ limit \in Limits
  /\ next = 1
  /\ shared = [p \in 0 .. LastPage |-> 0]
  /\ tables = {}
  /\ space = [c \in Contexts |-> NoSpace]
  /\ stack = [c \in Contexts |-> 0]
  /\ freed = [f \in 1 .. Max(Limits) |-> 0]
  /\ buffers = <<>>
  /\ op = NoOp
  /\ panicked = ""

Ready == op = NoOp /\ panicked = ""
Panic(reason) ==
  panicked' = reason /\ UNCHANGED <<limit, next, shared, tables, space, stack, freed, buffers, op>>

-------------------------------------------------------------------------------
Mapped(page) == page < PhysPages \/ shared[page] # 0
Missing(page) == {<<1, page \div P1Pages>>, <<2, page \div P2Pages>>} \ tables

\* The frames f, f + 1 .. last, as a sequence.
UpTo(f, last) == [k \in 1 .. last - f + 1 |-> f + k - 1]

\* map_to of the space of c, whose new tables take the frames from f on; a table
\* is in pte_frames of the space that needed it first.  with is the space as the
\* caller leaves it; then and done are the values of op and buffers behind it.
MapTo(c, page, frame, f, with, then, done) ==
  LET last == f + Cardinality(Missing(page)) - 1
  IN  IF Mapped(page) THEN Panic("map")
      ELSE IF last > limit THEN Panic("frames")
      ELSE /\ shared' = [shared EXCEPT ![page] = frame]
           /\ tables' = tables \cup Missing(page)
           /\ space' = [space EXCEPT ![c] = [with EXCEPT !.pte_frames = @ \o UpTo(f, last)]]
           /\ next' = last + 1
           /\ op' = then /\ buffers' = done
           /\ UNCHANGED <<limit, stack, freed, panicked>>

\* spawn up to the loop over the stack: the stack, then UserAddrSpace::new, with
\* the tables of level 3, 2 and 1 for the two pages at the base.
SpawnFrames == StackPages + 1 + 2 + 3
NewSpace(f) ==
  [pml4 |-> f,
   small |-> <<[frame |-> f + 1, index |-> 0]>>, small_pointer |-> 0,
   medium |-> <<[frame |-> f + 2, index |-> 1]>>, medium_pointer |-> 0,
   large |-> <<>>, pte_frames |-> UpTo(f + 3, f + 5), consumed |-> 2]

Spawn(c) ==
  /\ Ready /\ space[c] = NoSpace /\ stack[c] = 0
  /\ IF next + StackPages - 1 > limit      \* Err(ENOMEM); the allocator stays empty
       THEN /\ next' = limit + 1
            /\ UNCHANGED <<limit, shared, tables, space, stack, freed, buffers, op, panicked>>
     ELSE IF next + SpawnFrames - 1 > limit THEN Panic("frames")
     ELSE /\ stack' = [stack EXCEPT ![c] = next]
          /\ space' = [space EXCEPT ![c] = NewSpace(next + StackPages)]
          /\ next' = next + SpawnFrames
          /\ op' = [do |-> "stack", context |-> c, k |-> 0]
          /\ UNCHANGED <<limit, shared, tables, freed, buffers, panicked>>

\* raw_map_to of one page of the stack; after the last one spawn returns.
MapStack ==
  /\ op.do = "stack" /\ panicked = ""
  /\ MapTo(op.context, StackPage + op.k, stack[op.context] + op.k, next, space[op.context],
           IF op.k + 1 = StackPages THEN NoOp ELSE [op EXCEPT !.k = @ + 1], buffers)

\* _start, after the first spawn: bootstrap appears in its window.
MapBootstrap ==
  /\ Ready
  /\ \E c \in Contexts : stack[c] # 0
  /\ shared' = [p \in DOMAIN shared |->
                  IF p \in BootPage .. BootPage + BootPages - 1 THEN Boot ELSE shared[p]]
  /\ UNCHANGED <<limit, next, tables, space, stack, freed, buffers, op, panicked>>

-------------------------------------------------------------------------------
\* Mutant: the counter alone says where the next page is.
MutNextUnused(sp) == sp.consumed

\* next_page_unused: the counter goes past every page that is mapped.
NextUnused(sp) == Min({n \in sp.consumed .. LastPage - BasePage : ~Mapped(BasePage + n)})

Fits(size, pointer) == size + pointer <= PageSize

Buffer(index, size) == [base |-> (BasePage + index) * PageSize, len |-> size]

\* The next three are alloc for a small, a medium and a large size.  There is room
\* in the last page, and the buffer is at the start of it all the same.
AllocInPage(c, size, pages, pointer) ==
  /\ Fits(size, space[c][pointer])
  /\ space' = [space EXCEPT ![c][pointer] = @ + size]
  /\ buffers' = Append(buffers, Buffer(Last(space[c][pages]).index, size))
  /\ UNCHANGED <<limit, next, shared, tables, stack, freed, op, panicked>>

\* There is no room: a new page, whose frame is taken before its place is sought.
AllocNewPage(c, size, pages, pointer) ==
  LET n == NextUnused(space[c])
      page == [frame |-> next, index |-> n]
  IN  /\ ~Fits(size, space[c][pointer])
      /\ IF next > limit THEN Panic("frames")
         ELSE MapTo(c, BasePage + n, next, next + 1,
                    [space[c] EXCEPT ![pages] = Append(@, page), !.consumed = n + 1,
                                     ![pointer] = size],
                    NoOp, Append(buffers, Buffer(n, size)))

\* Mutant: the last page is left out when the size is not a multiple of the page size.
MutRequiredPages(size) == size \div PageSize

RequiredPages(size) == (size + PageSize - 1) \div PageSize

AllocLarge(c, size) ==
  LET n == NextUnused(space[c])
  IN  /\ space' = [space EXCEPT ![c].consumed = n]
      /\ op' = [do |-> "large", context |-> c, index |-> n, size |-> size, k |-> 0]
      /\ UNCHANGED <<limit, next, shared, tables, stack, freed, buffers, panicked>>

Alloc(c, size) ==
  /\ Ready /\ space[c] # NoSpace /\ Len(buffers) < MaxBuffers
  /\ \/ /\ size <= SmallMax
        /\ \/ AllocInPage(c, size, "small", "small_pointer")
           \/ AllocNewPage(c, size, "small", "small_pointer")
     \/ /\ SmallMax < size /\ size <= MediumMax
        /\ \/ AllocInPage(c, size, "medium", "medium_pointer")
           \/ AllocNewPage(c, size, "medium", "medium_pointer")
     \/ MediumMax < size /\ AllocLarge(c, size)

\* One turn of the loop over the pages of a large buffer.
MapLarge ==
  /\ op.do = "large" /\ panicked = "" /\ op.k < RequiredPages(op.size)
  /\ IF next > limit THEN Panic("frames")
     ELSE MapTo(op.context, BasePage + op.index + op.k, next, next + 1,
                [space[op.context] EXCEPT !.large = Append(@, next)],
                [op EXCEPT !.k = @ + 1], buffers)

AllocDone ==
  /\ op.do = "large" /\ panicked = "" /\ op.k = RequiredPages(op.size)
  /\ space' = [space EXCEPT ![op.context].consumed = @ + op.k]
  /\ buffers' = Append(buffers, Buffer(op.index, op.size))
  /\ op' = NoOp
  /\ UNCHANGED <<limit, next, shared, tables, stack, freed, panicked>>

-------------------------------------------------------------------------------
Efault == <<[error |-> "EFAULT"]>>
PageOf(addr) == addr \div PageSize
\* translate_page fails under a 1 GiB page.
Translates(addr) == PageOf(addr) >= PhysPages /\ Mapped(PageOf(addr))
Slice(addr, n) == [frame |-> shared[PageOf(addr)], offset |-> addr % PageSize, len |-> n]

\* Mutant: the slice goes to the end of the page also when the buffer ends before.
MutSliceLen(addr, remain) == PageSize - (addr % PageSize)

SliceLen(addr, remain) == Min({PageSize - (addr % PageSize), remain})

\* resolve: one slice for a short buffer, one per page for a longer one.
Resolve(b) ==
  LET From[done \in 0 .. b.len + PageSize] ==
        IF done >= b.len THEN <<>>
        ELSE IF ~Translates(b.base + done) THEN Efault
        ELSE LET n == SliceLen(b.base + done, b.len - done)
                 rest == From[done + n]
             IN  IF rest = Efault THEN Efault ELSE <<Slice(b.base + done, n)>> \o rest
  IN  IF b.len > MediumMax THEN From[0]
      ELSE IF Translates(b.base) THEN <<Slice(b.base, b.len)>> ELSE Efault

Frames(sp) ==
  [k \in 1 .. Len(sp.small) |-> sp.small[k].frame]
  \o [k \in 1 .. Len(sp.medium) |-> sp.medium[k].frame]
  \o sp.large \o sp.pte_frames \o <<sp.pml4>>

\* Mutant: the frames of the page tables are forgotten.
MutFreed(sp) == [f \in DOMAIN freed |->
  freed[f] + Cardinality({k \in DOMAIN Frames(sp) : Frames(sp)[k] = f /\ f \notin Range(sp.pte_frames)})]

Freed(sp) == [f \in DOMAIN freed |->
  freed[f] + Cardinality({k \in DOMAIN Frames(sp) : Frames(sp)[k] = f})]

\* The context gets no address space (set_addr_space) and Drop runs.  The pages stay
\* mapped: they are below the shared entry.
Drop(c) ==
  /\ Ready /\ space[c] # NoSpace
  /\ freed' = Freed(space[c])
  /\ space' = [space EXCEPT ![c] = NoSpace]
  /\ UNCHANGED <<limit, next, shared, tables, stack, buffers, op, panicked>>

Next ==
  \/ \E c \in Contexts : Spawn(c) \/ (\E size \in Sizes : Alloc(c, size)) \/ Drop(c)
  \/ MapStack \/ MapBootstrap \/ MapLarge \/ AllocDone

Spec == Init /\ [][Next]_vars

-------------------------------------------------------------------------------
Live == {c \in Contexts : space[c] # NoSpace}
Bytes(b) == b.base .. b.base + b.len - 1
IsLarge(b) == b.len > MediumMax
StackFrames(c) == IF stack[c] = 0 THEN {} ELSE stack[c] .. stack[c] + StackPages - 1

TypeOK ==
  /\ next \in 1 .. limit + 1
  /\ shared \in [0 .. LastPage -> -1 .. limit]
  /\ \A c \in Live : /\ space[c].small_pointer \in 0 .. PageSize
                     /\ space[c].medium_pointer \in 0 .. PageSize
                     /\ space[c].consumed \in 2 .. StackPage
  /\ panicked \in {"", "map", "frames"}

\* Every frame taken for an address space (user_addr_space.rs:88-243, 366-384) is on
\* exactly one of its lists, once, and is no frame of a kernel stack; no two pages
\* share a frame.
OwnedOnce ==
  /\ \A c \in Live : /\ IsInjective(Frames(space[c]))
                     /\ \A d \in Contexts : Range(Frames(space[c])) \cap StackFrames(d) = {}
  /\ \A c, d \in Live : c # d => Range(Frames(space[c])) \cap Range(Frames(space[d])) = {}
  /\ LET pages == {p \in DOMAIN shared : shared[p] > 0}
         used == {shared[p] : p \in pages}
     IN  /\ Cardinality(used) = Cardinality(pages)
         /\ \A f \in used :
              \/ \E c \in Contexts : f \in StackFrames(c)
              \/ freed[f] > 0
              \/ \E c \in Live : f \in Range(Frames(space[c])) \ Range(space[c].pte_frames)

\* Every frame has one owner, and Drop (user_addr_space.rs:386-405) gives back what the
\* space took, each frame once, and never a frame of a kernel stack: nothing of a space
\* that is gone is lost.
DropExact ==
  /\ OwnedOnce
  /\ panicked = "" /\ op = NoOp /\ next <= limit =>
       \A f \in 1 .. next - 1 :
         LET kept == \/ \E c \in Contexts : f \in StackFrames(c)
                     \/ \E c \in Live : f \in Range(Frames(space[c]))
         IN  freed[f] = IF kept THEN 0 ELSE 1

\* A large buffer (user_addr_space.rs:221-243) has its bytes for itself.
LargeApart ==
  \A j, k \in 1 .. Len(buffers) :
    j # k /\ IsLarge(buffers[j]) => Bytes(buffers[j]) \cap Bytes(buffers[k]) = {}

\* resolve (user_addr_space.rs:248-282) of a buffer that is longer than a medium one,
\* wherever it begins in a mapped page, gives every byte once, in order, at the place where its page is
\* mapped, or EFAULT when a page of it is not mapped by a 4 KiB page.
ResolveExact ==
  \A p \in PhysPages - 1 .. BootPage, i \in 0 .. PageSize - 1, len \in MediumMax + 1 .. 2 * PageSize + 1 :
    Mapped(p) =>
    LET base == p * PageSize + i
        b == [base |-> base, len |-> len]
        slices == Resolve(b)
        Places(s) == [n \in 1 .. s.len |-> <<s.frame, s.offset + n - 1>>]
    IN  IF \E a \in Bytes(b) : ~Translates(a) THEN slices = Efault
        ELSE /\ slices # Efault
             /\ FlattenSeq([n \in 1 .. Len(slices) |-> Places(slices[n])]) =
                  [n \in 1 .. len |-> <<shared[PageOf(base + n - 1)], (base + n - 1) % PageSize>>]

\* With one address space, map_to never finds a page in use (user_addr_space.rs:164,
\* 198, 229, 321): alloc and spawn only stop for lack of frames.
OnlyFramesPanic == panicked # "map"

-------------------------------------------------------------------------------
(***************************************************************************)
(* What the source says and the code does not do.                           *)
(***************************************************************************)
\* "small buffer 物理页帧的当前指针，用来定位分配新内存区域的地址"
\* (user_addr_space.rs:39): the pointer gives the address of the next small buffer, so
\* small buffers do not overlap.
SmallApart ==
  \A j, k \in 1 .. Len(buffers) :
    j # k /\ buffers[j].len <= SmallMax /\ buffers[k].len <= SmallMax
      => Bytes(buffers[j]) \cap Bytes(buffers[k]) = {}

\* "resolve userspace buffer to kernel space" (user_addr_space.rs:247), also for a buffer
\* in the pages of new: "index 0 and 1 is used" (user_addr_space.rs:137).
EveryBufferResolves == \A k \in 1 .. Len(buffers) : Resolve(buffers[k]) # Efault

\* "make kernel stack accessible for user space" (list.rs:142): when spawn is over, the
\* window shows the stack of the context that was spawned.
StackAccessible ==
  \A c \in Contexts : stack[c] # 0 /\ (op = NoOp \/ panicked = "map") =>
    \A k \in 0 .. StackPages - 1 : shared[StackPage + k] = stack[c] + k
===============================================================================
