--------------------------- MODULE BootMemoryProofs ---------------------------
(***************************************************************************)
(* The hand-over of memory from the bootloader to the kernel, for any       *)
(* memory map, any size of a frame and any number of them: the invariant of *)
(* the boot sequence and what follows from it.                              *)
(***************************************************************************)
EXTENDS BootMemory, TLAPS

Steps == {"boot_table", "kernel_table", "phys", "kernel", "bootstrap", "gdt", "stack",
          "framebuffer", "regions", "arg", "switch", "kernel_runs", "panic"}

\* The allocator has moved over every frame it gave away, and each one is in
\* memory the firmware describes as free.
InFree(m, f) ==
  \E k \in DOMAIN m.map : Usable(m.map[k]) /\ f \in m.map[k].frame .. LastFrame(m.map[k])
AllocInv ==
  /\ machine \in Machines
  /\ fa \in [pos : 1 .. Len(machine.map) + 1, cur : 0 .. Len(machine.map), next : Nat]
  /\ fa.next >= LowFrame
  /\ fa.cur # 0 => Usable(machine.map[fa.cur])
  /\ taken \subseteq Nat
  /\ \A f \in taken : LowFrame <= f /\ f < fa.next /\ InFree(machine, f)

\* The frames of the call under way are different ones, and as many as it needs.
GotInv ==
  /\ pc \in Steps
  /\ need \in Nat
  /\ got \in Seq(Nat)
  /\ \A k \in DOMAIN got : got[k] < fa.next
  /\ \A j, k \in DOMAIN got : j < k => got[j] < got[k]
  /\ pc # "panic" => need + Len(got) \in Needs(pc)

\* The entries of the top-level table are taken from above, without a gap.
Taken(l) == [used |-> [e \in Index |-> e \notin 0 .. l], first |-> 0, last |-> l]
LastFree(step) ==
  CASE step \in {"boot_table", "kernel_table", "phys", "kernel"} -> Entries - 1
    [] step = "bootstrap" -> Entries - 2
    [] step \in {"gdt", "stack"} -> Entries - 3
    [] step = "framebuffer" -> Entries - 4
    [] step \in {"regions", "arg"} -> IF HasFramebuffer THEN Entries - 5 ELSE Entries - 4
    [] OTHER -> Entries - 6

\* The calls that fill an entry, and those of them that are over when this one is under way.
Filled == {"phys", "kernel", "bootstrap", "stack", "framebuffer", "arg"}
Over(step) ==
  CASE step \in {"boot_table", "kernel_table", "phys"} -> {}
    [] step = "kernel" -> {"phys"}
    [] step = "bootstrap" -> {"phys", "kernel"}
    [] step \in {"gdt", "stack"} -> {"phys", "kernel", "bootstrap"}
    [] step = "framebuffer" -> {"phys", "kernel", "bootstrap", "stack"}
    [] step \in {"regions", "arg"} ->
         {"phys", "kernel", "bootstrap", "stack"} \cup IF HasFramebuffer THEN {"framebuffer"} ELSE {}
    [] OTHER -> {"phys", "kernel", "bootstrap", "stack", "framebuffer", "arg"}
EntryOf(region) == IF region = "phys" THEN PHYS_MEM_P4 ELSE Slot[region]

SlotInv ==
  pc # "panic" =>
    /\ tracker = Taken(LastFree(pc))
    /\ DOMAIN p4 = Index
    /\ \A r \in Over(pc) : p4[EntryOf(r)] = r
    /\ pc = "framebuffer" => HasFramebuffer

\* What is mapped is all of what should be, once the call is over.
Whole(region, fs) ==
  CASE region = "phys" -> fs = 0 .. FrameOf(max_phys_addr - 1)
    [] region = "bootstrap" -> FramesOf(machine.bootstrap) \subseteq fs
    [] region = "arg" -> FramesOf(machine.arg) \subseteq fs
    [] region = "stack" -> Cardinality(fs) = StackFrames + 1
    [] OTHER -> TRUE
MapInv ==
  /\ DOMAIN mapped = Filled
  /\ pc # "panic" => \A r \in Over(pc) : Whole(r, mapped[r])

\* The region table: at the jump every frame that is still needed is in one of the
\* regions, and they are sorted.  The bootstrap file is, if it is no longer than the
\* kernel's.
Region == [start : Nat, length : Nat]
Covered(g, rs) == \E k \in DOMAIN rs : Overlaps(g, rs[k])
Files(m) == FramesOf(m.kernel)
  \cup (IF m.bootstrap.length <= m.kernel.length THEN FramesOf(m.bootstrap) ELSE {})
  \cup (IF m.framebuffer # NoFramebuffer THEN FramesOf(m.framebuffer) ELSE {})
  \cup {FrameOf(m.lapic)} \cup {FrameOf(a) : a \in Range(m.io_apics)}
InOrder(rs) == \A j, k \in DOMAIN rs : j < k => rs[j].start <= rs[k].start

TableInv ==
  /\ row \in Nat
  /\ frames \in [gdt : Nat, pml4 : Nat]
  /\ regions \in Seq(Region)
  /\ pc \in {"arg", "switch", "kernel_runs"} => \A g \in Files(machine) : Covered(g, regions)
  /\ pc \in {"switch", "kernel_runs"} =>
       /\ \A g \in taken \cup FramesOf(machine.arg) : Covered(g, regions)
       /\ InOrder(regions)

\* The kernel's frames are whole ones and in none of the regions.
KernelInv ==
  /\ pc = "kernel_runs" => reserved = Range(regions)
  /\ pc # "kernel_runs" => owned = {}
  /\ \A f \in OwnedFrames : f \in Int /\ ~Covered(f, regions)

Inv == AllocInv /\ GotInv /\ SlotInv /\ MapInv /\ TableInv /\ KernelInv

-------------------------------------------------------------------------------
\* Frames and cells.
LEMMA Products ==
  ASSUME NEW a \in Int, NEW b \in Int, a <= b
  PROVE  /\ a * FrameSize \in Int /\ b * FrameSize \in Int
         /\ a * FrameSize <= b * FrameSize /\ (a + 1) * FrameSize = a * FrameSize + FrameSize
  BY BootConstantsOK, SMT

\* A cell lies in its frame.
LEMMA Quotient ==
  ASSUME NEW n \in Nat
  PROVE  /\ FrameOf(n) \in Nat /\ FrameOf(n) * FrameSize <= n
         /\ n < (FrameOf(n) + 1) * FrameSize
  BY BootConstantsOK, SMT DEF FrameOf

\* The first cell of a frame is in that frame.
LEMMA WholeFrame ==
  ASSUME NEW f \in Nat
  PROVE  f * FrameSize \in Nat /\ FrameOf(f * FrameSize) = f
<1>1. f * FrameSize \in Nat
  BY BootConstantsOK, SMT
<1> DEFINE q == FrameOf(f * FrameSize)
<1>2. q \in Nat /\ q * FrameSize <= f * FrameSize /\ f * FrameSize < (q + 1) * FrameSize
  BY <1>1, Quotient
<1> HIDE DEF q
<1>3. ~(q < f)
  <2> SUFFICES ASSUME q < f PROVE FALSE OBVIOUS
  <2>1. (q + 1) * FrameSize <= f * FrameSize BY <1>2, Products, q + 1 <= f
  <2> QED BY <1>2, <2>1, BootConstantsOK
<1>4. ~(f < q)
  <2> SUFFICES ASSUME f < q PROVE FALSE OBVIOUS
  <2>1. (f + 1) * FrameSize <= q * FrameSize /\ (f + 1) * FrameSize = f * FrameSize + FrameSize
    BY <1>2, Products, f + 1 <= q
  <2>2. q * FrameSize \in Int /\ f * FrameSize \in Int BY <1>2, BootConstantsOK
  <2> QED BY <1>2, <2>1, <2>2, BootConstantsOK
<1> QED BY <1>1, <1>2, <1>3, <1>4 DEF q

\* Every frame with a cell of an object in it overlaps a region that starts there and is
\* as long.
LEMMA ObjectCovered ==
  ASSUME NEW obj \in Object, NEW r \in Region, r.start = obj.start, r.length >= obj.length,
         NEW g \in FramesOf(obj)
  PROVE  Overlaps(g, r)
<1> DEFINE s == obj.start
           e == obj.start + obj.length - 1
<1>1. s \in Nat /\ e \in Nat /\ e < r.start + r.length
  BY DEF Object, Region
<1>2. g \in Int /\ FrameOf(s) <= g /\ g <= FrameOf(e)
  BY DEF FramesOf
<1> HIDE DEF s, e
<1>3. FrameOf(e) \in Nat /\ FrameOf(e) * FrameSize <= e
  BY <1>1, Quotient
<1>4. FrameOf(s) \in Nat /\ s < (FrameOf(s) + 1) * FrameSize
  BY <1>1, Quotient
<1>5. g * FrameSize <= FrameOf(e) * FrameSize /\ g * FrameSize \in Int /\ FrameOf(e) * FrameSize \in Int
  BY <1>2, <1>3, Products
<1>6. (FrameOf(s) + 1) * FrameSize <= (g + 1) * FrameSize
  <2>1. FrameOf(s) + 1 \in Int /\ g + 1 \in Int /\ FrameOf(s) + 1 <= g + 1 BY <1>2, <1>4
  <2> QED BY <2>1, Products
<1>7. g * FrameSize < r.start + r.length
  BY <1>1, <1>3, <1>5 DEF Region
<1>8. r.start < (g + 1) * FrameSize
  <2>1. (FrameOf(s) + 1) * FrameSize \in Int /\ (g + 1) * FrameSize \in Int
    BY <1>2, <1>4, BootConstantsOK
  <2> QED BY <1>1, <1>4, <1>6, <2>1 DEF s
<1> QED BY <1>7, <1>8 DEF Overlaps

\* The frame of a device window.
LEMMA WindowCovered ==
  ASSUME NEW c \in Nat
  PROVE  Page(c) \in Region /\ Overlaps(FrameOf(c), Page(c))
<1>1. Page(c) \in Region /\ Page(c).start = c /\ Page(c).length = FrameSize
  BY BootConstantsOK DEF Page, Region
<1>2. FrameOf(c) \in Nat /\ FrameOf(c) * FrameSize <= c /\ c < (FrameOf(c) + 1) * FrameSize
  BY Quotient
<1>3. FrameOf(c) * FrameSize \in Int
  BY <1>2, BootConstantsOK
<1> QED BY <1>1, <1>2, <1>3, BootConstantsOK DEF Overlaps

\* The region of the allocator has every frame below the next one.
LEMMA AllocatedCovered ==
  ASSUME AllocInv
  PROVE  /\ allocated_region \in Region
         /\ \A f \in taken : Overlaps(f, allocated_region)
<1>1. fa.next \in Nat /\ LowFrame \in Nat /\ LowFrame <= fa.next
  BY BootConstantsOK DEF AllocInv
<1> DEFINE s == LowFrame * FrameSize
           l == (fa.next - LowFrame) * FrameSize
<1>2. s \in Nat /\ l \in Nat /\ s + l = fa.next * FrameSize
  BY <1>1, BootConstantsOK, SMT
<1>3. allocated_region = [start |-> s, length |-> l]
  BY DEF allocated_region
<1> HIDE DEF s, l
<1>4. ASSUME NEW f \in taken PROVE Overlaps(f, allocated_region)
  <2>1. f \in Nat /\ LowFrame <= f /\ f < fa.next BY DEF AllocInv
  <2>2. f * FrameSize \in Int /\ (f + 1) * FrameSize = f * FrameSize + FrameSize
         /\ s <= f * FrameSize
    BY <1>1, <2>1, Products DEF s
  <2>3. (f + 1) * FrameSize <= fa.next * FrameSize
    <3>1. f + 1 \in Int /\ fa.next \in Int /\ f + 1 <= fa.next BY <1>1, <2>1
    <3> QED BY <3>1, Products
  <2> QED BY <1>2, <1>3, <2>2, <2>3, BootConstantsOK DEF Overlaps
<1> QED BY <1>2, <1>3, <1>4 DEF Region

-------------------------------------------------------------------------------
\* What the machine is made of.
LEMMA TheMachine ==
  ASSUME machine \in Machines
  PROVE  /\ machine.map \in Seq(Descriptor) /\ Len(machine.map) \in Nat
         /\ Len(machine.map) # 0 /\ DOMAIN machine.map = 1 .. Len(machine.map)
         /\ \A k \in 1 .. Len(machine.map) : machine.map[k] \in Descriptor
         /\ machine.kernel \in Object /\ machine.bootstrap \in Object /\ machine.arg \in Object
         /\ machine.framebuffer # NoFramebuffer => machine.framebuffer \in Object
         /\ machine.lapic \in Nat /\ machine.io_apics \in Seq(Nat)
<1>1. machine \in Machine
  BY MachinesOK, Zenon
<1>2. machine.map \in Seq(Descriptor) /\ machine.map # <<>>
  BY <1>1, Zenon DEF Machine
<1>3. /\ machine.kernel \in Object /\ machine.bootstrap \in Object /\ machine.arg \in Object
      /\ machine.framebuffer \in Object \cup {NoFramebuffer}
      /\ machine.lapic \in Nat /\ machine.io_apics \in Seq(Nat)
  BY <1>1, Zenon DEF Machine
<1>4. /\ Len(machine.map) \in Nat /\ Len(machine.map) # 0 /\ DOMAIN machine.map = 1 .. Len(machine.map)
      /\ \A k \in 1 .. Len(machine.map) : machine.map[k] \in Descriptor
  BY <1>2
<1> QED BY <1>2, <1>3, <1>4, Zenon

\* Only allocate_frame moves the allocator.
LEMMA Others == [Next]_vars => allocate_frame \/ UNCHANGED <<machine, fa, taken>>
  BY Zenon DEF Next, Boot, vars, WrongSlot, map_boot_stage_page_table, create_page_table,
     map_physics_memory, load_kernel_to_virt_mem, map_bootstrap, init_gdt,
     alloc_and_map_kernel_stack, map_framebuffer, PushDescriptor,
     construct_unsafe_phys_mem_region_map, map_kernel_arg, context_switch, frame_alloc

\* The smallest of several indices is one of them (LeastOf).
Least == \A S \in SUBSET Nat : S # {} => Min(S) \in S

\* The descriptor a frame comes from is a free one with a frame left in it.
LEMMA Descriptors ==
  ASSUME Least, AllocInv, NextDescriptor # 0
  PROVE  /\ NextDescriptor \in 1 .. Len(machine.map)
         /\ NextDescriptor # fa.cur => NextDescriptor \in fa.pos .. Len(machine.map)
         /\ Usable(machine.map[NextDescriptor]) /\ Fits(fa, machine.map[NextDescriptor])
<1> DEFINE left == {k \in fa.pos .. Len(machine.map) :
                      Usable(machine.map[k]) /\ Fits(fa, machine.map[k])}
<1>1. /\ Len(machine.map) \in Nat /\ fa.pos \in 1 .. Len(machine.map) + 1
      /\ fa.cur \in 0 .. Len(machine.map) /\ (fa.cur # 0 => Usable(machine.map[fa.cur]))
  BY TheMachine DEF AllocInv
<1>2. CASE fa.cur # 0 /\ Fits(fa, machine.map[fa.cur])
  <2>1. NextDescriptor = fa.cur BY <1>2, Zenon DEF NextDescriptor
  <2> QED BY <1>1, <1>2, <2>1
<1>3. CASE ~(fa.cur # 0 /\ Fits(fa, machine.map[fa.cur]))
  <2>1. left # {} /\ NextDescriptor = Min(left) BY <1>3, Zenon DEF NextDescriptor
  <2>2. left \in SUBSET Nat BY <1>1
  <2>3. Min(left) \in left BY <2>1, <2>2, Zenon DEF Least
  <2>4. NextDescriptor \in left BY <2>1, <2>3, Zenon
  <2> QED BY <1>1, <2>4
<1> QED BY <1>2, <1>3, Zenon

\* The frame that is given away: not below the next one, and in that descriptor.
LEMMA Frame ==
  ASSUME Least, AllocInv, NextDescriptor # 0
  PROVE  LET d == machine.map[NextDescriptor]
             f == FirstIn(fa, d)
         IN  f \in Nat /\ fa.next <= f /\ f \in d.frame .. LastFrame(d)
<1> DEFINE d == machine.map[NextDescriptor]
<1>1. d \in Descriptor /\ Fits(fa, d)
  BY Descriptors, TheMachine, Zenon DEF AllocInv
<1>2. fa.next \in Nat
  BY DEF AllocInv
<1> HIDE DEF d
<1> SUFFICES /\ FirstIn(fa, d) \in Nat /\ fa.next <= FirstIn(fa, d)
             /\ FirstIn(fa, d) \in d.frame .. LastFrame(d)
  BY DEF d
<1> QED BY <1>1, <1>2 DEF FirstIn, Fits, LastFrame, Descriptor

\* The allocator when the memory map is exhausted.
LEMMA Exhausted ==
  ASSUME NEW l \in Nat, NEW a \in [pos : 1 .. l + 1, cur : 0 .. l, next : Nat]
  PROVE  LET b == [a EXCEPT !.pos = l + 1, !.cur = 0]
         IN  b \in [pos : 1 .. l + 1, cur : 0 .. l, next : Nat] /\ b.next = a.next /\ b.cur = 0
<1> DEFINE b == [a EXCEPT !.pos = l + 1, !.cur = 0]
<1>1. a.next \in Nat /\ DOMAIN a = {"pos", "cur", "next"}
  OBVIOUS
<1>2. b = [f \in {"pos", "cur", "next"} |-> IF f = "pos" THEN l + 1 ELSE IF f = "cur" THEN 0 ELSE a[f]]
  BY <1>1, Zenon
<1> HIDE DEF b
<1>3. b = [pos |-> l + 1, cur |-> 0, next |-> a.next]
  BY <1>2
<1>4. [pos |-> l + 1, cur |-> 0, next |-> a.next] \in [pos : 1 .. l + 1, cur : 0 .. l, next : Nat]
  BY <1>1
<1> QED BY <1>3, <1>4 DEF b

\* Every step keeps what the allocator has given away below the frame it goes on with.
LEMMA AllocStep == ASSUME Least, AllocInv, [Next]_vars PROVE AllocInv'
<1>1. CASE UNCHANGED <<machine, fa, taken>>
  BY <1>1, Zenon DEF AllocInv, InFree
<1>2. CASE allocate_frame
  <2>0. machine' = machine BY <1>2, Zenon DEF allocate_frame
  <2>1. CASE NextDescriptor = 0
    <3>1. fa' = [fa EXCEPT !.pos = Len(machine.map) + 1, !.cur = 0] /\ taken' = taken
      BY <1>2, <2>1, Zenon DEF allocate_frame
    <3>2. Len(machine.map) \in Nat
      BY TheMachine DEF AllocInv
    <3>3. /\ fa' \in [pos : 1 .. Len(machine.map) + 1, cur : 0 .. Len(machine.map), next : Nat]
          /\ fa'.next = fa.next /\ fa'.cur = 0
      <4>1. fa \in [pos : 1 .. Len(machine.map) + 1, cur : 0 .. Len(machine.map), next : Nat]
        BY Zenon DEF AllocInv
      <4> QED BY <3>1, <3>2, <4>1, Exhausted, Zenon
    <3> QED BY <2>0, <3>1, <3>3, Zenon DEF AllocInv, InFree
  <2>2. CASE NextDescriptor # 0
    <3> DEFINE k == NextDescriptor
               f == FirstIn(fa, machine.map[k])
    <3>1. /\ fa' = [pos |-> IF k = fa.cur THEN fa.pos ELSE k + 1, cur |-> k, next |-> f + 1]
          /\ taken' = taken \cup {f}
      BY <1>2, <2>2, Zenon DEF allocate_frame
    <3>2. /\ k \in 1 .. Len(machine.map) /\ (k # fa.cur => k \in fa.pos .. Len(machine.map))
          /\ Usable(machine.map[k])
      BY <2>2, Descriptors, Zenon
    <3>3. f \in Nat /\ fa.next <= f /\ f \in machine.map[k].frame .. LastFrame(machine.map[k])
      BY <2>2, Frame, Zenon
    <3>4. Len(machine.map) \in Nat /\ DOMAIN machine.map = 1 .. Len(machine.map)
      BY TheMachine DEF AllocInv
    <3>5. InFree(machine, f)
      BY <3>2, <3>3, <3>4, Zenon DEF InFree
    <3> HIDE DEF k, f
    <3>6. /\ fa \in [pos : 1 .. Len(machine.map) + 1, cur : 0 .. Len(machine.map), next : Nat]
          /\ fa.next >= LowFrame /\ machine \in Machines
      BY DEF AllocInv
    <3>7. fa' \in [pos : 1 .. Len(machine.map) + 1, cur : 0 .. Len(machine.map), next : Nat]
      BY <3>1, <3>2, <3>3, <3>4, <3>6
    <3>8. fa'.next = f + 1 /\ fa'.cur = k
      BY <3>1
    <3>9. \A g \in taken' : g \in Nat /\ LowFrame <= g /\ g < f + 1 /\ InFree(machine, g)
      <4>1. \A g \in taken : g \in Nat /\ LowFrame <= g /\ g < fa.next /\ InFree(machine, g)
        BY Zenon DEF AllocInv
      <4>2. \A g \in taken : g \in Nat /\ LowFrame <= g /\ g < f + 1 /\ InFree(machine, g)
        BY <3>3, <3>6, <4>1
      <4>3. LowFrame <= f /\ f < f + 1
        BY <3>3, <3>6, BootConstantsOK
      <4> QED BY <3>1, <3>3, <3>5, <4>2, <4>3, Zenon
    <3>10. \A g \in taken' : InFree(machine, g)' 
      BY <2>0, <3>9, Zenon DEF InFree
    <3>11. f + 1 >= LowFrame
      BY <3>3, <3>6, BootConstantsOK
    <3>12. fa'.next >= LowFrame /\ Usable(machine'.map[fa'.cur])
      BY <2>0, <3>2, <3>8, <3>11, Zenon
    <3> QED BY <2>0, <3>6, <3>7, <3>8, <3>9, <3>10, <3>12, Zenon DEF AllocInv
  <2> QED BY <2>1, <2>2, Zenon
<1> QED BY <1>1, <1>2, Others, Zenon

-------------------------------------------------------------------------------
\* How many frames a call takes.
LEMMA NeedsFacts ==
  /\ \A step \in Steps : Needs(step) \subseteq Nat
  /\ \A step \in {"boot_table", "kernel_table", "phys", "gdt"} : Needs(step) = {1}
  /\ \A n \in Needs("stack") : n > StackFrames + 1
  /\ Needs("panic") = {0} /\ Needs("regions") = {0}
  BY BootConstantsOK DEF Needs, Steps

\* A step goes on to the next call, takes a frame, panics on the entry, or stays in the
\* call it is in.
LEMMA Moves ==
  [Next]_vars => \/ allocate_frame \/ WrongSlot
                 \/ UNCHANGED <<pc, need, got>>
                 \/ \E step \in Steps : Continue(step)
<1>1. \A step \in {"kernel_table", "phys", "kernel", "bootstrap", "gdt", "stack", "framebuffer",
                   "regions", "arg", "switch", "kernel_runs", "panic"} : step \in Steps
  BY Zenon DEF Steps
<1> QED
  BY <1>1, Zenon DEF Next, Boot, vars, map_boot_stage_page_table, create_page_table,
     map_physics_memory, load_kernel_to_virt_mem, map_bootstrap, init_gdt,
     alloc_and_map_kernel_stack, map_framebuffer, PushDescriptor,
     construct_unsafe_phys_mem_region_map, map_kernel_arg, context_switch, frame_alloc

\* Every step keeps the frames of the call under way in the order they were taken.
LEMMA GotStep == ASSUME Least, AllocInv, GotInv, [Next]_vars PROVE GotInv'
<1>1. CASE allocate_frame
  <2>1. CASE NextDescriptor = 0
    <3>1. fa' = [fa EXCEPT !.pos = Len(machine.map) + 1, !.cur = 0] /\ pc' = "panic" /\ need' = 0
          /\ got' = got
      BY <1>1, <2>1, Zenon DEF allocate_frame
    <3>2. fa'.next = fa.next BY <3>1 DEF AllocInv
    <3>3. 0 \in Nat /\ "panic" \in Steps BY DEF Steps
    <3> QED BY <3>1, <3>2, <3>3, Zenon DEF GotInv
  <2>2. CASE NextDescriptor # 0
    <3> DEFINE f == FirstIn(fa, machine.map[NextDescriptor])
    <3>1. /\ fa'.next = f + 1 /\ got' = Append(got, f) /\ need' = need - 1 /\ pc' = pc /\ need > 0
      <4>1. /\ got' = Append(got, f) /\ need' = need - 1 /\ pc' = pc /\ need > 0
            /\ fa' = [pos |-> IF NextDescriptor = fa.cur THEN fa.pos ELSE NextDescriptor + 1,
                      cur |-> NextDescriptor, next |-> f + 1]
        BY <1>1, <2>2, Zenon DEF allocate_frame
      <4> QED BY <4>1
    <3>2. f \in Nat /\ fa.next <= f
      BY <2>2, Frame, Zenon
    <3>3. /\ pc \in Steps /\ need \in Nat /\ got \in Seq(Nat)
          /\ \A k \in DOMAIN got : got[k] < fa.next
          /\ \A j, k \in DOMAIN got : j < k => got[j] < got[k]
          /\ pc # "panic" => need + Len(got) \in Needs(pc)
          /\ fa.next \in Nat
      BY Zenon DEF GotInv, AllocInv
    <3> HIDE DEF f
    <3> DEFINE g == Append(got, f)
    <3>4. g \in Seq(Nat) /\ Len(g) = Len(got) + 1 /\ DOMAIN g = 1 .. Len(got) + 1
          /\ DOMAIN got = 1 .. Len(got) /\ Len(got) \in Nat
          /\ g[Len(got) + 1] = f /\ \A k \in 1 .. Len(got) : g[k] = got[k] /\ got[k] \in Nat
      BY <3>2, <3>3
    <3> HIDE DEF g
    <3>5. \A k \in DOMAIN g : g[k] < f + 1
      BY <3>2, <3>3, <3>4, SMTT(60)
    <3>6. \A j, k \in DOMAIN g : j < k => g[j] < g[k]
      <4> SUFFICES ASSUME NEW j \in DOMAIN g, NEW k \in DOMAIN g, j < k PROVE g[j] < g[k] OBVIOUS
      <4>1. j \in 1 .. Len(got) /\ g[j] = got[j] /\ got[j] \in Nat
        BY <3>4
      <4>2. CASE k = Len(got) + 1
        <5>1. got[j] < fa.next BY <3>3, <3>4, <4>1, Zenon
        <5> QED BY <3>2, <3>3, <3>4, <4>1, <4>2, <5>1
      <4>3. CASE k # Len(got) + 1
        <5>1. k \in 1 .. Len(got) BY <3>4, <4>3
        <5> QED BY <3>3, <3>4, <4>1, <5>1, Zenon
      <4> QED BY <4>2, <4>3, Zenon
    <3>7. need - 1 \in Nat /\ need - 1 + Len(g) = need + Len(got)
      BY <3>1, <3>3, <3>4
    <3>8. got' = g BY <3>1 DEF g
    <3> QED BY <3>1, <3>3, <3>4, <3>5, <3>6, <3>7, <3>8, Zenon DEF GotInv
  <2> QED BY <2>1, <2>2, Zenon
<1>2. CASE UNCHANGED fa
  <2>1. CASE WrongSlot
    <3>1. 0 \in Nat /\ "panic" \in Steps BY DEF Steps
    <3> QED BY <1>2, <2>1, <3>1, Zenon DEF GotInv, WrongSlot
  <2>2. CASE UNCHANGED <<pc, need, got>>
    BY <1>2, <2>2, Zenon DEF GotInv
  <2>3. ASSUME NEW step \in Steps, Continue(step) PROVE GotInv'
    <3>1. pc' = step /\ need' \in Needs(step) /\ got' = <<>>
      BY <2>3, Zenon DEF Continue
    <3>2. need' \in Nat BY <3>1, NeedsFacts
    <3>3. got' \in Seq(Nat) /\ DOMAIN got' = {} /\ need' + Len(got') = need'
      <4>1. <<>> \in Seq(Nat) /\ Len(<<>>) = 0 /\ DOMAIN <<>> = {} OBVIOUS
      <4>2. \A n \in Nat : n + 0 = n OBVIOUS
      <4> QED BY <3>1, <3>2, <4>1, <4>2, Zenon
    <3> QED BY <3>1, <3>2, <3>3, Zenon DEF GotInv
  <2>4. CASE allocate_frame BY <1>1, <2>4
  <2> QED BY <2>1, <2>2, <2>3, <2>4, Moves, Zenon
<1> QED BY <1>1, <1>2, Others, Zenon

-------------------------------------------------------------------------------
\* The largest of a set that has one.
LEMMA MaxIs ==
  ASSUME NEW S \in SUBSET Int, NEW x \in S, \A y \in S : y <= x
  PROVE  Max(S) = x
<1>1. \A y \in S : x >= y
  BY Zenon DEF Max
<1>2. Max(S) \in S /\ \A y \in S : Max(S) >= y
  BY <1>1, Zenon DEF Max
<1>3. Max(S) \in Int /\ x \in Int /\ Max(S) <= x /\ Max(S) >= x
  BY <1>2, Zenon
<1> QED BY <1>3

\* One entry is searched for from above: it is the last free one, and then the one
\* below it is.
LEMMA FindTop ==
  ASSUME NEW l \in 1 .. Entries - 1
  PROVE  /\ find_free_space_and_mark(Taken(l), 1, TRUE).some
         /\ find_free_space_and_mark(Taken(l), 1, TRUE).index = l
         /\ find_free_space_and_mark(Taken(l), 1, TRUE).tracker = Taken(l - 1)
<1> DEFINE m == Taken(l)
           used == [m.used EXCEPT ![l] = TRUE]
<1>1. Entries \in Nat /\ EntrySize \in Nat \ {0} /\ l \in Index /\ l \in Nat /\ l # 0
  BY TrackerConstantsOK DEF Index
<1>2. RequiredEntries(1) = 1
  <2>1. 1 + EntrySize - 1 = EntrySize BY <1>1
  <2>2. \A n \in Nat \ {0} : n \div n = 1 BY SMT
  <2> QED BY <1>1, <2>1, <2>2 DEF RequiredEntries
<1>3. m.first = 0 /\ m.last = l /\ m.used = [e \in Index |-> e \notin 0 .. l]
  BY Zenon DEF Taken
<1>4. ~(m.last - m.first + 1 < 1)
  BY <1>1, <1>3
<1>5. CanMark(m, l)
  <2>1. l \in 0 .. l BY <1>1
  <2> QED BY <1>1, <1>3, <2>1, Zenon DEF CanMark
<1>6. used = [e \in Index |-> e \notin 0 .. l - 1]
  <2>1. used = [e \in Index |-> IF e = l THEN TRUE ELSE e \notin 0 .. l]
    BY <1>1, <1>3, Zenon
  <2>2. \A e \in Index : e \notin 0 .. l - 1 <=> e = l \/ e \notin 0 .. l
    BY <1>1 DEF Index
  <2>3. \A e \in Index : (e \notin 0 .. l - 1) = IF e = l THEN TRUE ELSE e \notin 0 .. l
    BY <2>2, Zenon
  <2> HIDE DEF used
  <2> QED BY <2>1, <2>3, Zenon
<1>7. PrevFree(used, l) = l - 1
  <2> DEFINE S == {f \in 0 .. l : ~used[f]} \cup {0}
  <2>1. S = 0 .. l - 1
    <3>1. \A f \in 0 .. l : f \in Index
      BY <1>1 DEF Index
    <3>2. \A f \in 0 .. l : used[f] = (f \notin 0 .. l - 1)
      BY <1>6, <3>1, Zenon
    <3>3. \A f \in 0 .. l - 1 : f \in 0 .. l
      BY <1>1
    <3>4. 0 \in 0 .. l - 1
      BY <1>1
    <3> HIDE DEF used
    <3> QED BY <3>2, <3>3, <3>4, Zenon
  <2>2. l - 1 \in S /\ S \in SUBSET Int /\ \A y \in S : y <= l - 1
    BY <1>1, <2>1
  <2> HIDE DEF S
  <2>3. Max(S) = l - 1
    BY <2>2, MaxIs, Zenon
  <2> QED BY <2>3 DEF S, PrevFree
<1>8. mark_as_used(m, l) = [m EXCEPT !.used = used, !.last = PrevFree(used, l)]
  BY <1>1, <1>3, <1>5, Zenon DEF mark_as_used
<1>9. mark_as_used(m, l) = Taken(l - 1)
  <2>1. [m EXCEPT !.used = used, !.last = l - 1] = [used |-> used, first |-> 0, last |-> l - 1]
    <3>1. m = [used |-> m.used, first |-> 0, last |-> l]
      BY Zenon DEF Taken
    <3> HIDE DEF m, used
    <3>2. DOMAIN m = {"used", "first", "last"} /\ m.first = 0
      BY <3>1
    <3>3. [m EXCEPT !.used = used, !.last = l - 1]
          = [f \in {"used", "first", "last"} |->
               IF f = "used" THEN used ELSE IF f = "last" THEN l - 1 ELSE m[f]]
      BY <3>2, Zenon
    <3> QED BY <3>2, <3>3
  <2> QED BY <1>6, <1>7, <1>8, <2>1, Zenon DEF Taken
<1>10. FindOne(m, TRUE) = Found(mark_as_used(m, l), l, 1)
  BY <1>3, <1>5, Zenon DEF FindOne
<1>11. find_free_space_and_mark(m, 1, TRUE) = FindOne(m, TRUE)
  BY <1>2, <1>4, Zenon DEF find_free_space_and_mark
<1>12. \A t : Found(t, l, 1).some /\ Found(t, l, 1).index = l /\ Found(t, l, 1).tracker = t
  BY DEF Found
<1> QED BY <1>9, <1>10, <1>11, <1>12, Zenon

\* The entries of shared/src/lib.rs are different ones.
LEMMA EntriesApart ==
  /\ \A r \in Filled : EntryOf(r) \in Index
  /\ \A r, s \in Filled : r # s => EntryOf(r) # EntryOf(s)
  BY BootConstantsOK, TrackerConstantsOK DEF Filled, EntryOf, Slot, Index, PHYS_MEM_P4, KERNEL_BYTES_P4,
     BOOTSTRAP_BYTES_P4, KERNEL_STACK_P4, FRAMEBUFFER_P4, KERNEL_ARG_P4

\* What the search finds during the call.
LEMMA SearchFinds ==
  ASSUME SlotInv, pc \in Steps \ {"panic", "switch", "kernel_runs"}
  PROVE  Search.some /\ Search.index = LastFree(pc) /\ Search.tracker = Taken(LastFree(pc) - 1)
<1>1. tracker = Taken(LastFree(pc))
  BY Zenon DEF SlotInv
<1>2. LastFree(pc) \in 1 .. Entries - 1
  BY BootConstantsOK, TrackerConstantsOK DEF LastFree, Steps
<1> QED BY <1>1, <1>2, FindTop, Zenon DEF Search

\* Without a framebuffer the entry of the argument is not the one that is asserted.
LEMMA ArgSlot ==
  ASSUME SlotInv, pc = "arg", SlotAgrees
  PROVE  HasFramebuffer
<1>1. Search.index = LastFree("arg")
  BY SearchFinds DEF Steps
<1>2. Search.index = Entries - 5
  BY DEF SlotAgrees, Slot, KERNEL_ARG_P4
<1>3. Entries \in Nat
  BY TrackerConstantsOK
<1> QED BY <1>1, <1>2, <1>3 DEF LastFree

\* A call that fills its entry leaves the others as they are.
LEMMA Enter ==
  ASSUME SlotInv, pc \in DOMAIN Slot, EnterSlot(pc),
         NEW step \in Steps, pc' = step, machine' = machine,
         step # "panic" => LastFree(step) = LastFree(pc) - 1 /\ Over(step) \subseteq Over(pc) \cup {pc},
         step = "framebuffer" => HasFramebuffer
  PROVE  SlotInv'
<1> SUFFICES ASSUME step # "panic"
             PROVE  (tracker = Taken(LastFree(pc)) /\ DOMAIN p4 = Index
                       /\ \A r \in Over(pc) : p4[EntryOf(r)] = r)'
  BY Zenon DEF SlotInv, HasFramebuffer
<1>1. pc \in {"kernel", "bootstrap", "stack", "framebuffer", "arg"}
  BY DEF Slot
<1>2. tracker' = Taken(LastFree(pc) - 1)
  BY <1>1, SearchFinds DEF EnterSlot, Steps
<1>3. Slot[pc] = EntryOf(pc) /\ pc \in Filled
  BY <1>1 DEF EntryOf, Filled
<1>4. p4' = [p4 EXCEPT ![EntryOf(pc)] = pc] /\ DOMAIN p4 = Index
  BY <1>1, <1>3 DEF EnterSlot, SlotInv
<1>5. EntryOf(pc) \in Index
  BY <1>3, EntriesApart, Zenon
<1>6. Over(pc) \subseteq Filled
  BY <1>1 DEF Over, Filled
<1>7. ASSUME NEW r \in Over(step) PROVE p4'[EntryOf(r)] = r
  <2>1. CASE r = pc
    BY <1>4, <1>5, <2>1, Zenon
  <2>2. CASE r # pc
    <3>1. r \in Over(pc) /\ r \in Filled BY <1>6, <2>2, Zenon
    <3>2. EntryOf(r) # EntryOf(pc) /\ EntryOf(r) \in Index BY <1>3, <2>2, <3>1, EntriesApart, Zenon
    <3>3. p4[EntryOf(r)] = r BY <1>1, <3>1 DEF SlotInv
    <3> QED BY <1>4, <3>2, <3>3, Zenon
  <2> QED BY <2>1, <2>2, Zenon
<1>8. LastFree(pc)' = LastFree(step) /\ Over(pc)' = Over(step)
  BY Zenon DEF LastFree, Over, HasFramebuffer
<1>9. DOMAIN p4' = Index
  BY <1>4, Zenon
<1> QED BY <1>2, <1>7, <1>8, <1>9, Zenon

\* A call that fills none.
LEMMA Leave ==
  ASSUME SlotInv, UNCHANGED <<machine, tracker, p4>>, pc # "panic",
         pc' # "panic" => LastFree(pc') = LastFree(pc) /\ Over(pc') = Over(pc),
         pc' = "framebuffer" => HasFramebuffer
  PROVE  SlotInv'
<1>1. CASE pc' = "panic"
  BY <1>1, Zenon DEF SlotInv
<1>2. CASE pc' # "panic"
  <2>0. HasFramebuffer' = HasFramebuffer BY Zenon DEF HasFramebuffer
  <2>1. LastFree(pc)' = LastFree(pc') /\ Over(pc)' = Over(pc')
    BY Zenon DEF LastFree, Over, HasFramebuffer
  <2> QED BY <1>2, <2>0, <2>1, Zenon DEF SlotInv
<1> QED BY <1>1, <1>2, Zenon

\* What is free and what is filled, from one call to the next.
LEMMA Sequence ==
  /\ LastFree("kernel_table") = LastFree("boot_table") /\ Over("kernel_table") = Over("boot_table")
  /\ LastFree("phys") = LastFree("kernel_table") /\ Over("phys") = Over("kernel_table")
  /\ LastFree("kernel") = LastFree("phys") /\ Over("kernel") = Over("phys") \cup {"phys"}
  /\ LastFree("bootstrap") = LastFree("kernel") - 1 /\ Over("bootstrap") = Over("kernel") \cup {"kernel"}
  /\ LastFree("gdt") = LastFree("bootstrap") - 1 /\ Over("gdt") = Over("bootstrap") \cup {"bootstrap"}
  /\ LastFree("stack") = LastFree("gdt") /\ Over("stack") = Over("gdt")
  /\ LastFree("framebuffer") = LastFree("stack") - 1 /\ Over("framebuffer") = Over("stack") \cup {"stack"}
  /\ ~HasFramebuffer =>
       LastFree("regions") = LastFree("stack") - 1 /\ Over("regions") = Over("stack") \cup {"stack"}
  /\ HasFramebuffer =>
       /\ LastFree("regions") = LastFree("framebuffer") - 1
       /\ Over("regions") = Over("framebuffer") \cup {"framebuffer"}
       /\ LastFree("switch") = LastFree("arg") - 1 /\ Over("switch") = Over("arg") \cup {"arg"}
  /\ LastFree("arg") = LastFree("regions") /\ Over("arg") = Over("regions")
  /\ LastFree("kernel_runs") = LastFree("switch") /\ Over("kernel_runs") = Over("switch")
<1>1. Entries \in Nat BY TrackerConstantsOK
<1> QED BY <1>1 DEF LastFree, Over

\* Every step keeps the entries of the calls that are over filled and the others free.
LEMMA SlotStep == ASSUME GotInv, SlotInv, [Next]_vars PROVE SlotInv'
<1>1. ASSUME WrongSlot \/ allocate_frame PROVE SlotInv'
  <2>1. CASE WrongSlot
    BY <2>1, Zenon DEF SlotInv, WrongSlot
  <2>2. CASE allocate_frame
    <3>1. UNCHANGED <<machine, tracker, p4>> /\ (pc' = pc \/ pc' = "panic") /\ pc # "panic"
      BY <2>2, Zenon DEF allocate_frame, Calling
    <3> QED BY <3>1, Leave, Zenon DEF SlotInv
  <2> QED BY <1>1, <2>1, <2>2, Zenon
<1>2. CASE map_boot_stage_page_table
  <2>1. UNCHANGED <<machine, tracker, p4>> /\ pc = "boot_table" /\ pc' = "kernel_table"
    BY <1>2, Zenon DEF map_boot_stage_page_table, Ready, Continue
  <2> QED BY <2>1, Leave, Sequence, Zenon
<1>3. CASE create_page_table
  <2>1. UNCHANGED <<machine, tracker, p4>> /\ pc = "kernel_table" /\ pc' = "phys"
    BY <1>3, Zenon DEF create_page_table, Ready, Continue
  <2> QED BY <2>1, Leave, Sequence, Zenon
<1>4. CASE map_physics_memory
  <2>1. /\ machine' = machine /\ pc = "phys" /\ pc' = "kernel"
        /\ tracker' = mark_as_unused(tracker, 0) /\ p4' = [p4 EXCEPT ![0] = "phys"]
    BY <1>4, Zenon DEF map_physics_memory, Ready, Continue, PHYS_MEM_P4
  <2>2. tracker = Taken(Entries - 1) /\ DOMAIN p4 = Index
    BY <2>1 DEF SlotInv, LastFree
  <2>3. tracker' = tracker
    <3> DEFINE m == tracker
    <3>1. /\ m.first = 0 /\ m.last = Entries - 1 /\ DOMAIN m = {"used", "first", "last"}
          /\ m.used = [e \in Index |-> e \notin 0 .. Entries - 1] /\ DOMAIN m.used = Index
      BY <2>2 DEF Taken
    <3>2. 0 \in Index /\ 0 \in 0 .. Entries - 1 /\ ~(0 > 0) /\ ~(Entries - 1 < 0)
      BY TrackerConstantsOK DEF Index
    <3>3. m.used[0] = FALSE
      BY <3>1, <3>2, Zenon
    <3>4. [m.used EXCEPT ![0] = FALSE] = m.used
      BY <3>1, <3>3, Zenon
    <3>5. [m EXCEPT !.used = m.used] = m
      <4> DEFINE u == m.used
      <4>1. m = [used |-> u, first |-> 0, last |-> Entries - 1]
        BY <2>2 DEF Taken
      <4> HIDE DEF u
      <4> QED BY <4>1 DEF u
    <3>6. mark_as_unused(m, 0) = [m EXCEPT !.used[0] = FALSE]
      BY <3>1, <3>2, Zenon DEF mark_as_unused
    <3> QED BY <2>1, <3>4, <3>5, <3>6, Zenon
  <2>4. LastFree("kernel") = Entries - 1 /\ Over("kernel") = {"phys"} /\ EntryOf("phys") = 0
    BY DEF LastFree, Over, EntryOf, PHYS_MEM_P4
  <2>5. 0 \in Index
    BY TrackerConstantsOK DEF Index
  <2>6. DOMAIN p4' = Index /\ p4'[0] = "phys"
    BY <2>1, <2>2, <2>5, Zenon
  <2>7. LastFree(pc)' = LastFree("kernel") /\ Over(pc)' = Over("kernel")
    BY <2>1, Zenon DEF LastFree, Over, HasFramebuffer
  <2>8. pc' # "framebuffer" BY <2>1
  <2> QED BY <2>2, <2>3, <2>4, <2>6, <2>7, <2>8, Zenon DEF SlotInv
<1>5. CASE load_kernel_to_virt_mem
  <2>1. machine' = machine /\ pc = "kernel" /\ pc' = "bootstrap" /\ EnterSlot(pc)
    BY <1>5, Zenon DEF load_kernel_to_virt_mem, Ready, Continue
  <2> QED BY <2>1, Enter, Sequence DEF Slot, Steps
<1>6. CASE map_bootstrap
  <2>1. machine' = machine /\ pc = "bootstrap" /\ pc' = "gdt" /\ EnterSlot(pc)
    BY <1>6, Zenon DEF map_bootstrap, Ready, Continue
  <2> QED BY <2>1, Enter, Sequence DEF Slot, Steps
<1>7. CASE init_gdt
  <2>1. UNCHANGED <<machine, tracker, p4>> /\ pc = "gdt" /\ pc' = "stack"
    BY <1>7, Zenon DEF init_gdt, Ready, Continue
  <2> QED BY <2>1, Leave, Sequence, Zenon
<1>8. CASE alloc_and_map_kernel_stack
  <2>1. /\ machine' = machine /\ pc = "stack" /\ EnterSlot(pc)
        /\ pc' = IF HasFramebuffer THEN "framebuffer" ELSE "regions"
    BY <1>8, Zenon DEF alloc_and_map_kernel_stack, Ready, Continue
  <2> QED BY <2>1, Enter, Sequence DEF Slot, Steps
<1>9. CASE map_framebuffer
  <2>1. machine' = machine /\ pc = "framebuffer" /\ pc' = "regions" /\ EnterSlot(pc)
    BY <1>9, Zenon DEF map_framebuffer, Ready, Continue
  <2>2. HasFramebuffer BY <2>1, Zenon DEF SlotInv
  <2> QED BY <2>1, <2>2, Enter, Sequence DEF Slot, Steps
<1>10. CASE PushDescriptor \/ construct_unsafe_phys_mem_region_map
  <2>1. /\ UNCHANGED <<machine, tracker, p4>> /\ pc = "regions"
        /\ pc' = "regions" \/ pc' = "panic" \/ pc' = "arg"
    BY <1>10, Zenon DEF PushDescriptor, construct_unsafe_phys_mem_region_map, Ready, Continue
  <2> QED BY <2>1, Leave, Sequence, Zenon
<1>11. CASE map_kernel_arg
  <2>1. /\ machine' = machine /\ pc = "arg" /\ EnterSlot(pc) /\ SlotAgrees
        /\ pc' = "panic" \/ pc' = "switch"
    BY <1>11, Zenon DEF map_kernel_arg, Ready, Continue
  <2>2. HasFramebuffer BY <2>1, ArgSlot, Zenon
  <2> QED BY <2>1, <2>2, Enter, Sequence DEF Slot, Steps
<1>12. CASE context_switch
  <2>1. UNCHANGED <<machine, tracker, p4>> /\ pc = "switch" /\ pc' = "kernel_runs"
    BY <1>12, Zenon DEF context_switch, Ready, Continue
  <2> QED BY <2>1, Leave, Sequence, Zenon
<1>13. ASSUME UNCHANGED <<machine, pc, tracker, p4>> PROVE SlotInv'
  BY <1>13, Zenon DEF SlotInv, LastFree, Over, HasFramebuffer
<1>14. ASSUME (\E f \in AllFrames : frame_alloc(f)) \/ UNCHANGED vars PROVE SlotInv'
  BY <1>13, <1>14, Zenon DEF frame_alloc, vars
<1> QED BY <1>1, <1>2, <1>3, <1>4, <1>5, <1>6, <1>7, <1>8, <1>9, <1>10, <1>11, <1>12, <1>14, Zenon
        DEF Next, Boot

-------------------------------------------------------------------------------
\* The first frames of a call are as many as they should be (Counts).
Rising(s) == \A j, k \in DOMAIN s : j < k => s[j] < s[k]
Counting ==
  \A s \in Seq(Nat), n \in Nat :
    n <= Len(s) /\ Rising(s) => Cardinality(Range(SubSeq(s, 1, n))) = n

\* The machine stays what it is.
LEMMA Fixed ==
  ASSUME machine' = machine
  PROVE  /\ max_phys_addr' = max_phys_addr
         /\ \A r, fs : Whole(r, fs) => Whole(r, fs)'
<1>1. max_phys_addr' = max_phys_addr
  BY Zenon DEF max_phys_addr
<1>2. ASSUME NEW r, NEW fs, Whole(r, fs) PROVE Whole(r, fs)'
  <2>1. CASE r = "phys" BY <1>1, <1>2, <2>1, Zenon DEF Whole
  <2>2. CASE r # "phys"
    <3> DEFINE b == FramesOf(machine.bootstrap)
               a == FramesOf(machine.arg)
    <3>1. b' = b /\ a' = a BY Zenon
    <3> HIDE DEF a, b
    <3> QED BY <1>2, <2>2, <3>1, Zenon DEF Whole, a, b
  <2> QED BY <2>1, <2>2, Zenon
<1> QED BY <1>1, <1>2, Zenon

\* A step that maps nothing and goes on to no other call keeps what is mapped.
LEMMA MapKeep ==
  ASSUME MapInv, pc # "panic", UNCHANGED <<machine, mapped>>, pc' # "panic" => Over(pc') = Over(pc)
  PROVE  MapInv'
<1>1. CASE pc' = "panic"
  BY <1>1, Zenon DEF MapInv
<1>2. CASE pc' # "panic"
  <2>1. Over(pc)' = Over(pc)
    <3>1. Over(pc)' = Over(pc') BY Zenon DEF Over, HasFramebuffer
    <3> QED BY <1>2, <3>1
  <2>2. \A r, fs : Whole(r, fs) => Whole(r, fs)'
    BY Fixed, Zenon
  <2> QED BY <1>2, <2>1, <2>2, Zenon DEF MapInv
<1> QED BY <1>1, <1>2, Zenon

\* A call that maps its own region whole leaves the regions of the calls before it whole.
LEMMA MapEnter ==
  ASSUME MapInv, pc # "panic", machine' = machine, NEW r \in Filled, NEW fs, Whole(r, fs),
         mapped' = [mapped EXCEPT ![r] = fs],
         pc' # "panic" => Over(pc') \subseteq Over(pc) \cup {r}
  PROVE  MapInv'
<1>0. DOMAIN mapped' = Filled
  BY Zenon DEF MapInv
<1>1. CASE pc' = "panic"
  BY <1>0, <1>1, Zenon DEF MapInv
<1>2. CASE pc' # "panic"
  <2>1. Over(pc)' = Over(pc')
    BY Zenon DEF Over, HasFramebuffer
  <2>2. Over(pc') \subseteq Filled
    BY DEF Over, Filled
  <2>3. \A q, gs : Whole(q, gs) => Whole(q, gs)'
    BY Fixed, Zenon
  <2>4. ASSUME NEW q \in Over(pc') PROVE Whole(q, mapped'[q])
    <3>1. CASE q = r
      BY <3>1, Zenon DEF MapInv
    <3>2. CASE q # r
      <4>1. q \in Over(pc) /\ q \in Filled BY <1>2, <2>2, <3>2, Zenon
      <4>2. mapped'[q] = mapped[q] BY <3>2, <4>1, Zenon DEF MapInv
      <4> QED BY <4>1, <4>2, Zenon DEF MapInv
    <3> QED BY <3>1, <3>2, Zenon
  <2> QED BY <1>0, <2>1, <2>3, <2>4, Zenon DEF MapInv
<1> QED BY <1>1, <1>2, Zenon

\* The file of bootstrap is mapped to its end.
LEMMA BootstrapWhole == ASSUME NEW f \in Object PROVE FramesOf(f) \subseteq BootstrapFrames(f)
<1> DEFINE e == f.start + f.length
<1>1. e - 1 \in Nat /\ e \in Nat BY DEF Object
<1>2. FrameOf(e - 1) <= FrameOf(e)
  <2> HIDE DEF e
  <2>1. /\ FrameOf(e) \in Nat /\ e < (FrameOf(e) + 1) * FrameSize
        /\ FrameOf(e - 1) \in Nat /\ FrameOf(e - 1) * FrameSize <= e - 1
    BY <1>1, Quotient
  <2>2. SUFFICES ASSUME FrameOf(e) + 1 <= FrameOf(e - 1) PROVE FALSE BY <2>1
  <2>3. (FrameOf(e) + 1) * FrameSize <= FrameOf(e - 1) * FrameSize
    <3>1. FrameOf(e) + 1 \in Int /\ FrameOf(e - 1) \in Int BY <2>1
    <3> QED BY <2>2, <3>1, Products
  <2>4. (FrameOf(e) + 1) * FrameSize \in Int /\ FrameOf(e - 1) * FrameSize \in Int
    BY <2>1, BootConstantsOK
  <2> QED BY <1>1, <2>1, <2>3, <2>4
<1>3. FrameOf(e) \in Nat /\ FrameOf(e - 1) \in Nat BY <1>1, Quotient
<1>4. f.start + f.length - 1 = e - 1 BY DEF Object
<1> HIDE DEF e
<1>5. /\ FramesOf(f) = FrameOf(f.start) .. FrameOf(e - 1)
      /\ BootstrapFrames(f) = FrameOf(f.start) .. FrameOf(e)
  BY <1>4, Zenon DEF FramesOf, BootstrapFrames, e
<1>6. FrameOf(f.start) \in Nat BY Quotient DEF Object
<1> QED BY <1>2, <1>3, <1>5, <1>6

\* Every step keeps the regions of the calls that are over mapped whole.
LEMMA MapStep ==
  ASSUME Counting, AllocInv, GotInv, SlotInv, MapInv, [Next]_vars PROVE MapInv'
<1>1. ASSUME WrongSlot \/ allocate_frame PROVE MapInv'
  <2>1. UNCHANGED <<machine, mapped>> /\ (pc' = pc \/ pc' = "panic") /\ pc # "panic"
    BY <1>1, Zenon DEF WrongSlot, allocate_frame, Calling
  <2> QED BY <2>1, MapKeep, Zenon
<1>2. CASE map_boot_stage_page_table
  <2>1. UNCHANGED <<machine, mapped>> /\ pc = "boot_table" /\ pc' = "kernel_table"
    BY <1>2, Zenon DEF map_boot_stage_page_table, Ready, Continue
  <2> QED BY <2>1, MapKeep, Sequence, Zenon
<1>3. CASE create_page_table
  <2>1. UNCHANGED <<machine, mapped>> /\ pc = "kernel_table" /\ pc' = "phys"
    BY <1>3, Zenon DEF create_page_table, Ready, Continue
  <2> QED BY <2>1, MapKeep, Sequence, Zenon
<1>4. CASE map_physics_memory
  <2>1. /\ machine' = machine /\ pc = "phys" /\ pc' = "kernel"
        /\ mapped' = [mapped EXCEPT !["phys"] = 0 .. FrameOf(max_phys_addr - 1)]
    BY <1>4, Zenon DEF map_physics_memory, Ready, Continue
  <2>2. "phys" \in Filled /\ Whole("phys", 0 .. FrameOf(max_phys_addr - 1))
    BY Zenon DEF Filled, Whole
  <2> QED BY <2>1, <2>2, MapEnter, Sequence, Zenon
<1>5. CASE load_kernel_to_virt_mem
  <2> DEFINE fs == FramesOf(machine.kernel) \cup Range(got)
  <2>1. /\ machine' = machine /\ pc = "kernel" /\ pc' = "bootstrap"
        /\ mapped' = [mapped EXCEPT !["kernel"] = fs]
    BY <1>5, Zenon DEF load_kernel_to_virt_mem, Ready, Continue
  <2> HIDE DEF fs
  <2>2. "kernel" \in Filled /\ Whole("kernel", fs)
    BY DEF Filled, Whole
  <2> QED BY <2>1, <2>2, MapEnter, Sequence, Zenon
<1>6. CASE map_bootstrap
  <2>1. /\ machine' = machine /\ pc = "bootstrap" /\ pc' = "gdt"
        /\ mapped' = [mapped EXCEPT !["bootstrap"] = BootstrapFrames(machine.bootstrap)]
    BY <1>6, Zenon DEF map_bootstrap, Ready, Continue
  <2>2. machine.bootstrap \in Object
    BY TheMachine DEF AllocInv
  <2>3. FramesOf(machine.bootstrap) \subseteq BootstrapFrames(machine.bootstrap)
    BY <2>2, BootstrapWhole, Zenon
  <2>4. "bootstrap" \in Filled /\ Whole("bootstrap", BootstrapFrames(machine.bootstrap))
    BY <2>3 DEF Filled, Whole
  <2> QED BY <2>1, <2>4, MapEnter, Sequence, Zenon
<1>7. CASE init_gdt
  <2>1. UNCHANGED <<machine, mapped>> /\ pc = "gdt" /\ pc' = "stack"
    BY <1>7, Zenon DEF init_gdt, Ready, Continue
  <2> QED BY <2>1, MapKeep, Sequence, Zenon
<1>8. CASE alloc_and_map_kernel_stack
  <2> DEFINE fs == Range(SubSeq(got, 1, StackFrames + 1))
  <2>1. /\ machine' = machine /\ pc = "stack" /\ need = 0
        /\ pc' = IF HasFramebuffer THEN "framebuffer" ELSE "regions"
        /\ mapped' = [mapped EXCEPT !["stack"] = fs]
    BY <1>8, Zenon DEF alloc_and_map_kernel_stack, Ready, Continue
  <2>2. Cardinality(fs) = StackFrames + 1
    <3>1. need + Len(got) \in Needs("stack") /\ got \in Seq(Nat)
      BY <2>1 DEF GotInv
    <3>2. StackFrames + 1 <= Len(got) /\ StackFrames + 1 \in Nat
      BY <2>1, <3>1, NeedsFacts, BootConstantsOK
    <3>3. Rising(got) BY Zenon DEF GotInv, Rising
    <3> QED BY <3>1, <3>2, <3>3, Zenon DEF Counting
  <2> HIDE DEF fs
  <2>3. "stack" \in Filled /\ Whole("stack", fs)
    BY <2>2 DEF Filled, Whole
  <2>4. Over(pc') \subseteq Over(pc) \cup {"stack"} /\ pc # "panic"
    BY <2>1, Sequence
  <2> QED BY <2>1, <2>3, <2>4, MapEnter, Zenon
<1>9. CASE map_framebuffer
  <2> DEFINE fs == FramesOf(machine.framebuffer)
  <2>1. /\ machine' = machine /\ pc = "framebuffer" /\ pc' = "regions"
        /\ mapped' = [mapped EXCEPT !["framebuffer"] = fs]
    BY <1>9, Zenon DEF map_framebuffer, Ready, Continue
  <2> HIDE DEF fs
  <2>2. "framebuffer" \in Filled /\ Whole("framebuffer", fs)
    BY DEF Filled, Whole
  <2>3. HasFramebuffer BY <2>1, Zenon DEF SlotInv
  <2> QED BY <2>1, <2>2, <2>3, MapEnter, Sequence, Zenon
<1>10. CASE PushDescriptor \/ construct_unsafe_phys_mem_region_map
  <2>1. /\ UNCHANGED <<machine, mapped>> /\ pc = "regions"
        /\ pc' = "regions" \/ pc' = "panic" \/ pc' = "arg"
    BY <1>10, Zenon DEF PushDescriptor, construct_unsafe_phys_mem_region_map, Ready, Continue
  <2> QED BY <2>1, MapKeep, Sequence, Zenon
<1>11. CASE map_kernel_arg
  <2>1. /\ machine' = machine /\ pc = "arg" /\ SlotAgrees
        /\ pc' = "panic" \/ pc' = "switch"
        /\ mapped' = [mapped EXCEPT !["arg"] = FramesOf(machine.arg)]
    BY <1>11, Zenon DEF map_kernel_arg, Ready, Continue
  <2>2. HasFramebuffer BY <2>1, ArgSlot, Zenon
  <2>3. "arg" \in Filled /\ Whole("arg", FramesOf(machine.arg))
    BY DEF Filled, Whole
  <2> QED BY <2>1, <2>2, <2>3, MapEnter, Sequence, Zenon
<1>12. CASE context_switch
  <2>1. UNCHANGED <<machine, mapped>> /\ pc = "switch" /\ pc' = "kernel_runs"
    BY <1>12, Zenon DEF context_switch, Ready, Continue
  <2> QED BY <2>1, MapKeep, Sequence, Zenon
<1>13. ASSUME UNCHANGED <<machine, pc, mapped>> PROVE MapInv'
  <2>1. Over(pc)' = Over(pc)
    BY <1>13, Zenon DEF Over, HasFramebuffer
  <2> QED BY <1>13, <2>1, Fixed, Zenon DEF MapInv
<1>14. ASSUME (\E f \in AllFrames : frame_alloc(f)) \/ UNCHANGED vars PROVE MapInv'
  BY <1>13, <1>14, Zenon DEF frame_alloc, vars
<1> QED BY <1>1, <1>2, <1>3, <1>4, <1>5, <1>6, <1>7, <1>8, <1>9, <1>10, <1>11, <1>12, <1>14, Zenon
        DEF Next, Boot

-------------------------------------------------------------------------------
\* Regions behind one another.
LEMMA Joined ==
  ASSUME NEW s \in Seq(Region), NEW t \in Seq(Region)
  PROVE  /\ s \o t \in Seq(Region)
         /\ \A g : Covered(g, s) => Covered(g, s \o t)
         /\ \A g : Covered(g, t) => Covered(g, s \o t)
<1>1. /\ s \o t \in Seq(Region) /\ Len(s) \in Nat /\ Len(t) \in Nat
      /\ DOMAIN s = 1 .. Len(s) /\ DOMAIN t = 1 .. Len(t) /\ DOMAIN (s \o t) = 1 .. Len(s) + Len(t)
  OBVIOUS
<1>2. \A k \in DOMAIN s : k \in DOMAIN (s \o t) /\ (s \o t)[k] = s[k]
  BY <1>1
<1>3. \A k \in DOMAIN t : Len(s) + k \in DOMAIN (s \o t) /\ (s \o t)[Len(s) + k] = t[k]
  BY <1>1
<1>4. \A g : Covered(g, s) => Covered(g, s \o t)
  BY <1>2, Zenon DEF Covered
<1>5. \A g : Covered(g, t) => Covered(g, s \o t)
  BY <1>3, Zenon DEF Covered
<1> QED BY <1>1, <1>4, <1>5, Zenon

\* A table of regions.
LEMMA Tabled ==
  ASSUME NEW S, NEW n \in Nat, NEW s \in [1 .. n -> S]
  PROVE  s \in Seq(S) /\ DOMAIN s = 1 .. n /\ Len(s) = n
<1>1. DOMAIN s = 1 .. n OBVIOUS
<1>2. Len(s) = n BY <1>1
<1>3. s \in Seq(S) BY <1>1, <1>2
<1> QED BY <1>1, <1>2, <1>3

\* A single region.
LEMMA Alone ==
  ASSUME NEW r \in Region
  PROVE  <<r>> \in Seq(Region) /\ \A g : Overlaps(g, r) => Covered(g, <<r>>)
<1>1. <<r>> \in Seq(Region) /\ 1 \in DOMAIN <<r>> /\ <<r>>[1] = r
  OBVIOUS
<1> QED BY <1>1, Zenon DEF Covered

\* The regions the loader writes cover the files and the windows of the devices.
LEMMA UnavailableCovers ==
  ASSUME AllocInv, frames \in [gdt : Nat, pml4 : Nat]
  PROVE  Unavailable \in Seq(Region) /\ \A g \in Files(machine) : Covered(g, Unavailable)
<1>1. /\ machine.kernel \in Object /\ machine.bootstrap \in Object
      /\ machine.framebuffer # NoFramebuffer => machine.framebuffer \in Object
      /\ machine.lapic \in Nat /\ machine.io_apics \in Seq(Nat)
  BY TheMachine, Zenon DEF AllocInv
<1> DEFINE A == <<allocated_region>>
           B == IF HasFramebuffer THEN <<RegionOf(machine.framebuffer)>> ELSE <<>>
           b == [start |-> machine.bootstrap.start, length |-> machine.kernel.length]
           C == <<RegionOf(machine.kernel), b, Page(machine.lapic)>>
           W == [k \in 1 .. Len(machine.io_apics) |-> Page(machine.io_apics[k])]
           T == <<Page(frames.gdt * FrameSize), Page(frames.pml4 * FrameSize)>>
<1>2. A \in Seq(Region)
  BY AllocatedCovered, Alone, Zenon
<1>3. \A o \in Object : RegionOf(o) \in Region /\ \A g \in FramesOf(o) : Overlaps(g, RegionOf(o))
  <2> SUFFICES ASSUME NEW o \in Object
               PROVE  RegionOf(o) \in Region /\ \A g \in FramesOf(o) : Overlaps(g, RegionOf(o))
    OBVIOUS
  <2>1. /\ RegionOf(o) \in Region /\ RegionOf(o).start = o.start
        /\ RegionOf(o).length >= o.length
    BY DEF RegionOf, Region, Object
  <2> QED BY <2>1, ObjectCovered, Zenon
<1>4. B \in Seq(Region) /\ (HasFramebuffer => \A g \in FramesOf(machine.framebuffer) : Covered(g, B))
  <2>1. CASE HasFramebuffer
    BY <1>1, <1>3, <2>1, Alone, Zenon DEF HasFramebuffer
  <2>2. CASE ~HasFramebuffer
    <3>1. <<>> \in Seq(Region) OBVIOUS
    <3> QED BY <2>2, <3>1, Zenon
  <2> QED BY <2>1, <2>2, Zenon
<1>5. b \in Region /\ b.start = machine.bootstrap.start /\ b.length = machine.kernel.length
  BY <1>1 DEF Region, Object
<1>6. machine.bootstrap.length <= machine.kernel.length =>
        \A g \in FramesOf(machine.bootstrap) : Overlaps(g, b)
  <2> SUFFICES ASSUME machine.bootstrap.length <= machine.kernel.length
               PROVE  \A g \in FramesOf(machine.bootstrap) : Overlaps(g, b)
    OBVIOUS
  <2>1. b.length >= machine.bootstrap.length BY <1>1, <1>5 DEF Object
  <2> HIDE DEF b
  <2> QED BY <1>1, <1>5, <2>1, ObjectCovered, Zenon
<1>7. /\ C \in Seq(Region)
      /\ \A g \in FramesOf(machine.kernel) : Covered(g, C)
      /\ machine.bootstrap.length <= machine.kernel.length =>
           \A g \in FramesOf(machine.bootstrap) : Covered(g, C)
      /\ Covered(FrameOf(machine.lapic), C)
  <2> DEFINE ker == RegionOf(machine.kernel)
             lap == Page(machine.lapic)
  <2>1. ker \in Region /\ lap \in Region /\ b \in Region
    BY <1>1, <1>3, <1>5, WindowCovered, Zenon
  <2>2. Overlaps(FrameOf(machine.lapic), lap)
    BY <1>1, WindowCovered, Zenon
  <2>3. \A g \in FramesOf(machine.kernel) : Overlaps(g, ker)
    BY <1>1, <1>3, Zenon
  <2> HIDE DEF ker, b, lap
  <2>4. /\ <<ker, b, lap>> \in Seq(Region) /\ DOMAIN <<ker, b, lap>> = 1 .. 3
        /\ <<ker, b, lap>>[1] = ker /\ <<ker, b, lap>>[2] = b /\ <<ker, b, lap>>[3] = lap
    BY <2>1
  <2>5. 1 \in 1 .. 3 /\ 2 \in 1 .. 3 /\ 3 \in 1 .. 3 OBVIOUS
  <2>6. C = <<ker, b, lap>> BY DEF ker, lap
  <2> HIDE DEF C
  <2> QED BY <1>6, <2>2, <2>3, <2>4, <2>5, <2>6, Zenon DEF Covered
<1>8. W \in Seq(Region) /\ \A a \in Range(machine.io_apics) : Covered(FrameOf(a), W)
  <2>1. /\ Len(machine.io_apics) \in Nat /\ DOMAIN machine.io_apics = 1 .. Len(machine.io_apics)
        /\ \A k \in 1 .. Len(machine.io_apics) : machine.io_apics[k] \in Nat
    BY <1>1, SMTT(60)
  <2>2. \A k \in 1 .. Len(machine.io_apics) :
          W[k] \in Region /\ Overlaps(FrameOf(machine.io_apics[k]), W[k])
    BY <2>1, WindowCovered, Zenon
  <2>3. W \in Seq(Region) /\ DOMAIN W = 1 .. Len(machine.io_apics)
    <3>1. W \in [1 .. Len(machine.io_apics) -> Region] BY <2>2, Zenon
    <3> QED BY <2>1, <3>1, Tabled, Zenon
  <2> HIDE DEF W
  <2> QED BY <2>1, <2>2, <2>3, Zenon DEF Covered, Range
<1>9. T \in Seq(Region)
  <2>1. frames.gdt * FrameSize \in Nat /\ frames.pml4 * FrameSize \in Nat
    BY BootConstantsOK
  <2>2. Page(frames.gdt * FrameSize) \in Region /\ Page(frames.pml4 * FrameSize) \in Region
    BY <2>1, WindowCovered, Zenon
  <2> QED BY <2>2
<1>10. Unavailable = A \o B \o C \o W \o T
  BY Zenon DEF Unavailable
<1> HIDE DEF A, B, C, W, T
<1>11. A \o B \in Seq(Region) /\ \A g : Covered(g, B) => Covered(g, A \o B)
  BY <1>2, <1>4, Joined, Zenon
<1>12. A \o B \o C \in Seq(Region) /\ \A g : Covered(g, B) \/ Covered(g, C) => Covered(g, A \o B \o C)
  BY <1>7, <1>11, Joined, Zenon
<1>13. /\ A \o B \o C \o W \in Seq(Region)
       /\ \A g : Covered(g, B) \/ Covered(g, C) \/ Covered(g, W) => Covered(g, A \o B \o C \o W)
  BY <1>8, <1>12, Joined, Zenon
<1>14. /\ Unavailable \in Seq(Region)
       /\ \A g : Covered(g, B) \/ Covered(g, C) \/ Covered(g, W) => Covered(g, Unavailable)
  BY <1>9, <1>10, <1>13, Joined, Zenon
<1>15. ASSUME NEW g \in Files(machine) PROVE Covered(g, B) \/ Covered(g, C) \/ Covered(g, W)
  BY <1>4, <1>7, <1>8, Zenon DEF Files, HasFramebuffer
<1> QED BY <1>14, <1>15, Zenon

-------------------------------------------------------------------------------
\* Sorting puts the regions in order and loses none (Sorts).
Sorting ==
  \A rs \in Seq(Region) :
    /\ Sorted(rs) \in Seq(Region) /\ InOrder(Sorted(rs))
    /\ \A g : Covered(g, rs) => Covered(g, Sorted(rs))

\* The calls before the table is written.
Unwritten == Steps \ {"arg", "switch", "kernel_runs"}

\* Until construct_unsafe_phys_mem_region_map is over, the table only has its shape.
LEMMA TableBefore ==
  ASSUME row' \in Nat, frames' \in [gdt : Nat, pml4 : Nat], regions' \in Seq(Region), pc' \in Unwritten
  PROVE  TableInv'
<1>1. pc' \notin {"arg", "switch", "kernel_runs"} /\ pc' \notin {"switch", "kernel_runs"}
  BY DEF Unwritten
<1> QED BY <1>1, Zenon DEF TableInv

\* Every step keeps the table of regions covering what it has to cover.
LEMMA TableStep ==
  ASSUME Sorting, AllocInv, GotInv, TableInv, [Next]_vars PROVE TableInv'
<1>0. row \in Nat /\ frames \in [gdt : Nat, pml4 : Nat] /\ regions \in Seq(Region)
  BY Zenon DEF TableInv
<1>1. ASSUME pc' \in Unwritten, UNCHANGED <<row, frames, regions>> PROVE TableInv'
  BY <1>0, <1>1, TableBefore, Zenon
<1>2. ASSUME WrongSlot PROVE TableInv'
  <2>1. pc' = "panic" /\ UNCHANGED <<row, frames, regions>>
    BY <1>2, Zenon DEF WrongSlot, table
  <2>2. pc' \in Unwritten BY <2>1 DEF Unwritten, Steps
  <2> QED BY <1>1, <2>1, <2>2, Zenon
<1>3. ASSUME allocate_frame PROVE TableInv'
  <2>1. /\ UNCHANGED <<machine, row, frames, regions>> /\ (pc' = pc \/ pc' = "panic")
        /\ need > 0 /\ pc # "panic"
    BY <1>3, Zenon DEF allocate_frame, Calling, table
  <2>2. pc \notin {"switch", "kernel_runs"}
    <3>1. Needs("switch") = {0} /\ Needs("kernel_runs") = {0} BY DEF Needs
    <3>2. need + Len(got) \in Needs(pc) /\ need \in Nat /\ Len(got) \in Nat
      BY <2>1 DEF GotInv
    <3> QED BY <2>1, <3>1, <3>2
  <2>3. pc' \notin {"switch", "kernel_runs"} BY <2>1, <2>2
  <2>4. pc' \in {"arg", "switch", "kernel_runs"} => pc \in {"arg", "switch", "kernel_runs"}
    BY <2>1
  <2>5. Files(machine)' = Files(machine) BY <2>1, Zenon DEF Files
  <2> QED BY <1>0, <2>1, <2>3, <2>4, <2>5, Zenon DEF TableInv
<1>4. CASE map_boot_stage_page_table \/ map_physics_memory \/ load_kernel_to_virt_mem \/ map_bootstrap
           \/ alloc_and_map_kernel_stack \/ map_framebuffer
  <2>1. /\ UNCHANGED <<row, frames, regions>>
        /\ pc' \in {"kernel_table", "kernel", "bootstrap", "gdt", "framebuffer", "regions"}
    BY <1>4, Zenon DEF map_boot_stage_page_table, map_physics_memory, load_kernel_to_virt_mem,
       map_bootstrap, alloc_and_map_kernel_stack, map_framebuffer, Continue, table
  <2>2. pc' \in Unwritten BY <2>1 DEF Unwritten, Steps
  <2> QED BY <1>1, <2>1, <2>2, Zenon
<1>5. CASE create_page_table \/ init_gdt
  <2>1. /\ UNCHANGED <<row, regions>> /\ need = 0
        /\ \/ pc = "kernel_table" /\ pc' = "phys" /\ frames' = [frames EXCEPT !.pml4 = got[1]]
           \/ pc = "gdt" /\ pc' = "stack" /\ frames' = [frames EXCEPT !.gdt = got[1]]
    BY <1>5, Zenon DEF create_page_table, init_gdt, Ready, Continue, table
  <2>2. got[1] \in Nat
    <3>1. Needs(pc) = {1} /\ pc # "panic" BY <2>1, NeedsFacts
    <3>2. need + Len(got) \in Needs(pc) /\ got \in Seq(Nat) BY <3>1 DEF GotInv
    <3>3. Len(got) = 1 BY <2>1, <3>1, <3>2
    <3> QED BY <3>2, <3>3, SMTT(60)
  <2>3. frames' \in [gdt : Nat, pml4 : Nat]
    <3> DEFINE g == got[1]
    <3>1. g \in Nat BY <2>2
    <3> HIDE DEF g
    <3>2. [frames EXCEPT !.pml4 = g] \in [gdt : Nat, pml4 : Nat] BY <1>0, <3>1
    <3>3. [frames EXCEPT !.gdt = g] \in [gdt : Nat, pml4 : Nat] BY <1>0, <3>1
    <3> QED BY <2>1, <3>2, <3>3, Zenon DEF g
  <2>4. pc' \in Unwritten BY <2>1 DEF Unwritten, Steps
  <2> QED BY <1>0, <2>1, <2>3, <2>4, TableBefore, Zenon
<1>6. CASE PushDescriptor
  <2> DEFINE d == machine.map[row + 1]
             rs == IF usable_after_bootloader_exit(d) THEN regions ELSE Append(regions, DescriptorRegion(d))
  <2>1. /\ frames' = frames /\ row < Len(machine.map) /\ pc = "regions"
        /\ \/ pc' = "panic" /\ UNCHANGED <<row, regions>>
           \/ pc' = pc /\ row' = row + 1 /\ regions' = rs
    BY <1>6, Zenon DEF PushDescriptor, Ready, Continue, table
  <2>2. row + 1 \in 1 .. Len(machine.map)
    <3>1. Len(machine.map) \in Nat BY TheMachine DEF AllocInv
    <3> QED BY <1>0, <2>1, <3>1
  <2>3. d \in Descriptor BY <2>2, TheMachine, Zenon DEF AllocInv
  <2>4. DescriptorRegion(d) \in Region
    <3> HIDE DEF d
    <3>1. d.frame * FrameSize \in Nat /\ d.count * FrameSize \in Nat
      BY <2>3, BootConstantsOK DEF Descriptor
    <3> QED BY <3>1 DEF DescriptorRegion, Region
  <2>5. rs \in Seq(Region)
    <3>1. \A r \in Region : Append(regions, r) \in Seq(Region) BY <1>0
    <3> QED BY <1>0, <2>4, <3>1, Zenon
  <2>6. row + 1 \in Nat BY <1>0
  <2>7. pc' \in Unwritten BY <2>1 DEF Unwritten, Steps
  <2> QED BY <1>0, <2>1, <2>5, <2>6, <2>7, TableBefore, Zenon
<1>7. CASE construct_unsafe_phys_mem_region_map
  <2>1. /\ UNCHANGED <<machine, frames, row>>
        /\ \/ pc' = "panic" /\ regions' = regions
           \/ pc' = "arg" /\ regions' = regions \o Unavailable
    BY <1>7, Zenon DEF construct_unsafe_phys_mem_region_map, Continue
  <2>2. CASE pc' = "panic" /\ regions' = regions
    <3>1. pc' \in Unwritten BY <2>2 DEF Unwritten, Steps
    <3> QED BY <1>1, <2>1, <2>2, <3>1, Zenon
  <2>3. CASE pc' = "arg" /\ regions' = regions \o Unavailable
    <3>1. regions' \in Seq(Region) /\ \A g \in Files(machine) : Covered(g, regions')
      BY <1>0, <2>3, UnavailableCovers, Joined, Zenon
    <3>2. Files(machine)' = Files(machine) BY <2>1, Zenon DEF Files
    <3>3. \A g : Covered(g, regions)' <=> Covered(g, regions')  BY Zenon DEF Covered
    <3>4. pc' \notin {"switch", "kernel_runs"} BY <2>3
    <3> QED BY <1>0, <2>1, <3>1, <3>2, <3>3, <3>4, Zenon DEF TableInv
  <2> QED BY <2>1, <2>2, <2>3, Zenon
<1>8. CASE map_kernel_arg
  <2>1. /\ UNCHANGED <<machine, taken, frames, row>> /\ pc = "arg"
        /\ \/ pc' = "panic" /\ regions' = regions
           \/ pc' = "switch" /\ regions' = Sorted(regions \o ArgRegions)
    BY <1>8, Zenon DEF map_kernel_arg, Continue, Ready
  <2>2. CASE pc' = "panic" /\ regions' = regions
    <3>1. pc' \in Unwritten BY <2>2 DEF Unwritten, Steps
    <3> QED BY <1>1, <2>1, <2>2, <3>1, Zenon
  <2>3. CASE pc' = "switch" /\ regions' = Sorted(regions \o ArgRegions)
    <3>1. /\ ArgRegions \in Seq(Region)
          /\ \A g \in taken \cup FramesOf(machine.arg) : Covered(g, ArgRegions)
      <4> DEFINE a == RegionOf(machine.arg)
                 l == allocated_region
      <4>1. machine.arg \in Object BY TheMachine, Zenon DEF AllocInv
      <4>2. a \in Region /\ a.start = machine.arg.start /\ a.length >= machine.arg.length
        BY <4>1 DEF RegionOf, Region, Object
      <4>3. l \in Region /\ \A f \in taken : Overlaps(f, l)
        BY AllocatedCovered, Zenon
      <4> HIDE DEF a, l
      <4>4. \A g \in FramesOf(machine.arg) : Overlaps(g, a)
        BY <4>1, <4>2, ObjectCovered, Zenon
      <4>5. /\ <<a, l>> \in Seq(Region) /\ DOMAIN <<a, l>> = 1 .. 2 /\ <<a, l>>[1] = a /\ <<a, l>>[2] = l
            /\ 1 \in 1 .. 2 /\ 2 \in 1 .. 2
        BY <4>2, <4>3
      <4>6. ArgRegions = <<a, l>> BY Zenon DEF ArgRegions, a, l
      <4>7. \A g \in taken \cup FramesOf(machine.arg) : Overlaps(g, a) \/ Overlaps(g, l)
        BY <4>3, <4>4, Zenon
      <4> QED BY <4>5, <4>6, <4>7, Zenon DEF Covered
    <3> DEFINE rs == regions \o ArgRegions
    <3>2. \A g \in Files(machine) : Covered(g, regions)
      <4>1. pc \in {"arg", "switch", "kernel_runs"} BY <2>1
      <4> QED BY <4>1, Zenon DEF TableInv
    <3>3. /\ rs \in Seq(Region)
          /\ \A g \in Files(machine) \cup taken \cup FramesOf(machine.arg) : Covered(g, rs)
      BY <1>0, <3>1, <3>2, Joined, Zenon
    <3> HIDE DEF rs
    <3>4. regions' = Sorted(rs) BY <2>3 DEF rs
    <3>5. /\ regions' \in Seq(Region) /\ InOrder(regions')
          /\ \A g \in Files(machine) \cup taken \cup FramesOf(machine.arg) : Covered(g, regions')
      BY <3>3, <3>4, Zenon DEF Sorting
    <3>6. Files(machine)' = Files(machine) /\ FramesOf(machine.arg)' = FramesOf(machine.arg)
      BY <2>1, Zenon DEF Files
    <3>7. \A g : Covered(g, regions)' <=> Covered(g, regions')  BY Zenon DEF Covered
    <3>8. InOrder(regions)' <=> InOrder(regions') BY Zenon DEF InOrder
    <3> QED BY <1>0, <2>1, <3>5, <3>6, <3>7, <3>8, Zenon DEF TableInv
  <2> QED BY <2>1, <2>2, <2>3, Zenon
<1>9. CASE context_switch
  <2>1. UNCHANGED <<machine, taken, row, frames, regions>> /\ pc = "switch"
    BY <1>9, Zenon DEF context_switch, Ready, table
  <2>2. pc \in {"arg", "switch", "kernel_runs"} /\ pc \in {"switch", "kernel_runs"}
    BY <2>1
  <2> QED BY <1>0, <2>1, <2>2, Zenon DEF TableInv, Files, InOrder
<1>10. ASSUME UNCHANGED <<machine, pc, taken, row, frames, regions>> PROVE TableInv'
  BY <1>10, Zenon DEF TableInv, Files, InOrder
<1>11. ASSUME (\E f \in AllFrames : frame_alloc(f)) \/ UNCHANGED vars PROVE TableInv'
  BY <1>10, <1>11, Zenon DEF frame_alloc, vars, table
<1> QED BY <1>2, <1>3, <1>4, <1>5, <1>6, <1>7, <1>8, <1>9, <1>11, Zenon DEF Next, Boot

-------------------------------------------------------------------------------
\* A frame the source may grant is in none of the regions.
LEMMA Granted ==
  ASSUME KernelInv, regions \in Seq(Region), NEW f \in AllFrames, frame_alloc(f)
  PROVE  f \in Int /\ FrameOf(f * FrameSize) = f /\ ~Covered(f, regions)
<1>1. f \in Nat
  BY BootConstantsOK DEF AllFrames
<1> DEFINE block == [start |-> f * FrameSize, size |-> FrameSize]
<1>2. /\ pc = "kernel_runs" /\ reserved = Range(regions)
      /\ \A r \in reserved : ~(block.start < r.start + r.length /\ r.start < block.start + block.size)
  BY Zenon DEF frame_alloc, KernelInv, Source!Grant, Source!Overlap
<1>3. /\ block.start = f * FrameSize /\ block.size = FrameSize /\ f * FrameSize \in Int
      /\ (f + 1) * FrameSize = f * FrameSize + FrameSize
  BY <1>1, Products
<1>4. \A k \in DOMAIN regions : regions[k] \in reserved
  BY <1>2, Zenon DEF Range
<1>5. \A k \in DOMAIN regions : ~Overlaps(f, regions[k])
  <2> HIDE DEF block
  <2> QED BY <1>2, <1>3, <1>4, Zenon DEF Overlaps
<1>6. FrameOf(f * FrameSize) = f
  BY <1>1, WholeFrame
<1> QED BY <1>1, <1>5, <1>6 DEF Covered

\* Every step keeps the frames of the kernel off the regions it was given.
LEMMA KernelStep ==
  ASSUME TableInv, KernelInv, [Next]_vars PROVE KernelInv'
<1>1. ASSUME owned' = owned, pc # "kernel_runs", pc' # "kernel_runs" PROVE KernelInv'
  BY <1>1, Zenon DEF KernelInv, OwnedFrames
<1>2. CASE WrongSlot \/ allocate_frame
  <2>1. owned' = owned /\ pc # "kernel_runs" /\ (pc' = pc \/ pc' = "panic")
    BY <1>2, Zenon DEF WrongSlot, allocate_frame, Calling, kernelVars
  <2> QED BY <1>1, <2>1
<1>3. CASE map_boot_stage_page_table \/ create_page_table \/ map_physics_memory
           \/ load_kernel_to_virt_mem \/ map_bootstrap \/ init_gdt
  <2>1. /\ owned' = owned
        /\ pc \in {"boot_table", "kernel_table", "phys", "kernel", "bootstrap", "gdt"}
        /\ pc' \in {"kernel_table", "phys", "kernel", "bootstrap", "gdt", "stack"}
    BY <1>3, Zenon DEF map_boot_stage_page_table, create_page_table, map_physics_memory,
       load_kernel_to_virt_mem, map_bootstrap, init_gdt, Ready, Continue, kernelVars
  <2> QED BY <1>1, <2>1
<1>4. CASE alloc_and_map_kernel_stack \/ map_framebuffer \/ PushDescriptor
           \/ construct_unsafe_phys_mem_region_map \/ map_kernel_arg
  <2>1. /\ owned' = owned
        /\ pc \in {"stack", "framebuffer", "regions", "arg"}
        /\ pc' \in {"framebuffer", "regions", "arg", "switch", "panic"}
    BY <1>4, Zenon DEF alloc_and_map_kernel_stack, map_framebuffer, PushDescriptor,
       construct_unsafe_phys_mem_region_map, map_kernel_arg, Ready, Continue, kernelVars
  <2> QED BY <1>1, <2>1
<1>5. CASE context_switch
  <2>1. /\ owned' = owned /\ pc = "switch" /\ pc' = "kernel_runs" /\ reserved' = Range(regions)
        /\ regions' = regions
    BY <1>5, Zenon DEF context_switch, Ready, Continue, table
  <2>2. owned = {} BY <2>1 DEF KernelInv
  <2>3. Range(regions)' = Range(regions) BY <2>1, Zenon
  <2> QED BY <2>1, <2>2, <2>3, Zenon DEF KernelInv, OwnedFrames
<1>6. ASSUME NEW f \in AllFrames, frame_alloc(f) PROVE KernelInv'
  <2> DEFINE block == [start |-> f * FrameSize, size |-> FrameSize]
  <2>1. /\ pc = "kernel_runs" /\ pc' = pc /\ reserved' = reserved /\ regions' = regions
        /\ owned' = owned \cup {block}
    BY <1>6, Zenon DEF frame_alloc, Source!Grant, table
  <2>2. f \in Int /\ FrameOf(f * FrameSize) = f /\ ~Covered(f, regions)
    BY <1>6, Granted, Zenon DEF TableInv
  <2>3. block.start = f * FrameSize OBVIOUS
  <2> HIDE DEF block
  <2>4. OwnedFrames' = OwnedFrames \cup {f}
    BY <2>1, <2>2, <2>3, Zenon DEF OwnedFrames
  <2>5. reserved = Range(regions) /\ \A g \in OwnedFrames : g \in Int /\ ~Covered(g, regions)
    BY <2>1, Zenon DEF KernelInv
  <2>6. \A g \in OwnedFrames' : g \in Int /\ ~Covered(g, regions)
    BY <2>2, <2>4, <2>5, Zenon
  <2>7. (\A g \in OwnedFrames : g \in Int /\ ~Covered(g, regions))'
    BY <2>1, <2>6, Zenon DEF Covered
  <2> QED BY <2>1, <2>5, <2>7, Zenon DEF KernelInv
<1>7. CASE UNCHANGED vars
  <2>1. UNCHANGED <<pc, reserved, regions, owned>> BY <1>7, Zenon DEF vars
  <2> QED BY <2>1, Zenon DEF KernelInv, OwnedFrames, Covered
<1> QED BY <1>2, <1>3, <1>4, <1>5, <1>6, <1>7, Zenon DEF Next, Boot

-------------------------------------------------------------------------------
\* Every region has a place of its own, in the order of their starts (Places).
Ranking ==
  \A rs \in Seq(Region) :
    /\ \A k \in DOMAIN rs : Place(rs, k) \in DOMAIN rs
    /\ \A j, k \in DOMAIN rs : Place(rs, j) = Place(rs, k) => j = k
    /\ \A j, k \in DOMAIN rs : Place(rs, j) <= Place(rs, k) => rs[j].start <= rs[k].start
    /\ \A n \in DOMAIN rs : \E k \in DOMAIN rs : Place(rs, k) = n

\* sort_unstable_by_key puts the regions in order and loses none.
LEMMA Sorts == ASSUME Ranking PROVE Sorting
<1> SUFFICES ASSUME NEW rs \in Seq(Region)
             PROVE  /\ Sorted(rs) \in Seq(Region) /\ InOrder(Sorted(rs))
                    /\ \A g : Covered(g, rs) => Covered(g, Sorted(rs))
  BY Zenon DEF Sorting
<1> DEFINE D == DOMAIN rs
           q(n) == CHOOSE k \in D : Place(rs, k) = n
<1>1. \A n \in D : q(n) \in D /\ Place(rs, q(n)) = n
  BY Zenon DEF Ranking
<1>2. Sorted(rs) = [n \in D |-> rs[q(n)]]
  BY Zenon DEF Sorted
<1> HIDE DEF q
<1>3. Len(rs) \in Nat /\ D = 1 .. Len(rs) /\ \A k \in D : rs[k] \in Region
  OBVIOUS
<1>4. Sorted(rs) \in Seq(Region) /\ DOMAIN Sorted(rs) = D
  <2>1. Sorted(rs) \in [1 .. Len(rs) -> Region] BY <1>1, <1>2, <1>3, Zenon
  <2> QED BY <1>3, <2>1, Tabled, Zenon
<1>5. InOrder(Sorted(rs))
  <2> SUFFICES ASSUME NEW j \in D, NEW k \in D, j < k
               PROVE  Sorted(rs)[j].start <= Sorted(rs)[k].start
    BY <1>4, Zenon DEF InOrder
  <2>1. j <= k BY <1>3
  <2>2. rs[q(j)].start <= rs[q(k)].start BY <1>1, <2>1, Zenon DEF Ranking
  <2> QED BY <1>2, <2>2, Zenon
<1>6. ASSUME NEW g, Covered(g, rs) PROVE Covered(g, Sorted(rs))
  <2>1. PICK k \in D : Overlaps(g, rs[k]) BY <1>6, Zenon DEF Covered
  <2> DEFINE n == Place(rs, k)
  <2>2. n \in D BY Zenon DEF Ranking
  <2>3. q(n) = k BY <1>1, <2>2, Zenon DEF Ranking
  <2> QED BY <1>2, <1>4, <2>1, <2>2, <2>3, Zenon DEF Covered
<1> QED BY <1>4, <1>5, <1>6, Zenon

\* max_phys_addr is the end of a descriptor, and no descriptor ends behind it.
LEMMA MaxAddr ==
  ASSUME Ranking, machine \in Machines
  PROVE  /\ max_phys_addr \in Nat \ {0}
         /\ \A k \in DOMAIN machine.map : (LastFrame(machine.map[k]) + 1) * FrameSize <= max_phys_addr
<1> DEFINE L == Len(machine.map)
           v(k) == (LastFrame(machine.map[k]) + 1) * FrameSize
           rs == [k \in 1 .. L |-> [start |-> v(k), length |-> 0]]
           S == {v(k) : k \in 1 .. L}
<1>1. L \in Nat /\ L # 0 /\ DOMAIN machine.map = 1 .. L /\ \A k \in 1 .. L : machine.map[k] \in Descriptor
  BY TheMachine, Zenon
<1>2. \A k \in 1 .. L : v(k) \in Nat /\ v(k) # 0
  <2> SUFFICES ASSUME NEW k \in 1 .. L PROVE v(k) \in Nat /\ v(k) # 0 OBVIOUS
  <2> DEFINE d == machine.map[k]
  <2>1. d \in Descriptor BY <1>1, Zenon
  <2> HIDE DEF d
  <2>2. LastFrame(d) + 1 \in Nat \ {0} BY <2>1 DEF LastFrame, Descriptor
  <2>3. \A a \in Nat \ {0} : a * FrameSize \in Nat /\ a * FrameSize # 0 BY BootConstantsOK, SMT
  <2>4. v(k) = (LastFrame(d) + 1) * FrameSize BY Zenon DEF d
  <2> HIDE DEF v
  <2> QED BY <2>2, <2>3, <2>4, Zenon
<1>3. max_phys_addr = Max(S)
  BY Zenon DEF max_phys_addr
<1> HIDE DEF v, L
<1>4. rs \in Seq(Region) /\ DOMAIN rs = 1 .. L
  <2>1. \A k \in 1 .. L : [start |-> v(k), length |-> 0] \in Region BY <1>2 DEF Region
  <2>2. rs \in [1 .. L -> Region] BY <2>1, Zenon
  <2> QED BY <1>1, <2>2, Tabled, Zenon
<1>5. \A k \in 1 .. L : rs[k].start = v(k)
  OBVIOUS
<1> HIDE DEF rs
<1>6. L \in DOMAIN rs
  BY <1>1, <1>4
<1>7. PICK k \in DOMAIN rs : Place(rs, k) = L
  BY <1>4, <1>6, Zenon DEF Ranking
<1>8. \A j \in 1 .. L : v(j) <= v(k)
  <2> SUFFICES ASSUME NEW j \in 1 .. L PROVE v(j) <= v(k) OBVIOUS
  <2>1. Place(rs, j) \in 1 .. L BY <1>4, Zenon DEF Ranking
  <2>2. Place(rs, j) <= Place(rs, k) BY <1>1, <1>7, <2>1
  <2>3. rs[j].start <= rs[k].start BY <1>4, <2>2, Zenon DEF Ranking
  <2> QED BY <1>4, <1>5, <2>3, Zenon
<1>9. Max(S) = v(k)
  <2>1. v(k) \in S /\ S \in SUBSET Int /\ \A y \in S : y <= v(k) BY <1>2, <1>4, <1>8
  <2> HIDE DEF S
  <2> QED BY <2>1, MaxIs, Zenon
<1>10. max_phys_addr = v(k) /\ k \in 1 .. L
  BY <1>3, <1>4, <1>9, Zenon
<1>11. max_phys_addr \in Nat \ {0} /\ \A j \in 1 .. L : v(j) <= max_phys_addr
  BY <1>2, <1>8, <1>10, Zenon
<1> QED BY <1>1, <1>11, Zenon DEF v

\* Every frame that was given away is below the end of memory.
LEMMA TakenInMemory ==
  ASSUME Ranking, AllocInv
  PROVE  taken \subseteq 0 .. FrameOf(max_phys_addr - 1)
<1> SUFFICES ASSUME NEW f \in taken PROVE f \in 0 .. FrameOf(max_phys_addr - 1)
  OBVIOUS
<1> DEFINE q == FrameOf(max_phys_addr - 1)
<1>1. f \in Nat /\ InFree(machine, f) /\ machine \in Machines
  BY Zenon DEF AllocInv
<1>2. PICK k \in DOMAIN machine.map : f \in machine.map[k].frame .. LastFrame(machine.map[k])
  BY <1>1, Zenon DEF InFree
<1> DEFINE l == LastFrame(machine.map[k])
<1>3. l \in Int /\ f <= l
  <2>1. machine.map[k] \in Descriptor BY <1>1, TheMachine, Zenon
  <2> QED BY <1>2, <2>1 DEF LastFrame, Descriptor
<1>4. max_phys_addr \in Nat \ {0} /\ (l + 1) * FrameSize <= max_phys_addr
  BY <1>1, MaxAddr, Zenon
<1> HIDE DEF l
<1>5. q \in Nat /\ max_phys_addr - 1 < (q + 1) * FrameSize
  BY <1>4, Quotient
<1> HIDE DEF q
<1>6. f <= q
  <2> SUFFICES ASSUME q + 1 <= f PROVE FALSE BY <1>1, <1>5
  <2>1. (q + 1) * FrameSize <= f * FrameSize /\ f * FrameSize \in Int /\ (q + 1) * FrameSize \in Int
    <3>1. q + 1 \in Int /\ f \in Int BY <1>1, <1>5
    <3> QED BY <3>1, Products
  <2>2. f * FrameSize <= l * FrameSize /\ (l + 1) * FrameSize = l * FrameSize + FrameSize
        /\ l * FrameSize \in Int
    <3>1. f \in Int BY <1>1
    <3>2. f * FrameSize <= l * FrameSize /\ l * FrameSize \in Int BY <1>3, <3>1, Products, SMTT(60)
    <3>3. (l + 1) * FrameSize = l * FrameSize + FrameSize BY <1>3, Products, l <= l
    <3> QED BY <3>2, <3>3
  <2> QED BY <1>4, <1>5, <2>1, <2>2, BootConstantsOK
<1> QED BY <1>1, <1>5, <1>6 DEF q

-------------------------------------------------------------------------------
\* The invariant holds after exit_boot_services.
LEMMA InitInv == Init => Inv
<1> SUFFICES ASSUME Init PROVE Inv
  OBVIOUS
<1>1. /\ machine \in Machines /\ pc = "boot_table" /\ need = 1 /\ got = <<>> /\ taken = {}
      /\ fa = [pos |-> 1, cur |-> 0, next |-> LowFrame] /\ tracker = new
      /\ p4 = [e \in Index |-> "none"] /\ frames = [gdt |-> 0, pml4 |-> 0]
      /\ mapped = [r \in {"phys", "kernel", "bootstrap", "stack", "framebuffer", "arg"} |-> {}]
      /\ row = 0 /\ regions = <<>> /\ owned = {}
  BY Zenon DEF Init
<1>2. AllocInv
  <2>1. Len(machine.map) \in Nat BY <1>1, TheMachine, Zenon
  <2>2. fa \in [pos : 1 .. Len(machine.map) + 1, cur : 0 .. Len(machine.map), next : Nat]
        /\ fa.cur = 0 /\ fa.next >= LowFrame
    BY <1>1, <2>1, BootConstantsOK
  <2> QED BY <1>1, <2>2, Zenon DEF AllocInv
<1>3. GotInv
  <2>1. <<>> \in Seq(Nat) /\ DOMAIN <<>> = {} /\ 1 + Len(<<>>) = 1 /\ 1 \in Nat OBVIOUS
  <2>2. pc \in Steps /\ 1 \in Needs(pc) BY <1>1, NeedsFacts DEF Steps
  <2> QED BY <1>1, <2>1, <2>2, Zenon DEF GotInv
<1>4. SlotInv
  <2>1. LastFree(pc) = Entries - 1 /\ Over(pc) = {} BY <1>1 DEF LastFree, Over
  <2>2. new = Taken(Entries - 1)
    <3>1. \A e \in Index : e \in 0 .. Entries - 1 BY Zenon DEF Index
    <3>2. [e \in Index |-> FALSE] = [e \in Index |-> e \notin 0 .. Entries - 1] BY <3>1, Zenon
    <3> QED BY <3>2, Zenon DEF new, Taken
  <2>3. pc # "framebuffer" BY <1>1
  <2> QED BY <1>1, <2>1, <2>2, <2>3, Zenon DEF SlotInv
<1>5. MapInv
  <2>1. Over(pc) = {} BY <1>1 DEF Over
  <2> QED BY <1>1, <2>1, Zenon DEF MapInv, Filled
<1>6. TableInv
  <2>1. <<>> \in Seq(Region) /\ 0 \in Nat /\ [gdt |-> 0, pml4 |-> 0] \in [gdt : Nat, pml4 : Nat] OBVIOUS
  <2>2. pc \notin {"arg", "switch", "kernel_runs"} /\ pc \notin {"switch", "kernel_runs"} BY <1>1
  <2> QED BY <1>1, <2>1, <2>2, Zenon DEF TableInv
<1>7. KernelInv
  <2>1. pc # "kernel_runs" BY <1>1
  <2> QED BY <1>1, <2>1, Zenon DEF KernelInv, OwnedFrames
<1> QED BY <1>2, <1>3, <1>4, <1>5, <1>6, <1>7, Zenon DEF Inv

-------------------------------------------------------------------------------
\* What was taken is in free memory, and nothing the loader left behind is.
LEMMA LoaderKeepsOffFromInv == Inv => LoaderKeepsOff
<1> SUFFICES ASSUME AllocInv, NEW f \in taken, f \in LeftBehind(machine) PROVE FALSE
  BY Zenon DEF Inv, LoaderKeepsOff
<1>1. PICK k \in DOMAIN machine.map :
        Usable(machine.map[k]) /\ f \in machine.map[k].frame .. LastFrame(machine.map[k])
  BY Zenon DEF AllocInv, InFree
<1>2. (machine.map[k].frame .. LastFrame(machine.map[k])) \cap LeftBehind(machine) = {}
  BY <1>1, MachinesOK, Zenon DEF AllocInv, Usable
<1> QED BY <1>1, <1>2, Zenon

\* A region covers every frame that is still in use, and the kernel gets none of those.
LEMMA KernelKeepsOffFromInv ==
  ASSUME \A m \in Machines : m.bootstrap.length <= m.kernel.length
  PROVE  Inv => KernelKeepsOff
<1> SUFFICES ASSUME AllocInv, TableInv, KernelInv, NEW f \in OwnedFrames, f \in LiveFrames PROVE FALSE
  BY Zenon DEF Inv, KernelKeepsOff
<1>1. pc = "kernel_runs"
  BY Zenon DEF KernelInv, OwnedFrames
<1>2. ~Covered(f, regions)
  BY Zenon DEF KernelInv
<1>3. pc \in {"arg", "switch", "kernel_runs"} /\ pc \in {"switch", "kernel_runs"}
  BY <1>1
<1>4. \A g \in Files(machine) \cup taken \cup FramesOf(machine.arg) : Covered(g, regions)
  BY <1>3, Zenon DEF TableInv
<1>5. machine.bootstrap.length <= machine.kernel.length
  BY Zenon DEF AllocInv
<1>6. f \in Files(machine) \cup taken \cup FramesOf(machine.arg)
  BY <1>5, Zenon DEF LiveFrames, LeftBehind, Files
<1> QED BY <1>2, <1>4, <1>6, Zenon

\* The table is in order from the end of map_kernel_arg on.
LEMMA RegionsSortedFromInv == Inv => RegionsSorted
<1>1. TableInv => RegionsSorted
  <2> SUFFICES ASSUME TableInv, pc \in {"switch", "kernel_runs"}
               PROVE  \A j, k \in 1 .. Len(regions) : j < k => regions[j].start <= regions[k].start
    BY Zenon DEF RegionsSorted
  <2>1. regions \in Seq(Region) BY Zenon DEF TableInv
  <2>2. DOMAIN regions = 1 .. Len(regions) BY <2>1
  <2> QED BY <2>2, Zenon DEF TableInv, InOrder
<1> QED BY <1>1, Zenon DEF Inv

\* All calls are over when the kernel runs.
LEMMA LayoutAgreedFromInv == ASSUME Ranking PROVE Inv => LayoutAgreed
<1> SUFFICES ASSUME AllocInv, SlotInv, MapInv, pc = "kernel_runs"
             PROVE  /\ p4[KERNEL_BYTES_P4] = "kernel" /\ p4[BOOTSTRAP_BYTES_P4] = "bootstrap"
                    /\ p4[KERNEL_STACK_P4] = "stack" /\ p4[FRAMEBUFFER_P4] = "framebuffer"
                    /\ p4[KERNEL_ARG_P4] = "arg" /\ p4[PHYS_MEM_P4] = "phys"
                    /\ FramesOf(machine.bootstrap) \subseteq mapped.bootstrap
                    /\ FramesOf(machine.arg) \subseteq mapped.arg
                    /\ Cardinality(mapped.stack) = StackFrames + 1
                    /\ taken \subseteq mapped.phys
  BY Zenon DEF Inv, LayoutAgreed
<1>1. Over(pc) = Filled /\ pc # "panic"
  BY DEF Over, Filled
<1>2. \A r \in Filled : p4[EntryOf(r)] = r
  BY <1>1, Zenon DEF SlotInv
<1>3. /\ EntryOf("kernel") = KERNEL_BYTES_P4 /\ EntryOf("bootstrap") = BOOTSTRAP_BYTES_P4
      /\ EntryOf("stack") = KERNEL_STACK_P4 /\ EntryOf("framebuffer") = FRAMEBUFFER_P4
      /\ EntryOf("arg") = KERNEL_ARG_P4 /\ EntryOf("phys") = PHYS_MEM_P4
  BY DEF EntryOf, Slot
<1>4. /\ "kernel" \in Filled /\ "bootstrap" \in Filled /\ "stack" \in Filled
      /\ "framebuffer" \in Filled /\ "arg" \in Filled /\ "phys" \in Filled
  BY DEF Filled
<1>5. \A r \in Filled : Whole(r, mapped[r])
  BY <1>1, Zenon DEF MapInv
<1>6. /\ FramesOf(machine.bootstrap) \subseteq mapped.bootstrap
      /\ FramesOf(machine.arg) \subseteq mapped.arg
      /\ Cardinality(mapped.stack) = StackFrames + 1
      /\ mapped.phys = 0 .. FrameOf(max_phys_addr - 1)
  <2>1. /\ Whole("bootstrap", mapped.bootstrap) /\ Whole("arg", mapped.arg)
        /\ Whole("stack", mapped.stack) /\ Whole("phys", mapped.phys)
    BY <1>4, <1>5, Zenon
  <2> QED BY <2>1 DEF Whole
<1> QED BY <1>2, <1>3, <1>4, <1>6, TakenInMemory, Zenon

-------------------------------------------------------------------------------
(***************************************************************************)
(* Finite sets and numbers: what the lemmas above take as given.            *)
(***************************************************************************)
LOCAL Sets == INSTANCE FiniteSetTheorems

\* The operators of the library are those of this module.
LEMMA SameSets ==
  ASSUME NEW S
  PROVE  Sets!Cardinality(S) = Cardinality(S) /\ (Sets!IsFiniteSet(S) <=> IsFiniteSet(S))
  BY Zenon DEF Sets!Cardinality, Cardinality, Sets!IsFiniteSet, IsFiniteSet

\* A set of numbers has a smallest one.
LEMMA LeastOf == Least
<1> SUFFICES ASSUME NEW S \in SUBSET Nat, S # {}
             PROVE  Min(S) \in S
  BY Zenon DEF Least
<1>1. PICK x \in S : \A y \in S : ~(<<y, x>> \in Sets!OpToRel(<, Nat))
  BY Sets!WFMin, Sets!NatLessThanWellFounded, Zenon
<1>2. \A y \in S : ~(y < x)
  BY <1>1, Zenon DEF Sets!OpToRel
<1>3. \A y \in S : x <= y
  BY <1>2
<1> QED BY <1>3, Zenon DEF Min

\* The numbers up to n, and the parts of them.
LEMMA UpTo ==
  ASSUME NEW n \in Nat
  PROVE  /\ IsFiniteSet(1 .. n) /\ Cardinality(1 .. n) = n
         /\ \A T \in SUBSET (1 .. n) : IsFiniteSet(T) /\ Cardinality(T) \in Nat /\ Cardinality(T) <= n
         /\ \A T \in SUBSET (1 .. n), x \in 1 .. n : x \notin T =>
              Cardinality(T \cup {x}) = Cardinality(T) + 1
         /\ \A U \in SUBSET (1 .. n) : \A T \in SUBSET U : Cardinality(T) <= Cardinality(U)
         /\ \A T \in SUBSET (1 .. n) : Cardinality(T) = 0 => T = {}
<1>1. Sets!IsFiniteSet(1 .. n) /\ Sets!Cardinality(1 .. n) = n
  <2>1. 1 \in Int /\ n \in Int /\ (IF 1 > n THEN 0 ELSE n - 1 + 1) = n OBVIOUS
  <2>2. Sets!IsFiniteSet(1 .. n) /\ Sets!Cardinality(1 .. n) = IF 1 > n THEN 0 ELSE n - 1 + 1
    BY <2>1, Sets!FS_Interval, Zenon
  <2> QED BY <2>2
<1>2. ASSUME NEW T \in SUBSET (1 .. n)
      PROVE  Sets!IsFiniteSet(T) /\ Sets!Cardinality(T) \in Nat /\ Sets!Cardinality(T) <= n
  <2>1. Sets!IsFiniteSet(T) /\ Sets!Cardinality(T) <= Sets!Cardinality(1 .. n)
    BY <1>1, Sets!FS_Subset, Zenon
  <2>2. Sets!Cardinality(T) \in Nat BY <2>1, Sets!FS_CardinalityType, Zenon
  <2> QED BY <1>1, <2>1, <2>2, Zenon
<1>3. ASSUME NEW T \in SUBSET (1 .. n), NEW x \in 1 .. n, x \notin T
      PROVE  Sets!Cardinality(T \cup {x}) = Sets!Cardinality(T) + 1
  BY <1>2, <1>3, Sets!FS_AddElement, Zenon
<1>4. ASSUME NEW U \in SUBSET (1 .. n), NEW T \in SUBSET U
      PROVE  Cardinality(T) <= Cardinality(U)
  <2>1. Sets!Cardinality(T) <= Sets!Cardinality(U) BY <1>2, Sets!FS_Subset, Zenon
  <2>2. Sets!Cardinality(T) = Cardinality(T) BY SameSets, Zenon
  <2>3. Sets!Cardinality(U) = Cardinality(U) BY SameSets, Zenon
  <2> QED BY <2>1, <2>2, <2>3, Zenon
<1>5. ASSUME NEW T \in SUBSET (1 .. n), Cardinality(T) = 0 PROVE T = {}
  <2>1. Sets!Cardinality(T) = 0 BY <1>5, SameSets, Zenon
  <2> QED BY <1>2, <2>1, Sets!FS_EmptySet, Zenon
<1> QED BY <1>1, <1>2, <1>3, <1>4, <1>5, SameSets, ZenonT(60)

\* Numbers that rise are different, and counted by their places.
LEMMA Counts == Counting
<1> SUFFICES ASSUME NEW s \in Seq(Nat), NEW n \in Nat, n <= Len(s), Rising(s)
             PROVE  Cardinality(Range(SubSeq(s, 1, n))) = n
  BY Zenon DEF Counting
<1> DEFINE t == SubSeq(s, 1, n)
<1>1. DOMAIN t = 1 .. n /\ \A k \in 1 .. n : t[k] = s[k] /\ k \in DOMAIN s /\ s[k] \in Nat
  OBVIOUS
<1>2. t \in [1 .. n -> Range(t)]
  <2>1. t = [k \in 1 .. n |-> s[k]]
    OBVIOUS
  <2> HIDE DEF t
  <2> QED BY <1>1, <2>1, Zenon DEF Range
<1>3. \A j, k \in 1 .. n : t[j] = t[k] => j = k
  <2> SUFFICES ASSUME NEW j \in 1 .. n, NEW k \in 1 .. n, t[j] = t[k], j # k PROVE FALSE
    BY Zenon
  <2>1. j < k \/ k < j OBVIOUS
  <2>2. s[j] = s[k] /\ s[j] \in Nat /\ (s[j] < s[k] \/ s[k] < s[j])
    BY <1>1, <2>1, Zenon DEF Rising
  <2> QED BY <2>2
<1> HIDE DEF t
<1>4. \A y \in Range(t) : \E k \in 1 .. n : t[k] = y
  BY <1>1, Zenon DEF Range
<1>5. Sets!ExistsBijection(1 .. n, Range(t))
  BY <1>2, <1>3, <1>4, Zenon DEF Sets!ExistsBijection, Sets!Bijection, Sets!Injection, Sets!Surjection,
     Sets!IsInjective
<1>6. Sets!Cardinality(Range(t)) = n
  BY <1>5, Sets!FS_CountingElements, Zenon
<1> QED BY <1>6, SameSets, Zenon DEF t

\* The places of regions: every one has its own, in the order of their starts.
LEMMA PlacesOf ==
  ASSUME NEW rs \in Seq(Region)
  PROVE  /\ \A k \in DOMAIN rs : Place(rs, k) \in DOMAIN rs
         /\ \A j, k \in DOMAIN rs : Place(rs, j) = Place(rs, k) => j = k
         /\ \A j, k \in DOMAIN rs : Place(rs, j) <= Place(rs, k) => rs[j].start <= rs[k].start
         /\ \A n \in DOMAIN rs : \E k \in DOMAIN rs : Place(rs, k) = n
<1> DEFINE N == Len(rs)
           P(k) == {j \in DOMAIN rs : Before(rs, j, k)}
<1>1. N \in Nat /\ DOMAIN rs = 1 .. N
  OBVIOUS
<1>2. \A k \in DOMAIN rs : rs[k].start \in Nat
  <2>1. \A k \in DOMAIN rs : rs[k] \in Region OBVIOUS
  <2> QED BY <2>1 DEF Region
<1>3. \A j, k \in DOMAIN rs : j = k \/ (Before(rs, j, k) /\ ~Before(rs, k, j))
                                    \/ (Before(rs, k, j) /\ ~Before(rs, j, k))
  <2> SUFFICES ASSUME NEW j \in DOMAIN rs, NEW k \in DOMAIN rs, j # k
               PROVE  \/ Before(rs, j, k) /\ ~Before(rs, k, j)
                      \/ Before(rs, k, j) /\ ~Before(rs, j, k)
    OBVIOUS
  <2>1. j \in Int /\ k \in Int /\ rs[j].start \in Nat /\ rs[k].start \in Nat BY <1>1, <1>2, SMTT(60)
  <2> QED BY <2>1 DEF Before
<1>4. \A k \in DOMAIN rs : Before(rs, k, k)
  BY <1>1, <1>2, SMTT(60) DEF Before
<1>5. \A i, j, k \in DOMAIN rs : Before(rs, i, j) /\ Before(rs, j, k) => Before(rs, i, k)
  <2> SUFFICES ASSUME NEW i \in DOMAIN rs, NEW j \in DOMAIN rs, NEW k \in DOMAIN rs,
                      Before(rs, i, j), Before(rs, j, k)
               PROVE  Before(rs, i, k)
    OBVIOUS
  <2>1. /\ i \in Int /\ j \in Int /\ k \in Int
        /\ rs[i].start \in Nat /\ rs[j].start \in Nat /\ rs[k].start \in Nat
    BY <1>1, <1>2
  <2> QED BY <2>1 DEF Before
<1>6. \A k \in DOMAIN rs : Place(rs, k) = Cardinality(P(k)) /\ P(k) \in SUBSET (1 .. N)
  BY <1>1, Zenon DEF Place
<1>7. \A k \in DOMAIN rs : Place(rs, k) \in Nat /\ Place(rs, k) <= N
  <2>1. \A T \in SUBSET (1 .. N) : Cardinality(T) \in Nat /\ Cardinality(T) <= N
    BY <1>1, UpTo, Zenon
  <2> HIDE DEF P
  <2> QED BY <1>6, <2>1, Zenon
<1>8. ASSUME NEW j \in DOMAIN rs, NEW k \in DOMAIN rs, Before(rs, j, k), ~Before(rs, k, j)
      PROVE  Place(rs, j) < Place(rs, k)
  <2>1. k \notin P(j) /\ P(j) \cup {k} \subseteq P(k)
    BY <1>4, <1>5, <1>8, Zenon
  <2>2. Cardinality(P(j) \cup {k}) = Cardinality(P(j)) + 1
    BY <1>1, <1>6, <2>1, UpTo, Zenon
  <2>3. Cardinality(P(j) \cup {k}) <= Cardinality(P(k))
    BY <1>1, <1>6, <2>1, UpTo, Zenon
  <2>4. Place(rs, j) = Cardinality(P(j)) /\ Place(rs, k) = Cardinality(P(k)) BY <1>6, Zenon
  <2> HIDE DEF P
  <2> QED BY <1>7, <2>2, <2>3, <2>4, SMTT(60)
<1>9. \A k \in DOMAIN rs : Place(rs, k) # 0
  <2> SUFFICES ASSUME NEW k \in DOMAIN rs, Place(rs, k) = 0 PROVE FALSE OBVIOUS
  <2>1. P(k) \in SUBSET (1 .. N) /\ Cardinality(P(k)) = 0 BY <1>6, Zenon
  <2>2. k \in P(k) BY <1>4, Zenon
  <2> HIDE DEF P
  <2>3. P(k) = {} BY <1>1, <2>1, UpTo, Zenon
  <2> QED BY <2>2, <2>3, Zenon
<1> HIDE DEF P
<1>10. \A k \in DOMAIN rs : Place(rs, k) \in DOMAIN rs
  BY <1>1, <1>7, <1>9
<1>11. ASSUME NEW j \in DOMAIN rs, NEW k \in DOMAIN rs, Place(rs, j) = Place(rs, k) PROVE j = k
  <2>1. ~(Place(rs, j) < Place(rs, k)) /\ ~(Place(rs, k) < Place(rs, j)) BY <1>7, <1>11, SMTT(60)
  <2> QED BY <1>3, <1>8, <2>1, Zenon
<1>12. ASSUME NEW j \in DOMAIN rs, NEW k \in DOMAIN rs, Place(rs, j) <= Place(rs, k)
       PROVE  rs[j].start <= rs[k].start
  <2>1. ~(Place(rs, k) < Place(rs, j)) BY <1>7, <1>12
  <2>2. Before(rs, j, k) BY <1>3, <1>4, <1>8, <2>1, Zenon
  <2> QED BY <1>2, <2>2 DEF Before
<1>13. ASSUME NEW n \in DOMAIN rs PROVE \E k \in DOMAIN rs : Place(rs, k) = n
  <2> DEFINE D == DOMAIN rs
             f == [k \in D |-> Place(rs, k)]
  <2>1. f \in Sets!Injection(D, D)
    <3>1. f \in [D -> D] BY <1>10, Zenon
    <3>2. \A j, k \in D : f[j] = f[k] => j = k BY <1>11, Zenon
    <3>3. DOMAIN f = D BY Zenon
    <3> HIDE DEF f
    <3> QED BY <3>1, <3>2, <3>3, Zenon DEF Sets!Injection, Sets!IsInjective
  <2>2. Sets!IsFiniteSet(D) BY <1>1, UpTo, SameSets, Zenon
  <2>3. f \in Sets!Surjection(D, D) BY <2>1, <2>2, Sets!FS_Injection, Zenon
  <2>4. \E k \in D : f[k] = n BY <2>3, Zenon DEF Sets!Surjection
  <2> QED BY <2>4, Zenon
<1> QED BY <1>10, <1>11, <1>12, <1>13, Zenon

\* The places of all tables of regions.
LEMMA Places == Ranking
  BY PlacesOf, Zenon DEF Ranking

-------------------------------------------------------------------------------
\* Every step of the loader and of the kernel's allocator keeps the invariant.
LEMMA StepInv == Inv /\ [Next]_vars => Inv'
  BY LeastOf, Counts, Places, Sorts, AllocStep, GotStep, SlotStep, MapStep, TableStep,
     KernelStep, ZenonT(60) DEF Inv

\* The invariant of the boot sequence, from exit_boot_services to the jump and behind it.
THEOREM BootInvariant == Spec => []Inv
  BY InitInv, StepInv, PTL DEF Spec

-------------------------------------------------------------------------------
\* allocate_frame of the loader never gives away a frame of a loaded file, the argument
\* or a device window, whatever memory map the firmware reports: it only moves up, and
\* only through descriptors of free memory (frame_allocator.rs:108-129).
THEOREM LoaderSafe == Spec => []LoaderKeepsOff
  BY LoaderKeepsOffFromInv, BootInvariant, PTL

\* The kernel's frame allocator never gets a page table, a stack page, a file, a device
\* window or the argument: the regions handed over (main.rs:264-357, runtime_map.rs:184-194)
\* cover every one, the frames taken for the argument's own tables included.  The file of
\* bootstrap is entered with the length of the kernel file, so it must not be longer.
THEOREM KernelSafe ==
  ASSUME \A m \in Machines : m.bootstrap.length <= m.kernel.length
  PROVE  Spec => []KernelKeepsOff
  BY KernelKeepsOffFromInv, BootInvariant, PTL

\* The regions are sorted by their start when the kernel gets them, whatever their number
\* and order (runtime_map.rs:196-197): the kernel merges them in one pass.
THEOREM SortedForKernel == Spec => []RegionsSorted
  BY RegionsSortedFromInv, BootInvariant, PTL

\* When the kernel runs, every object is behind the top-level entry shared/src/lib.rs fixes
\* for it and mapped whole, the stack has its pages and the page tables are in the window
\* on physical memory: each call asserts the entry it got from find_free_space_and_mark.
THEOREM LayoutSafe == Spec => []LayoutAgreed
  BY LayoutAgreedFromInv, Places, BootInvariant, PTL

===============================================================================
