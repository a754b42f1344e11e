------------------------------- MODULE ApStartup -------------------------------
(***************************************************************************)
(* The boot of the other processors (APs) by the boot processor (BSP):      *)
(* setup_ap_startup (kernel/src/acpi/ap_startup.rs), the trampoline         *)
(* (kernel/src/asm/trampoline.asm), _start_ap (kernel/src/main.rs) with     *)
(* init_gdt, init_idt and setup_apic.                                       *)
(*                                                                          *)
(* All APs start from the same page of memory, the trampoline: the BSP      *)
(* writes the id and the stack of one AP there, sends it INIT and STARTUP,  *)
(* and waits on two flags before it uses the page again.  The frame         *)
(* allocator and the heap (kernel/src/mem/heap.rs) are each in a cell that  *)
(* panics when two CPUs are inside; the mutex of the heap is in its cell.   *)
(***************************************************************************)
EXTENDS Madt, Integers, Functions, FiniteSets

APs == CPUs \ {BspId}
Nothing == -1                  \* no id, no stack
Cells == {"frames", "heap"}

VARIABLES
  cpu_pc,      \* of each CPU: where it is
  next,        \* the next entry of lapics
  trampoline,  \* the words of the trampoline: ready, cpu_id, stack_end
  ap_ready,    \* AP_READY
  cpu_count,   \* CPU_COUNT
  ipis,        \* the interrupts under way to each CPU, in order
  stacks,      \* number of stacks allocated; a stack is its number
  inside,      \* the CPUs inside the cell of the frame allocator, and of the heap
  rsp, tss,    \* of each CPU: the stack it runs on, the one in its TSS
  cpu_id,      \* of each CPU: its LogicalCpuId
  once,        \* the segments whose Once is set
  gdt,         \* of each CPU: the entries of its GDT behind the null entry
  idts         \* the LogicalCpuIds that have an IDT

\* The ids the boot loader passes, in the order of the MADT: an argument, which nothing
\* here changes.
lapics == [k \in DOMAIN local_apic |-> local_apic[k].id]

starting == <<cpu_pc, next, trampoline, ap_ready, cpu_count, ipis, stacks, inside, rsp, tss, cpu_id,
          once, gdt, idts>>
boot == <<lapics, next, trampoline, ap_ready, cpu_count, ipis>>   \* written by the BSP's loop
local == <<rsp, tss, cpu_id, once, gdt, idts>>            \* written by init_gdt and init_idt

\* The BSP runs _start on the stack of the boot loader, stack 0.
StartInit ==
  /\ cpu_pc = [c \in CPUs |-> IF c = BspId THEN "gdt_alloc" ELSE "halted"]
  /\ next = 1
  /\ trampoline = [ready |-> 0, cpu_id |-> Nothing, stack_end |-> Nothing]
  /\ ap_ready = FALSE
  /\ cpu_count = 0
  /\ ipis = [c \in CPUs |-> <<>>]
  /\ stacks = 0
  /\ inside = [cell \in Cells |-> {}]
  /\ rsp = [c \in CPUs |-> IF c = BspId THEN 0 ELSE Nothing]
  /\ tss = [c \in CPUs |-> Nothing]
  /\ cpu_id = [c \in CPUs |-> IF c = BspId THEN 0 ELSE Nothing]
  /\ once = {}
  /\ gdt = [c \in CPUs |-> <<>>]
  /\ idts = {}

Goto(c, label) == cpu_pc' = [cpu_pc EXCEPT ![c] = label]

-------------------------------------------------------------------------------
\* UPSafeCell::inner_exclusive_mut: a second borrow panics.
EnterCell(c, cell, from, to) ==
  /\ cpu_pc[c] = from
  /\ IF inside[cell] = {} THEN inside' = [inside EXCEPT ![cell] = {c}] /\ Goto(c, to)
                          ELSE Goto(c, "panic") /\ UNCHANGED inside
  /\ UNCHANGED <<boot, local, stacks>>

\* The borrow ends.
LeaveCell(c, cell) == inside' = [inside EXCEPT ![cell] = @ \ {c}]

\* with_frame_alloc: the cell is borrowed, used, and given back.
EnterAllocator(c, from, to) == EnterCell(c, "frames", from, to)

\* alloc of the global allocator: the cell is borrowed before the mutex is locked.
EnterHeap(c, from, to) == EnterCell(c, "heap", from, to)

LeaveHeap(c, from, to) ==
  /\ cpu_pc[c] = from
  /\ LeaveCell(c, "heap")
  /\ Goto(c, to)
  /\ UNCHANGED <<boot, local, stacks>>

\* What add_entry has put in the GDT of the CPU: a segment behind a Once only if the
\* Once is not set yet.
OnceSegments == <<"code32", "user_data", "user_code">>
GdtEntries == <<"code", "data">> \o SelectSeq(OnceSegments, LAMBDA s : s \notin once) \o <<"tss">>

\* init_gdt, once it has its frames: the stack of the TSS is the argument, for an AP
\* the word of the trampoline.
InitGdt(c) ==
  /\ cpu_pc[c] = "gdt"
  /\ LeaveCell(c, "frames")
  /\ tss' = [tss EXCEPT ![c] = IF c = BspId THEN 0 ELSE trampoline.stack_end]
  /\ gdt' = [gdt EXCEPT ![c] = GdtEntries]
  /\ once' = once \cup Range(OnceSegments)
  /\ Goto(c, "idt_box")
  /\ UNCHANGED <<boot, stacks, rsp, cpu_id, idts>>

\* init_idt once its table is on the heap and its stack allocated, setup_apic and
\* init_syscall; an AP then says that it is ready.
InitIdt(c) ==
  /\ cpu_pc[c] = "idt"
  /\ LeaveCell(c, "frames")
  /\ idts' = idts \cup {cpu_id[c]}
  /\ Goto(c, IF c = BspId THEN "count" ELSE "apic")
  /\ UNCHANGED <<boot, stacks, rsp, tss, cpu_id, once, gdt>>

InitCpu(c) ==
  \/ EnterAllocator(c, "gdt_alloc", "gdt")
  \/ InitGdt(c)
  \/ EnterHeap(c, "idt_box", "idt_boxed")
  \/ LeaveHeap(c, "idt_boxed", "idt_alloc")
  \/ EnterAllocator(c, "idt_alloc", "idt")
  \/ InitIdt(c)

-------------------------------------------------------------------------------
\* _start, after init_syscall, and the copy of the trampoline.
StoreCount ==
  /\ cpu_pc[BspId] = "count"
  /\ cpu_count' = 1
  /\ ap_ready' = FALSE
  /\ trampoline' = [ready |-> 0, cpu_id |-> 0, stack_end |-> 0]
  /\ Goto(BspId, "loop")
  /\ UNCHANGED <<lapics, next, ipis, stacks, inside, local>>

SkipBsp ==
  /\ cpu_pc[BspId] = "loop" /\ next <= Len(lapics) /\ lapics[next] = OwnId
  /\ next' = next + 1
  /\ UNCHANGED <<lapics, cpu_pc, trampoline, ap_ready, cpu_count, ipis, stacks, inside, local>>

CountAp ==
  /\ cpu_pc[BspId] = "loop" /\ next <= Len(lapics) /\ lapics[next] # OwnId
  /\ cpu_count' = cpu_count + 1
  /\ Goto(BspId, "stack_alloc")
  /\ UNCHANGED <<lapics, next, trampoline, ap_ready, ipis, stacks, inside, local>>

\* The stack of the AP, then the words of the trampoline.
Prepare ==
  /\ cpu_pc[BspId] = "prepare"
  /\ LeaveCell(BspId, "frames")
  /\ stacks' = stacks + 1
  /\ trampoline' = [ready |-> 0, cpu_id |-> lapics[next], stack_end |-> stacks + 1]
  /\ Goto(BspId, "clear")
  /\ UNCHANGED <<lapics, next, ap_ready, cpu_count, ipis, local>>

\* Mutant: the flag of the AP before is still set.
MutClearReady ==
  /\ cpu_pc[BspId] = "clear"
  /\ Goto(BspId, "init")
  /\ UNCHANGED <<lapics, next, trampoline, ap_ready, cpu_count, ipis, stacks, inside, local>>

ClearReady ==
  /\ cpu_pc[BspId] = "clear"
  /\ ap_ready' = FALSE
  /\ Goto(BspId, "init")
  /\ UNCHANGED <<lapics, next, trampoline, cpu_count, ipis, stacks, inside, local>>


\* set_icr with INIT, then with STARTUP.
SendIpi(from, kind, to) ==
  /\ cpu_pc[BspId] = from
  /\ ipis' = [ipis EXCEPT ![lapics[next]] = Append(@, kind)]
  /\ Goto(BspId, to)
  /\ UNCHANGED <<lapics, next, trampoline, ap_ready, cpu_count, stacks, inside, local>>

WaitTrampoline ==
  /\ cpu_pc[BspId] = "wait_trampoline" /\ trampoline.ready # 0
  /\ Goto(BspId, "wait_ap")
  /\ UNCHANGED <<boot, stacks, inside, local>>

\* Mutant: the BSP goes on as soon as the trampoline has been left.
MutWaitAp ==
  /\ cpu_pc[BspId] = "wait_ap"
  /\ next' = next + 1
  /\ Goto(BspId, "loop")
  /\ UNCHANGED <<lapics, trampoline, ap_ready, cpu_count, ipis, stacks, inside, local>>

WaitAp ==
  /\ cpu_pc[BspId] = "wait_ap" /\ ap_ready
  /\ next' = next + 1
  /\ Goto(BspId, "loop")
  /\ UNCHANGED <<lapics, trampoline, ap_ready, cpu_count, ipis, stacks, inside, local>>

\* The rest of _start runs after this; the first thing it does is a push to a Vec on the
\* heap, in setup_io_apic.
LoopDone ==
  /\ cpu_pc[BspId] = "loop" /\ next > Len(lapics)
  /\ Goto(BspId, "done")
  /\ UNCHANGED <<boot, stacks, inside, local>>

Bsp ==
  \/ InitCpu(BspId)
  \/ StoreCount \/ SkipBsp \/ CountAp
  \/ EnterAllocator(BspId, "stack_alloc", "prepare")
  \/ Prepare \/ ClearReady
  \/ SendIpi("init", "INIT", "startup") \/ SendIpi("startup", "STARTUP", "wait_trampoline")
  \/ WaitTrampoline \/ WaitAp \/ LoopDone
  \/ EnterHeap(BspId, "done", "rest") \/ LeaveHeap(BspId, "rest", "alone")

-------------------------------------------------------------------------------
\* INIT stops a CPU wherever it is; STARTUP starts it if it waits for it.
Receive(c) ==
  /\ ipis[c] # <<>>
  /\ ipis' = [ipis EXCEPT ![c] = Tail(@)]
  /\ cpu_pc' = [cpu_pc EXCEPT ![c] = IF Head(ipis[c]) = "INIT" THEN "stopped"
                             ELSE IF @ = "stopped" THEN "trampoline" ELSE @]
  /\ UNCHANGED <<lapics, next, trampoline, ap_ready, cpu_count, stacks, inside, local>>

\* The trampoline takes the stack.
TakeStack(c) ==
  /\ cpu_pc[c] = "trampoline"
  /\ rsp' = [rsp EXCEPT ![c] = trampoline.stack_end]
  /\ Goto(c, "leave_trampoline")
  /\ UNCHANGED <<boot, stacks, inside, tss, cpu_id, once, gdt, idts>>

LeaveTrampoline(c) ==
  /\ cpu_pc[c] = "leave_trampoline"
  /\ trampoline' = [trampoline EXCEPT !.ready = 1]
  /\ Goto(c, "start_ap")
  /\ UNCHANGED <<lapics, next, ap_ready, cpu_count, ipis, stacks, inside, local>>

\* _start_ap: the argument is a pointer into the trampoline.
StartAp(c) ==
  /\ cpu_pc[c] = "start_ap"
  /\ cpu_id' = [cpu_id EXCEPT ![c] = trampoline.cpu_id]
  /\ Goto(c, "gdt_alloc")
  /\ UNCHANGED <<boot, stacks, inside, rsp, tss, once, gdt, idts>>

StoreReady(c) ==
  /\ cpu_pc[c] = "apic"
  /\ ap_ready' = TRUE
  /\ Goto(c, "wait_bsp")
  /\ UNCHANGED <<lapics, next, trampoline, cpu_count, ipis, stacks, inside, local>>

\* An AP then spins on BSP_READY, which nobody stores (main.rs:137).
Ap(c) ==
  TakeStack(c) \/ LeaveTrampoline(c) \/ StartAp(c) \/ InitCpu(c) \/ StoreReady(c)

-------------------------------------------------------------------------------
\* The types of the variables; a cell has at most one CPU inside.
StartTypeOK ==
  /\ next \in 1 .. Len(lapics) + 1
  /\ stacks \in 0 .. Len(lapics)
  /\ cpu_count \in 0 .. Cardinality(CPUs)
  /\ trampoline.ready \in {0, 1}
  /\ \A cell \in Cells : inside[cell] \subseteq CPUs /\ Cardinality(inside[cell]) <= 1
  /\ \A c \in CPUs : Len(ipis[c]) <= 2

\* Every CPU that is past init_gdt knows its own id (main.rs:195), has the stack the BSP
\* allocated for it in rsp and in its TSS, and shares it with no other CPU
\* (ap_startup.rs:36-56, trampoline.asm:80): the page is not reused too early.
OwnIdAndStack ==
  \A c \in CPUs : gdt[c] # <<>> =>
    /\ cpu_id[c] = IF c = BspId THEN 0 ELSE c
    /\ rsp[c] = tss[c] /\ rsp[c] # Nothing
    /\ \A d \in CPUs : d # c => rsp[d] = Nothing \/ rsp[d] # rsp[c]

\* The cells of the frame allocator and of the heap (uni_processor.rs:14) are never
\* borrowed by two CPUs: whoever allocates is alone, since the BSP waits for each AP.
NoBorrowPanic == \A c \in CPUs : cpu_pc[c] # "panic"

\* When the BSP leaves setup_ap_startup, every CPU of the MADT has been counted, has its
\* IDT and is past its own start (ap_startup.rs:78-83), so that the rest of the boot runs
\* alone.
AllStarted ==
  cpu_pc[BspId] \in {"done", "rest", "alone"} =>
    /\ cpu_count = 1 + Cardinality(Range(lapics) \ {BspId})
    /\ \A c \in Range(lapics) \ {BspId} : cpu_pc[c] = "wait_bsp" /\ c \in idts

-------------------------------------------------------------------------------
(***************************************************************************)
(* What the source says and the code does not do.                           *)
(***************************************************************************)
\* "skipping bsp" (ap_startup.rs:29): the BSP sends no INIT to itself.
SkipsTheBsp == cpu_pc[BspId] # "stopped"

\* "GDT[3] = KERNEL_CODE_32 ... GDT[6..8] = TSS" (gdt.rs:73-76), on every CPU.
GdtLayout ==
  \A c \in CPUs : gdt[c] # <<>> =>
    gdt[c] = <<"code", "data", "code32", "user_data", "user_code", "tss">>
===============================================================================
