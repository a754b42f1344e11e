---------------------------- MODULE ApStartupProofs ----------------------------
(***************************************************************************)
(* The start of the processors, for any number of them and in any order of  *)
(* the MADT: the invariant of the steps of ApStartup.                       *)
(***************************************************************************)
EXTENDS ApStartup, TLAPS

\* The id a processor reads of itself does not change.
LEMMA OwnIdFixed == OwnId' = OwnId
BY Zenon DEF OwnId

-------------------------------------------------------------------------------
(***************************************************************************)
(* The start of the APs is a sequence, although many CPUs take part: while  *)
(* the BSP wakes one AP, all others wait or have not run at all, and while  *)
(* it does anything else, all of them do.                                   *)
(***************************************************************************)
Early == {"gdt_alloc", "gdt", "idt_box", "idt_boxed", "idt_alloc", "idt", "count"}
Counted == {"stack_alloc", "prepare", "clear"}
Waking == {"init", "startup", "wait_trampoline", "wait_ap"}
After == {"done", "rest", "alone"}
Stuck == {"stopped", "trampoline"}          \* the BSP took itself for an AP

NoStack == {"halted", "stopped", "trampoline"}
InTrampoline == NoStack \cup {"leave_trampoline"}
NoId == InTrampoline \cup {"start_ap"}
NoGdt == NoId \cup {"gdt_alloc", "gdt"}
ApLabels == NoGdt \cup {"idt_box", "idt_boxed", "idt_alloc", "idt", "apic", "wait_bsp"}
Labels == ApLabels \cup Early \cup {"loop"} \cup Counted \cup Waking \cup After \cup Stuck
InFrames == {"gdt", "idt", "prepare"}
InHeap == {"idt_boxed", "rest"}

BspPc == cpu_pc[BspId]
NextAp == lapics[next]
Past(c) == c # OwnId /\ \E k \in 1 .. next - 1 : lapics[k] = c

Types ==
  /\ cpu_pc \in [CPUs -> Labels]
  /\ next \in Nat \ {0} /\ stacks \in Nat /\ cpu_count \in Nat
  /\ DOMAIN trampoline = {"ready", "cpu_id", "stack_end"}
  /\ ap_ready \in BOOLEAN
  /\ DOMAIN ipis = CPUs /\ DOMAIN rsp = CPUs /\ DOMAIN tss = CPUs /\ DOMAIN cpu_id = CPUs
  /\ DOMAIN gdt = CPUs
  /\ DOMAIN inside = {"frames", "heap"}

Lapics ==
  /\ DOMAIN lapics = 1 .. Len(lapics) /\ Len(lapics) \in Nat
  /\ \A k \in DOMAIN lapics : lapics[k] \in CPUs
  /\ \A j, k \in DOMAIN lapics : j # k => lapics[j] # lapics[k]

\* Where the BSP is, and what it has to do with the entry at next.
BspInv ==
  /\ BspPc \in Early \cup {"loop"} \cup Counted \cup Waking \cup After \cup Stuck
  /\ BspPc \in Early => next = 1
  /\ BspPc = "loop" => next \in 1 .. Len(lapics) + 1
  /\ BspPc \in Counted \cup Waking \cup Stuck => next \in DOMAIN lapics /\ NextAp # OwnId
  /\ BspPc \in Stuck => NextAp = BspId
  /\ BspPc \in After => next = Len(lapics) + 1
  /\ cpu_id[BspId] = 0 /\ rsp[BspId] = 0
  /\ IF BspPc \in {"gdt_alloc", "gdt"} THEN gdt[BspId] = <<>> ELSE tss[BspId] = 0
  /\ BspPc \notin Early \/ BspPc = "count" => 0 \in idts
  /\ IF BspPc \in Waking /\ NextAp = BspId
     THEN /\ trampoline.ready = 0 /\ BspPc # "wait_ap"
          /\ BspPc = "init" => ipis[BspId] = <<>>
          /\ BspPc = "startup" => ipis[BspId] = <<"INIT">>
          /\ BspPc = "wait_trampoline" => ipis[BspId] = <<"INIT", "STARTUP">>
     ELSE BspPc \notin Stuck => ipis[BspId] = <<>>

\* What an AP has of its own, as far as it has come.
OwnInv(c) ==
  /\ cpu_pc[c] \in ApLabels
  /\ IF cpu_pc[c] \in NoStack THEN rsp[c] = Nothing ELSE rsp[c] \in 1 .. stacks
  /\ cpu_pc[c] \notin NoId => cpu_id[c] = c
  /\ IF cpu_pc[c] \in NoGdt THEN gdt[c] = <<>> ELSE tss[c] = rsp[c]
  /\ cpu_pc[c] \in {"apic", "wait_bsp"} => c \in idts

\* How far the AP that the BSP wakes can be.
WokenInv(c) ==
  /\ BspPc = "init" => cpu_pc[c] = "halted" /\ ipis[c] = <<>>
  /\ BspPc = "startup" => \/ cpu_pc[c] = "halted" /\ ipis[c] = <<"INIT">>
                          \/ cpu_pc[c] = "stopped" /\ ipis[c] = <<>>
  /\ BspPc = "wait_trampoline" => \/ cpu_pc[c] = "halted" /\ ipis[c] = <<"INIT", "STARTUP">>
                                  \/ cpu_pc[c] = "stopped" /\ ipis[c] = <<"STARTUP">>
                                  \/ cpu_pc[c] \notin {"halted", "stopped"} /\ ipis[c] = <<>>
  /\ BspPc = "wait_ap" => cpu_pc[c] \notin InTrampoline /\ ipis[c] = <<>>
  /\ trampoline.ready = 0 <=> cpu_pc[c] \in InTrampoline
  /\ ap_ready <=> cpu_pc[c] = "wait_bsp"
  /\ cpu_pc[c] \notin NoStack => rsp[c] = stacks

Woken(c) == BspPc \in Waking /\ c = NextAp

\* All other APs have been started, or have not run.
RestInv(c) ==
  /\ ipis[c] = <<>>
  /\ cpu_pc[c] = IF Past(c) THEN "wait_bsp" ELSE "halted"

ApInv(c) == OwnInv(c) /\ IF Woken(c) THEN WokenInv(c) ELSE RestInv(c)

\* The trampoline has the words of the AP being started, and nobody has its stack before it.
PageInv ==
  /\ BspPc = "clear" => trampoline.ready = 0
  /\ BspPc \in {"clear"} \cup Waking =>
       /\ trampoline.cpu_id = NextAp /\ trampoline.stack_end = stacks /\ stacks >= 1
       /\ (BspPc \in Waking => cpu_pc[NextAp] \in NoStack) => \A d \in CPUs : rsp[d] # stacks
  /\ \A c \in CPUs : rsp[c] \in {Nothing} \cup 0 .. stacks
  /\ \A c, d \in CPUs : c # d => rsp[c] = Nothing \/ rsp[c] # rsp[d]

\* Who is inside a cell can be seen from the labels.
CellInv ==
  /\ inside["frames"] = {c \in CPUs : cpu_pc[c] \in InFrames}
  /\ inside["heap"] = {c \in CPUs : cpu_pc[c] \in InHeap}

Seen == IF BspPc \in Counted \cup Waking \cup Stuck THEN next ELSE next - 1
CountInv ==
  BspPc \notin Early =>
    cpu_count = 1 + Cardinality({lapics[k] : k \in 1 .. Seen} \ {OwnId})

SmpInv == Types /\ BspInv /\ (\A c \in CPUs \ {BspId} : ApInv(c)) /\ PageInv /\ CellInv /\ CountInv

\* What is counted: nothing at first, and one more with each id that is not the BSP's.
\* This is so for every list with the property Lapics (AcpiBootProofs!OneMore).
Counting ==
  /\ Cardinality({}) = 0
  /\ \A n \in DOMAIN lapics : lapics[n] # OwnId =>
       /\ Cardinality({lapics[k] : k \in 1 .. n - 1} \ {OwnId}) \in Nat
       /\ Cardinality({lapics[k] : k \in 1 .. n} \ {OwnId})
            = Cardinality({lapics[k] : k \in 1 .. n - 1} \ {OwnId}) + 1

-------------------------------------------------------------------------------
\* A CPU that has left its wait is the one being woken, and the BSP waits for it.
LEMMA RunningIsWoken ==
  ASSUME SmpInv, NEW c \in APs, cpu_pc[c] \notin {"halted", "wait_bsp"}
  PROVE  /\ Woken(c) /\ BspPc \in {"startup", "wait_trampoline", "wait_ap"}
         /\ OwnInv(c) /\ WokenInv(c)
         /\ cpu_pc[c] # "stopped" => BspPc # "startup" /\ ipis[c] = <<>>
<1>1. ApInv(c)
  BY DEF SmpInv, APs
<1>2. Woken(c)
  BY <1>1, Zenon DEF ApInv, RestInv
<1>3. OwnInv(c) /\ WokenInv(c)
  BY <1>1, <1>2, Zenon DEF ApInv
<1> QED BY <1>2, <1>3 DEF Woken, Waking, WokenInv

\* Whoever runs is alone outside the waits.
LEMMA OthersQuiet ==
  ASSUME SmpInv, NEW c \in CPUs, \/ c = BspId /\ BspPc \notin Waking
                                 \/ c # BspId /\ Woken(c),
         NEW d \in CPUs, d # c
  PROVE  cpu_pc[d] \notin InFrames \cup InHeap
<1>1. CASE d = BspId
  BY <1>1 DEF Woken, Waking, InFrames, InHeap, BspPc
<1>2. CASE d # BspId
  <2>1. ApInv(d) /\ ~Woken(d)
    BY <1>2 DEF SmpInv, Woken
  <2>2. cpu_pc[d] \in {"wait_bsp", "halted"}
    BY <2>1 DEF ApInv, RestInv
  <2> QED BY <2>2 DEF InFrames, InHeap
<1> QED BY <1>1, <1>2

\* Nothing of an AP is touched.
LEMMA FrameAp ==
  ASSUME NEW d \in APs, ApInv(d), ~Woken(d), ~Woken(d)', Past(d)' <=> Past(d),
         cpu_pc'[d] = cpu_pc[d], rsp'[d] = rsp[d], tss'[d] = tss[d], cpu_id'[d] = cpu_id[d],
         gdt'[d] = gdt[d], ipis'[d] = ipis[d], idts \subseteq idts',
         stacks \in Nat, stacks' \in Nat, stacks <= stacks'
  PROVE  ApInv(d)'
<1>1. OwnInv(d)'
  BY DEF ApInv, OwnInv, Nothing
<1>2. RestInv(d)'
  BY Zenon DEF ApInv, RestInv
<1> QED BY <1>1, <1>2, Zenon DEF ApInv

\* A step of the AP that is being woken: what it does to itself is all there is to see.
LEMMA ApStep ==
  ASSUME SmpInv, NEW c \in APs, Woken(c), lapics' = lapics, next' = next, stacks' = stacks,
         cpu_count' = cpu_count, idts \subseteq idts', BspPc' = BspPc,
         trampoline'.cpu_id = trampoline.cpu_id, trampoline'.stack_end = trampoline.stack_end,
         \A d \in CPUs \ {c} : /\ cpu_pc'[d] = cpu_pc[d] /\ rsp'[d] = rsp[d] /\ tss'[d] = tss[d]
                               /\ cpu_id'[d] = cpu_id[d] /\ gdt'[d] = gdt[d] /\ ipis'[d] = ipis[d],
         \/ rsp'[c] = rsp[c] /\ (cpu_pc'[c] \in NoStack => cpu_pc[c] \in NoStack)
         \/ cpu_pc[c] \in NoStack /\ cpu_pc'[c] \notin NoStack /\ rsp'[c] = stacks,
         Types', CellInv', OwnInv(c)', WokenInv(c)'
  PROVE  SmpInv'
<1>1. /\ BspPc \in Waking /\ c = NextAp /\ c # BspId /\ c \in CPUs /\ BspId \in CPUs /\ NextAp' = NextAp
      /\ BspPc \notin Early \cup {"clear"} /\ BspPc \notin Stuck
  BY ProcessorsAssumption, Zenon DEF Woken, APs, NextAp, Waking, Early, Stuck
<1>2. BspInv'
  BY <1>1, Zenon DEF SmpInv, BspInv, APs, BspPc
<1>3. ASSUME NEW d \in APs
      PROVE  ApInv(d)'
  <2>1. CASE d = c
    BY <2>1, <1>1, Zenon DEF ApInv, Woken
  <2>2. CASE d # c
    <3>1. ~Woken(d) /\ ~Woken(d)' /\ (Past(d)' <=> Past(d))
      BY <1>1, <2>2 DEF Woken, Past
    <3>2. ApInv(d) /\ stacks \in Nat
      BY Zenon DEF SmpInv, APs, Types
    <3> QED BY <2>2, <3>1, <3>2, FrameAp DEF APs
  <2> QED BY <2>1, <2>2
<1>4. PageInv'
  <2>1. stacks \in Nat /\ PageInv
    BY Zenon DEF SmpInv, Types
  <2>2. \A x, y \in CPUs : x # y => rsp'[x] = Nothing \/ rsp'[x] # rsp'[y]
    BY <1>1, <2>1 DEF PageInv
  <2>3. \A x \in CPUs : rsp'[x] \in {Nothing} \cup 0 .. stacks
    BY <2>1 DEF PageInv
  <2>4. cpu_pc'[c] \in NoStack => \A d \in CPUs : rsp'[d] # stacks
    BY <1>1, <2>1 DEF PageInv
  <2> QED BY <1>1, <2>1, <2>2, <2>3, <2>4, Zenon DEF PageInv, Nothing
<1>5. CountInv'
  <2>1. Seen' = Seen
    BY Zenon DEF Seen
  <2>2. CountInv
    BY Zenon DEF SmpInv
  <2> QED BY <2>1, <2>2, ZenonT(60) DEF CountInv
<1> QED BY <1>2, <1>3, <1>4, <1>5, Zenon DEF SmpInv, APs

\* A CPU moves on; the others do not.
Moves(c, label) ==
  /\ cpu_pc' \in [CPUs -> Labels] /\ cpu_pc'[c] = label
  /\ \A d \in CPUs \ {c} : cpu_pc'[d] = cpu_pc[d]

\* That is what Goto does.
LEMMA GotoMoves ==
  ASSUME Types, NEW c \in CPUs, NEW label \in Labels, Goto(c, label)
  PROVE  Moves(c, label)
  BY DEF Types, Goto, Moves

\* Entering a cell that nobody is in, and leaving it.
Enters(c, cell) == inside'[cell] = {c} /\ \A x \in {"frames", "heap"} \ {cell} : inside'[x] = inside[x]
Leaves(c, cell) == inside'[cell] = {} /\ \A x \in {"frames", "heap"} \ {cell} : inside'[x] = inside[x]
Alone(c) == (c = BspId /\ BspPc \notin Waking) \/ (c # BspId /\ Woken(c))

\* Only the one CPU that allocates can be in a cell.
LEMMA CellEmpty ==
  ASSUME SmpInv, NEW c \in CPUs, Alone(c)
  PROVE  /\ cpu_pc[c] \notin InFrames => inside["frames"] = {}
         /\ cpu_pc[c] \notin InHeap => inside["heap"] = {}
         /\ inside["frames"] \subseteq {c} /\ inside["heap"] \subseteq {c}
<1>1. \A d \in CPUs : d # c => cpu_pc[d] \notin InFrames /\ cpu_pc[d] \notin InHeap
  BY OthersQuiet DEF Alone
<1> QED BY <1>1, Zenon DEF SmpInv, CellInv

\* EnterCell never panics for the CPU that is alone.
LEMMA EnterCellEffect ==
  ASSUME SmpInv, NEW c \in CPUs, Alone(c), NEW from, NEW to \in Labels,
         NEW cell \in {"frames", "heap"}, from \notin InFrames \cup InHeap,
         to \in IF cell = "frames" THEN InFrames ELSE InHeap,
         EnterCell(c, cell, from, to)
  PROVE  /\ cpu_pc[c] = from /\ Moves(c, to) /\ DOMAIN inside' = {"frames", "heap"} /\ CellInv'
         /\ UNCHANGED <<lapics, next, trampoline, ap_ready, cpu_count, ipis, stacks, rsp, tss, cpu_id,
                        once, gdt, idts>>
<1>1. /\ cpu_pc[c] = from /\ Types
      /\ UNCHANGED <<lapics, next, trampoline, ap_ready, cpu_count, ipis, stacks, rsp, tss, cpu_id,
                        once, gdt, idts>>
  BY DEF EnterCell, boot, local, SmpInv
<1>2. inside["frames"] = {} /\ inside["heap"] = {}
  BY <1>1, CellEmpty, Zenon
<1>3. inside[cell] = {}
  BY <1>2
<1>4. inside' = [inside EXCEPT ![cell] = {c}] /\ Goto(c, to)
  BY <1>3 DEF EnterCell
<1>5. Moves(c, to)
  BY <1>1, <1>4, GotoMoves, Zenon
<1>6. DOMAIN inside = {"frames", "heap"}
  BY <1>1 DEF Types
<1>7. DOMAIN inside' = {"frames", "heap"} /\ Enters(c, cell)
  BY <1>4, <1>6, Zenon DEF Enters
<1>8. \A d \in CPUs : d # c => cpu_pc[d] \notin InFrames /\ cpu_pc[d] \notin InHeap
  BY OthersQuiet DEF Alone
<1>9. InFrames \cap InHeap = {}
  BY DEF InFrames, InHeap
<1>10. CellInv'
  <2>1. CASE cell = "frames"
    <3>1. inside'["frames"] = {c} /\ inside'["heap"] = {} /\ to \in InFrames /\ to \notin InHeap
      BY <1>2, <1>7, <1>9, <2>1, Zenon DEF Enters
    <3> QED BY <1>5, <1>8, <3>1, Zenon DEF CellInv, Moves
  <2>2. CASE cell = "heap"
    <3>1. inside'["heap"] = {c} /\ inside'["frames"] = {} /\ to \in InHeap /\ to \notin InFrames
      BY <1>2, <1>7, <1>9, <2>2 DEF Enters
    <3> QED BY <1>5, <1>8, <3>1, Zenon DEF CellInv, Moves
  <2> QED BY <2>1, <2>2
<1> QED BY <1>1, <1>5, <1>7, <1>10

\* A CPU that is alone leaves the cell it is in.
LEMMA LeaveCellEffect ==
  ASSUME SmpInv, NEW c \in CPUs, Alone(c), NEW to \in Labels, to \notin InFrames \cup InHeap,
         NEW cell \in {"frames", "heap"}, cpu_pc[c] \in IF cell = "frames" THEN InFrames ELSE InHeap,
         LeaveCell(c, cell), Goto(c, to)
  PROVE  Moves(c, to) /\ DOMAIN inside' = {"frames", "heap"} /\ CellInv'
<1>1. Types /\ DOMAIN inside = {"frames", "heap"}
  BY DEF SmpInv, Types
<1>2. Moves(c, to)
  BY <1>1, GotoMoves, Zenon
<1>3. InFrames \cap InHeap = {}
  BY Zenon DEF InFrames, InHeap
<1>4. inside[cell] \subseteq {c} /\ \A x \in {"frames", "heap"} \ {cell} : inside[x] = {}
  BY <1>3, CellEmpty, Zenon
<1>5. DOMAIN inside' = {"frames", "heap"} /\ \A x \in {"frames", "heap"} : inside'[x] = {}
  BY <1>1, <1>4, Zenon DEF LeaveCell
<1>6. \A d \in CPUs : d # c => cpu_pc[d] \notin InFrames /\ cpu_pc[d] \notin InHeap
  BY OthersQuiet DEF Alone
<1>7. CellInv'
  BY <1>2, <1>5, <1>6, Zenon DEF CellInv, Moves
<1> QED BY <1>2, <1>5, <1>7, Zenon

\* A move that has nothing to do with the cells.
LEMMA CellsSame ==
  ASSUME SmpInv, NEW c \in CPUs, NEW to, Moves(c, to), cpu_pc[c] \notin InFrames \cup InHeap,
         to \notin InFrames \cup InHeap, inside' = inside
  PROVE  CellInv' /\ DOMAIN inside' = {"frames", "heap"}
  BY Zenon DEF SmpInv, CellInv, Moves, Types

-------------------------------------------------------------------------------
\* The steps of an AP: the trampoline gives it its stack.
LEMMA TakeStackInv ==
  ASSUME SmpInv, NEW c \in APs, TakeStack(c)
  PROVE  SmpInv'
<1>1. /\ cpu_pc[c] = "trampoline" /\ Goto(c, "leave_trampoline")
      /\ rsp' = [rsp EXCEPT ![c] = trampoline.stack_end]
      /\ UNCHANGED <<lapics, next, trampoline, ap_ready, cpu_count, ipis, stacks, inside, tss, cpu_id,
                     once, gdt, idts>>
  BY Zenon DEF TakeStack, boot
<1>2. Woken(c) /\ OwnInv(c) /\ WokenInv(c) /\ Types /\ c \in CPUs
  BY <1>1, RunningIsWoken, Zenon DEF SmpInv, APs
<1>3. Moves(c, "leave_trampoline")
  BY <1>1, <1>2, GotoMoves, Zenon DEF Labels, ApLabels, NoGdt, NoId, InTrampoline
<1>4. CellInv' /\ DOMAIN inside' = {"frames", "heap"}
  BY <1>1, <1>2, <1>3, CellsSame, Zenon DEF InFrames, InHeap
<1>5. BspPc' = BspPc /\ trampoline.stack_end = stacks /\ stacks >= 1 /\ stacks \in Nat
  BY <1>2, <1>3, ProcessorsAssumption, Zenon DEF Woken, Moves, APs, BspPc, SmpInv, PageInv, Types
<1>6. Types'
  BY <1>1, <1>2, <1>3, <1>4, Zenon DEF Types, Moves
<1>7. rsp'[c] = stacks /\ \A d \in CPUs \ {c} : rsp'[d] = rsp[d]
  BY <1>1, <1>2, <1>5, Zenon DEF Types
<1>8. OwnInv(c)'
  BY <1>1, <1>2, <1>3, <1>5, <1>7
     DEF OwnInv, Moves, ApLabels, NoGdt, NoId, InTrampoline, NoStack
<1>9. WokenInv(c)'
  BY <1>1, <1>2, <1>3, <1>5, <1>7, Zenon DEF WokenInv, Moves, InTrampoline, NoStack
<1>10. cpu_pc[c] \in NoStack /\ cpu_pc'[c] \notin NoStack
  BY <1>1, <1>3, Zenon DEF Moves, NoStack
<1> QED BY <1>1, <1>2, <1>3, <1>4, <1>5, <1>6, <1>7, <1>8, <1>9, <1>10, ApStep, Zenon DEF Moves

\* A step of a woken AP that keeps its stack and its interrupts.
LEMMA ApLocal ==
  ASSUME SmpInv, NEW c \in APs, Woken(c), NEW to, Moves(c, to), to \in ApLabels \ NoStack,
         cpu_pc[c] \notin NoStack,
         UNCHANGED <<lapics, next, cpu_count, ipis, stacks, rsp>>,
         DOMAIN trampoline' = DOMAIN trampoline,
         trampoline'.cpu_id = trampoline.cpu_id, trampoline'.stack_end = trampoline.stack_end,
         trampoline'.ready = 0 <=> to \in InTrampoline,
         ap_ready' \in BOOLEAN, ap_ready' <=> to = "wait_bsp",
         BspPc = "wait_ap" => to \notin InTrampoline,
         DOMAIN tss' = CPUs, DOMAIN cpu_id' = CPUs, DOMAIN gdt' = CPUs, idts \subseteq idts',
         \A d \in CPUs \ {c} : tss'[d] = tss[d] /\ cpu_id'[d] = cpu_id[d] /\ gdt'[d] = gdt[d],
         to \notin NoId => cpu_id'[c] = c,
         IF to \in NoGdt THEN gdt'[c] = <<>> ELSE tss'[c] = rsp[c],
         to \in {"apic", "wait_bsp"} => c \in idts',
         CellInv', DOMAIN inside' = {"frames", "heap"}
  PROVE  SmpInv'
<1>1. /\ OwnInv(c) /\ WokenInv(c) /\ Types /\ c \in CPUs /\ ipis[c] = <<>>
      /\ BspPc \in {"wait_trampoline", "wait_ap"}
  <2>1. c \in CPUs /\ ApInv(c) /\ Types
    BY Zenon DEF SmpInv, APs
  <2>2. OwnInv(c) /\ WokenInv(c)
    BY <2>1, Zenon DEF ApInv
  <2> QED BY <2>1, <2>2, Zenon DEF WokenInv, Woken, Waking, NoStack
<1>2. BspPc' = BspPc
  BY ProcessorsAssumption, Zenon DEF Moves, APs, BspPc
<1>3. Types'
  BY <1>1, Zenon DEF Types, Moves
<1>4. OwnInv(c)'
  BY <1>1, Zenon DEF OwnInv, Moves
<1>5. WokenInv(c)'
  BY <1>1, <1>2, Zenon DEF WokenInv, Moves, NoStack
<1>6. cpu_pc'[c] = to /\ rsp'[c] = rsp[c] /\ stacks \in Nat
  BY <1>1, Zenon DEF Moves, Types
<1> QED BY <1>1, <1>2, <1>3, <1>4, <1>5, <1>6, ApStep, Zenon DEF Moves

\* The AP says that the trampoline is free.
LEMMA LeaveTrampolineInv ==
  ASSUME SmpInv, NEW c \in APs, LeaveTrampoline(c)
  PROVE  SmpInv'
<1>1. /\ cpu_pc[c] = "leave_trampoline" /\ Goto(c, "start_ap")
      /\ trampoline' = [trampoline EXCEPT !.ready = 1]
      /\ UNCHANGED <<lapics, next, ap_ready, cpu_count, ipis, stacks, inside, rsp, tss, cpu_id,
                     once, gdt, idts>>
  BY DEF LeaveTrampoline, local
<1>2. Woken(c) /\ OwnInv(c) /\ WokenInv(c) /\ Types /\ c \in CPUs
  BY <1>1, RunningIsWoken, Zenon DEF SmpInv, APs
<1>3. "start_ap" \in ApLabels /\ "start_ap" \in Labels /\ "start_ap" \in NoId \ InTrampoline
  BY DEF Labels, ApLabels, NoGdt, NoId, InTrampoline, NoStack
<1>4. Moves(c, "start_ap")
  BY <1>1, <1>2, <1>3, GotoMoves
<1>5. CellInv' /\ DOMAIN inside' = {"frames", "heap"}
  BY <1>1, <1>2, <1>4, CellsSame DEF InFrames, InHeap
<1>6. /\ DOMAIN trampoline' = DOMAIN trampoline /\ trampoline'.ready = 1
      /\ trampoline'.cpu_id = trampoline.cpu_id /\ trampoline'.stack_end = trampoline.stack_end
  BY <1>1, <1>2 DEF Types
<1>7. ~ap_ready /\ ap_ready \in BOOLEAN
  BY <1>1, <1>2 DEF WokenInv, Types
<1>8. cpu_pc[c] \notin NoStack /\ "start_ap" \notin NoStack
  BY <1>1 DEF NoStack
<1>9. gdt[c] = <<>> /\ "start_ap" \in NoGdt
  BY <1>1, <1>2, Zenon DEF OwnInv, NoGdt, NoId, InTrampoline
<1>10. DOMAIN tss = CPUs /\ DOMAIN cpu_id = CPUs /\ DOMAIN gdt = CPUs
  BY <1>2, Zenon DEF Types
<1> QED BY <1>1, <1>2, <1>3, <1>4, <1>5, <1>6, <1>7, <1>8, <1>9, <1>10, ApLocal

\* _start_ap reads its id while the page is still its own.
LEMMA StartApInv ==
  ASSUME SmpInv, NEW c \in APs, StartAp(c)
  PROVE  SmpInv'
<1>1. /\ cpu_pc[c] = "start_ap" /\ Goto(c, "gdt_alloc")
      /\ cpu_id' = [cpu_id EXCEPT ![c] = trampoline.cpu_id]
      /\ UNCHANGED <<lapics, next, trampoline, ap_ready, cpu_count, ipis, stacks, inside, rsp, tss,
                     once, gdt, idts>>
  BY Zenon DEF StartAp, boot
<1>2. Woken(c) /\ OwnInv(c) /\ WokenInv(c) /\ Types /\ c \in CPUs
  BY <1>1, RunningIsWoken DEF SmpInv, APs
<1>3. "gdt_alloc" \in ApLabels /\ "gdt_alloc" \in Labels /\ "gdt_alloc" \in NoGdt \ InTrampoline
  BY DEF Labels, ApLabels, NoGdt, NoId, InTrampoline, NoStack
<1>4. Moves(c, "gdt_alloc")
  BY <1>1, <1>2, <1>3, GotoMoves, Zenon
<1>5. CellInv' /\ DOMAIN inside' = {"frames", "heap"}
  BY <1>1, <1>2, <1>4, CellsSame, Zenon DEF InFrames, InHeap
<1>6. trampoline.ready # 0 /\ ~ap_ready /\ ap_ready \in BOOLEAN
  BY <1>1, <1>2, Zenon DEF WokenInv, Types, InTrampoline, NoStack
<1>7. cpu_pc[c] \notin NoStack /\ "gdt_alloc" \notin NoStack
  BY <1>1, Zenon DEF NoStack
<1>8. gdt[c] = <<>>
  BY <1>1, <1>2, Zenon DEF OwnInv, NoGdt, NoId, InTrampoline
<1>9. /\ DOMAIN tss = CPUs /\ DOMAIN cpu_id' = CPUs /\ DOMAIN gdt = CPUs
      /\ cpu_id'[c] = trampoline.cpu_id /\ \A d \in CPUs \ {c} : cpu_id'[d] = cpu_id[d]
  BY <1>1, <1>2, Zenon DEF Types
<1>10. trampoline.cpu_id = c
  BY <1>2, Zenon DEF SmpInv, PageInv, Woken
<1> QED BY <1>1, <1>2, <1>3, <1>4, <1>5, <1>6, <1>7, <1>8, <1>9, <1>10, ApLocal, Zenon

\* AP_READY is stored by the AP that the BSP waits for.
LEMMA StoreReadyInv ==
  ASSUME SmpInv, NEW c \in APs, StoreReady(c)
  PROVE  SmpInv'
<1>1. /\ cpu_pc[c] = "apic" /\ Goto(c, "wait_bsp") /\ ap_ready' = TRUE
      /\ UNCHANGED <<lapics, next, trampoline, cpu_count, ipis, stacks, inside, rsp, tss, cpu_id,
                     once, gdt, idts>>
  BY Zenon DEF StoreReady, local
<1>2. Woken(c) /\ OwnInv(c) /\ WokenInv(c) /\ Types /\ c \in CPUs
  BY <1>1, RunningIsWoken DEF SmpInv, APs
<1>3. "wait_bsp" \in ApLabels /\ "wait_bsp" \in Labels /\ "wait_bsp" \notin NoGdt
      /\ "wait_bsp" \notin InTrampoline
  BY Zenon DEF Labels, ApLabels, NoGdt, NoId, InTrampoline, NoStack
<1>4. Moves(c, "wait_bsp")
  BY <1>1, <1>2, <1>3, GotoMoves, Zenon
<1>5. CellInv' /\ DOMAIN inside' = {"frames", "heap"}
  BY <1>1, <1>2, <1>4, CellsSame, Zenon DEF InFrames, InHeap
<1>6. trampoline.ready # 0
  BY <1>1, <1>2, Zenon DEF WokenInv, InTrampoline, NoStack
<1>7. cpu_pc[c] \notin NoStack /\ "wait_bsp" \notin NoStack
  BY <1>1, Zenon DEF NoStack
<1>8. tss[c] = rsp[c] /\ cpu_id[c] = c /\ c \in idts
  BY <1>1, <1>2, Zenon DEF OwnInv, NoGdt, NoId, InTrampoline, NoStack
<1>9. DOMAIN tss = CPUs /\ DOMAIN cpu_id = CPUs /\ DOMAIN gdt = CPUs
  BY <1>2 DEF Types
<1> QED BY <1>1, <1>2, <1>3, <1>4, <1>5, <1>6, <1>7, <1>8, <1>9, ApLocal, Zenon

\* An AP allocates alone, and so the cells are never borrowed twice.
LEMMA ApEnterInv ==
  ASSUME SmpInv, NEW c \in APs, NEW from, NEW to, NEW cell \in {"frames", "heap"},
         \/ from = "gdt_alloc" /\ to = "gdt" /\ cell = "frames"
         \/ from = "idt_box" /\ to = "idt_boxed" /\ cell = "heap"
         \/ from = "idt_alloc" /\ to = "idt" /\ cell = "frames",
         EnterCell(c, cell, from, to)
  PROVE  SmpInv'
<1>1. cpu_pc[c] = from /\ from \notin NoId /\ to \in ApLabels \ NoId /\ to \in Labels
  BY Zenon DEF EnterCell, NoId, InTrampoline, NoStack, ApLabels, NoGdt, Labels
<1>2. Woken(c) /\ OwnInv(c) /\ WokenInv(c) /\ Types /\ c \in CPUs /\ Alone(c)
  BY <1>1, RunningIsWoken DEF SmpInv, APs, Alone
<1>3. from \notin InFrames \cup InHeap /\ to \in IF cell = "frames" THEN InFrames ELSE InHeap
  BY Zenon DEF InFrames, InHeap
<1>4. /\ Moves(c, to) /\ CellInv' /\ DOMAIN inside' = {"frames", "heap"}
      /\ UNCHANGED <<lapics, next, trampoline, ap_ready, cpu_count, ipis, stacks, rsp, tss, cpu_id,
                     once, gdt, idts>>
  BY <1>1, <1>2, <1>3, EnterCellEffect, Zenon
<1>5. trampoline.ready # 0 /\ ~ap_ready /\ ap_ready \in BOOLEAN
  BY <1>1, <1>2 DEF WokenInv, Types, InTrampoline, NoId
<1>6. cpu_pc[c] \notin NoStack /\ to \notin NoStack /\ to \notin InTrampoline
  BY <1>1, Zenon DEF NoId, InTrampoline
<1>7. cpu_id[c] = c /\ IF to \in NoGdt THEN gdt[c] = <<>> ELSE tss[c] = rsp[c]
  BY <1>1, <1>2, Zenon DEF OwnInv, NoGdt
<1>8. DOMAIN tss = CPUs /\ DOMAIN cpu_id = CPUs /\ DOMAIN gdt = CPUs
  BY <1>2 DEF Types
<1>9. to \notin {"apic", "wait_bsp"}
  BY Zenon
<1> QED BY <1>1, <1>2, <1>4, <1>5, <1>6, <1>7, <1>8, <1>9, ApLocal, Zenon

\* init_gdt, the box of the IDT and init_idt on an AP.
LEMMA ApLeaveInv ==
  ASSUME SmpInv, NEW c \in APs,
         InitGdt(c) \/ LeaveHeap(c, "idt_boxed", "idt_alloc") \/ InitIdt(c)
  PROVE  SmpInv'
<1> DEFINE cell == IF cpu_pc[c] = "idt_boxed" THEN "heap" ELSE "frames"
           to == IF cpu_pc[c] = "idt_boxed" THEN "idt_alloc" ELSE IF cpu_pc[c] = "gdt" THEN "idt_box"
                 ELSE "apic"
<1>1. /\ cpu_pc[c] \in {"gdt", "idt_boxed", "idt"} /\ c # BspId
      /\ UNCHANGED <<lapics, next, trampoline, ap_ready, cpu_count, ipis, stacks, rsp, cpu_id>>
  BY Zenon DEF InitGdt, LeaveHeap, InitIdt, boot, local, APs
<1>2. LeaveCell(c, cell) /\ Goto(c, to)
  BY <1>1, Zenon DEF InitGdt, LeaveHeap, InitIdt
<1>3. Woken(c) /\ OwnInv(c) /\ WokenInv(c) /\ Types /\ c \in CPUs /\ Alone(c)
  BY <1>1, RunningIsWoken, Zenon DEF SmpInv, APs, Alone
<1>4. cpu_pc[c] \notin NoId /\ to \in ApLabels \ NoGdt /\ to \in Labels
  BY <1>1 DEF NoId, InTrampoline, NoStack, ApLabels, NoGdt, Labels
<1>5. /\ cell \in {"frames", "heap"} /\ to \notin InFrames \cup InHeap
      /\ cpu_pc[c] \in IF cell = "frames" THEN InFrames ELSE InHeap
  BY <1>1, Zenon DEF InFrames, InHeap
<1>6. Moves(c, to) /\ CellInv' /\ DOMAIN inside' = {"frames", "heap"}
  <2> HIDE DEF cell, to
  <2> QED BY <1>2, <1>3, <1>4, <1>5, LeaveCellEffect, Zenon
<1>7. trampoline.ready # 0 /\ ~ap_ready /\ ap_ready \in BOOLEAN
  BY <1>1, <1>3, Zenon DEF WokenInv, Types, InTrampoline, NoStack
<1>8. cpu_pc[c] \notin NoStack /\ to \notin NoStack /\ to \notin InTrampoline /\ to \notin NoId
  BY <1>4, Zenon DEF NoId, InTrampoline, NoGdt
<1>9. cpu_id[c] = c /\ trampoline.stack_end = stacks /\ rsp[c] = stacks
  BY <1>3, <1>4, <1>8, Zenon DEF OwnInv, SmpInv, PageInv, Woken, WokenInv
<1>10. /\ DOMAIN tss' = CPUs /\ DOMAIN gdt' = CPUs /\ DOMAIN cpu_id = CPUs
       /\ \A d \in CPUs \ {c} : tss'[d] = tss[d] /\ gdt'[d] = gdt[d]
  BY <1>3, Zenon DEF Types, InitGdt, LeaveHeap, InitIdt, local
<1>11. tss'[c] = rsp[c]
  <2>1. CASE cpu_pc[c] = "gdt"
    BY <1>1, <1>3, <1>9, <2>1, Zenon DEF InitGdt, LeaveHeap, InitIdt, Types
  <2>2. CASE cpu_pc[c] # "gdt"
    <3>1. tss' = tss
      BY <2>2, Zenon DEF InitGdt, LeaveHeap, InitIdt, local
    <3>2. tss[c] = rsp[c]
      BY <1>1, <1>3, <2>2, Zenon DEF OwnInv, NoGdt, NoId, InTrampoline, NoStack
    <3> QED BY <3>1, <3>2, Zenon
  <2> QED BY <2>1, <2>2, Zenon
<1>12. idts \subseteq idts' /\ (to \in {"apic", "wait_bsp"} => c \in idts')
  BY <1>1, <1>9 DEF InitGdt, LeaveHeap, InitIdt, local
<1>13. to # "wait_bsp"
  BY Zenon
<1> HIDE DEF cell, to
<1> QED BY <1>1, <1>3, <1>4, <1>6, <1>7, <1>8, <1>9, <1>10, <1>11, <1>12, <1>13, ApLocal, Zenon

\* All steps of an AP.
LEMMA ApActionInv ==
  ASSUME SmpInv, NEW c \in APs, Ap(c)
  PROVE  SmpInv'
<1>1. CASE TakeStack(c) \/ LeaveTrampoline(c) \/ StartAp(c) \/ StoreReady(c)
  BY <1>1, TakeStackInv, LeaveTrampolineInv, StartApInv, StoreReadyInv, Zenon
<1>2. CASE \/ EnterAllocator(c, "gdt_alloc", "gdt") \/ EnterHeap(c, "idt_box", "idt_boxed")
           \/ EnterAllocator(c, "idt_alloc", "idt")
  BY <1>2, ApEnterInv, Zenon DEF EnterAllocator, EnterHeap
<1>3. CASE InitGdt(c) \/ LeaveHeap(c, "idt_boxed", "idt_alloc") \/ InitIdt(c)
  BY <1>3, ApLeaveInv
<1> QED BY <1>1, <1>2, <1>3, Zenon DEF Ap, InitCpu

\* What is left of the interrupts under way when one has arrived.
LEMMA Queued ==
  /\ Head(<<"INIT">>) = "INIT" /\ Tail(<<"INIT">>) = <<>>
  /\ Head(<<"STARTUP">>) = "STARTUP" /\ Tail(<<"STARTUP">>) = <<>>
  /\ Head(<<"INIT", "STARTUP">>) = "INIT" /\ Tail(<<"INIT", "STARTUP">>) = <<"STARTUP">>
  /\ Append(<<>>, "INIT") = <<"INIT">> /\ Append(<<"INIT">>, "STARTUP") = <<"INIT", "STARTUP">>
  /\ Append(<<>>, "STARTUP") = <<"STARTUP">>
<1>1. Head(<<"INIT">>) = "INIT" /\ Tail(<<"INIT">>) = <<>>
  OBVIOUS
<1>2. Head(<<"STARTUP">>) = "STARTUP" /\ Tail(<<"STARTUP">>) = <<>>
  OBVIOUS
<1>3. Head(<<"INIT", "STARTUP">>) = "INIT" /\ Tail(<<"INIT", "STARTUP">>) = <<"STARTUP">>
  OBVIOUS
<1>4. Append(<<>>, "INIT") = <<"INIT">> /\ Append(<<>>, "STARTUP") = <<"STARTUP">>
  OBVIOUS
<1>5. Append(<<"INIT">>, "STARTUP") = <<"INIT", "STARTUP">>
  <2> DEFINE t == Append(<<"INIT">>, "STARTUP")
  <2>1. t \in Seq({"INIT", "STARTUP"}) /\ Len(t) = 2 /\ t[1] = "INIT" /\ t[2] = "STARTUP"
    OBVIOUS
  <2> HIDE DEF t
  <2>2. t = <<t[1], t[2]>>
    BY <2>1
  <2> QED BY <2>1, <2>2, Zenon DEF t
<1> QED BY <1>1, <1>2, <1>3, <1>4, <1>5, Zenon

\* INIT and STARTUP reach the AP in the order they were sent, and it was waiting for them.
LEMMA ReceiveApInv ==
  ASSUME SmpInv, NEW c \in APs, Receive(c)
  PROVE  SmpInv'
<1> DEFINE to == IF Head(ipis[c]) = "INIT" THEN "stopped"
                 ELSE IF cpu_pc[c] = "stopped" THEN "trampoline" ELSE cpu_pc[c]
<1>1. /\ ipis[c] # <<>> /\ ipis' = [ipis EXCEPT ![c] = Tail(ipis[c])]
      /\ UNCHANGED <<lapics, next, trampoline, ap_ready, cpu_count, stacks, inside, rsp, tss, cpu_id,
                     once, gdt, idts>>
  BY DEF Receive, local
<1>2. Types /\ c \in CPUs /\ ApInv(c)
  BY DEF SmpInv, APs
<1>3. Woken(c)
  BY <1>1, <1>2, Zenon DEF ApInv, RestInv
<1>4. OwnInv(c) /\ WokenInv(c)
  BY <1>2, <1>3, Zenon DEF ApInv
<1>5. BspPc \in {"startup", "wait_trampoline"}
  BY <1>1, <1>3, <1>4, Zenon DEF Woken, Waking, WokenInv
<1>6. cpu_pc' = [cpu_pc EXCEPT ![c] = to]
  BY <1>1, Zenon DEF Receive
<1>7. \/ /\ BspPc = "startup" /\ cpu_pc[c] = "halted" /\ to = "stopped" /\ Tail(ipis[c]) = <<>>
      \/ /\ BspPc = "wait_trampoline" /\ cpu_pc[c] = "halted" /\ to = "stopped"
         /\ Tail(ipis[c]) = <<"STARTUP">>
      \/ /\ BspPc = "wait_trampoline" /\ cpu_pc[c] = "stopped" /\ to = "trampoline"
         /\ Tail(ipis[c]) = <<>>
  <2>1. \/ BspPc = "startup" /\ cpu_pc[c] = "halted" /\ ipis[c] = <<"INIT">>
        \/ BspPc = "wait_trampoline" /\ cpu_pc[c] = "halted" /\ ipis[c] = <<"INIT", "STARTUP">>
        \/ BspPc = "wait_trampoline" /\ cpu_pc[c] = "stopped" /\ ipis[c] = <<"STARTUP">>
    BY <1>1, <1>4, <1>5, Zenon DEF WokenInv
  <2> QED BY <2>1, Queued, Zenon
<1> HIDE DEF to
<1>8. to \in Labels /\ to \in NoStack /\ cpu_pc[c] \in NoStack
  BY <1>7, Zenon DEF Labels, ApLabels, NoGdt, NoId, InTrampoline, NoStack
<1>9. Moves(c, to)
  BY <1>2, <1>6, <1>8, Zenon DEF Types, Moves
<1>10. CellInv' /\ DOMAIN inside' = {"frames", "heap"}
  BY <1>1, <1>2, <1>7, <1>9, CellsSame, Zenon DEF InFrames, InHeap
<1>11. Types' /\ BspPc' = BspPc /\ cpu_pc'[c] = to
  BY <1>1, <1>2, <1>9, <1>10, ProcessorsAssumption, Zenon DEF Types, Moves, APs, BspPc
<1>12. ipis'[c] = Tail(ipis[c]) /\ \A d \in CPUs \ {c} : ipis'[d] = ipis[d]
  BY <1>1, <1>2, Zenon DEF Types
<1>13. OwnInv(c)'
  BY <1>1, <1>4, <1>8, <1>11, Zenon DEF OwnInv, NoStack, ApLabels, NoGdt, NoId, InTrampoline
<1>14. WokenInv(c)'
  BY <1>1, <1>4, <1>7, <1>8, <1>11, <1>12, Zenon DEF WokenInv, NoStack, InTrampoline
<1> QED BY <1>1, <1>2, <1>3, <1>8, <1>9, <1>10, <1>11, <1>12, <1>13, <1>14, ApStep, Zenon DEF Moves

-------------------------------------------------------------------------------
\* A step of the BSP while no AP runs.
LEMMA BspStep ==
  ASSUME SmpInv, idts \subseteq idts', stacks' \in Nat, stacks <= stacks',
         \A d \in APs : /\ ~Woken(d) /\ ~Woken(d)' /\ (Past(d)' <=> Past(d))
                        /\ cpu_pc'[d] = cpu_pc[d] /\ rsp'[d] = rsp[d] /\ tss'[d] = tss[d]
                        /\ cpu_id'[d] = cpu_id[d] /\ gdt'[d] = gdt[d] /\ ipis'[d] = ipis[d],
         Types', BspInv', PageInv', CellInv', CountInv'
  PROVE  SmpInv'
<1>1. ASSUME NEW d \in APs
      PROVE  ApInv(d)'
  <2>1. ApInv(d) /\ stacks \in Nat
    BY Zenon DEF SmpInv, APs, Types
  <2> QED BY <2>1, FrameAp, Zenon
<1> QED BY <1>1, Zenon DEF SmpInv, APs

\* A BSP that took itself for an AP stops, and with it the boot.
LEMMA ReceiveBspInv ==
  ASSUME SmpInv, Receive(BspId)
  PROVE  SmpInv'
<1> DEFINE to == IF Head(ipis[BspId]) = "INIT" THEN "stopped"
                 ELSE IF BspPc = "stopped" THEN "trampoline" ELSE BspPc
<1>1. /\ ipis[BspId] # <<>> /\ ipis' = [ipis EXCEPT ![BspId] = Tail(ipis[BspId])]
      /\ cpu_pc' = [cpu_pc EXCEPT ![BspId] = to]
      /\ UNCHANGED <<lapics, next, trampoline, ap_ready, cpu_count, stacks, inside, rsp, tss, cpu_id,
                     once, gdt, idts>>
  BY Zenon DEF Receive, local, BspPc
<1>2. Types /\ BspInv /\ PageInv /\ CountInv /\ BspId \in CPUs
  BY ProcessorsAssumption DEF SmpInv
<1>3. BspPc \in {"startup", "wait_trampoline"} \cup Stuck /\ NextAp = BspId
  BY <1>1, <1>2, Zenon DEF BspInv, Waking
<1>4. to \in Stuck
  <2>1. CASE BspPc \in Stuck
    BY <2>1, Zenon DEF Stuck
  <2>2. CASE BspPc \notin Stuck
    <3>1. Head(ipis[BspId]) = "INIT"
      BY <1>2, <1>3, <2>2 DEF BspInv, Waking
    <3> QED BY <3>1, Zenon DEF Stuck
  <2> QED BY <2>1, <2>2, Zenon
<1> HIDE DEF to
<1>5. to \in Labels
  BY <1>4, Zenon DEF Labels
<1>6. Moves(BspId, to)
  BY <1>1, <1>2, <1>5, Zenon DEF Types, Moves
<1>7. CellInv' /\ DOMAIN inside' = {"frames", "heap"}
  BY <1>1, <1>2, <1>3, <1>4, <1>6, CellsSame, Zenon DEF InFrames, InHeap, Stuck, BspPc
<1>8. Types' /\ BspPc' = to /\ NextAp' = NextAp
  BY <1>1, <1>2, <1>6, <1>7, Zenon DEF Types, Moves, BspPc, NextAp
<1>9. /\ to \notin Early /\ to \notin Waking /\ to \notin {"clear", "gdt_alloc", "gdt"} /\ to \notin After
      /\ BspPc \notin Early /\ to # "loop" /\ BspPc \notin {"gdt_alloc", "gdt"}
  BY <1>3, <1>4, Zenon DEF Stuck, Early, Waking, After
<1>10. BspInv'
  BY <1>1, <1>2, <1>3, <1>4, <1>8, <1>9, Zenon DEF BspInv, Waking
<1>11. PageInv'
  BY <1>1, <1>2, <1>8, <1>9, Zenon DEF PageInv
<1>12. CountInv'
  <2>1. Seen' = next /\ Seen = next
    BY <1>1, <1>3, <1>4, <1>8, Zenon DEF Seen, Waking, Counted
  <2> QED BY <1>1, <1>2, <1>9, <2>1, Zenon DEF CountInv
<1>13. ASSUME NEW d \in APs
       PROVE  /\ ~Woken(d) /\ ~Woken(d)' /\ (Past(d)' <=> Past(d))
              /\ cpu_pc'[d] = cpu_pc[d] /\ ipis'[d] = ipis[d]
  BY <1>1, <1>2, <1>3, <1>6, <1>8, <1>9, Zenon DEF Woken, Past, Moves, Types, APs
<1> QED BY <1>1, <1>2, <1>7, <1>8, <1>10, <1>11, <1>12, <1>13, BspStep DEF Types

\* The BSP goes on, and nothing but the inside of a cell changes.
LEMMA BspOnlyMoves ==
  ASSUME SmpInv, NEW to, Moves(BspId, to), BspPc \notin Waking, to \notin Waking \cup {"clear"},
         UNCHANGED <<lapics, next, trampoline, ap_ready, cpu_count, ipis, stacks, rsp, tss, cpu_id,
                     gdt, idts>>,
         CellInv', DOMAIN inside' = {"frames", "heap"}, BspInv', to \notin Early => BspPc \notin Early,
         BspPc \in Counted \cup Stuck <=> to \in Counted \cup Stuck
  PROVE  SmpInv'
<1>1. Types /\ PageInv /\ CountInv /\ BspId \in CPUs
  BY ProcessorsAssumption, Zenon DEF SmpInv
<1>2. BspPc' = to /\ Types' /\ stacks \in Nat
  BY <1>1, Zenon DEF Types, Moves, BspPc
<1>3. PageInv'
  BY <1>1, <1>2, Zenon DEF PageInv
<1>4. CountInv'
  <2>1. Seen' = Seen
    BY <1>2, Zenon DEF Seen
  <2> QED BY <1>1, <1>2, <2>1, Zenon DEF CountInv
<1>5. ASSUME NEW d \in APs
      PROVE  ~Woken(d) /\ ~Woken(d)' /\ (Past(d)' <=> Past(d)) /\ cpu_pc'[d] = cpu_pc[d]
  BY <1>1, <1>2, Zenon DEF Woken, Past, Moves, APs
<1> QED BY <1>2, <1>3, <1>4, <1>5, BspStep

\* The BSP allocates while no AP runs.
LEMMA BspEnterInv ==
  ASSUME SmpInv, NEW from, NEW to, NEW cell \in {"frames", "heap"},
         \/ from = "gdt_alloc" /\ to = "gdt" /\ cell = "frames"
         \/ from = "idt_box" /\ to = "idt_boxed" /\ cell = "heap"
         \/ from = "idt_alloc" /\ to = "idt" /\ cell = "frames"
         \/ from = "stack_alloc" /\ to = "prepare" /\ cell = "frames"
         \/ from = "done" /\ to = "rest" /\ cell = "heap",
         EnterCell(BspId, cell, from, to)
  PROVE  SmpInv'
<1>1. /\ BspPc = from /\ BspPc \notin Waking /\ to \notin Waking \cup {"clear"} /\ to \in Labels
      /\ from \notin InFrames \cup InHeap /\ to \in IF cell = "frames" THEN InFrames ELSE InHeap
  BY Zenon DEF EnterCell, BspPc, Waking, Labels, ApLabels, NoGdt, Early, Counted, After, InFrames, InHeap
<1>2. BspId \in CPUs /\ Alone(BspId) /\ BspInv
  BY <1>1, ProcessorsAssumption, Zenon DEF Alone, SmpInv
<1>3. /\ Moves(BspId, to) /\ CellInv' /\ DOMAIN inside' = {"frames", "heap"}
      /\ UNCHANGED <<lapics, next, trampoline, ap_ready, cpu_count, ipis, stacks, rsp, tss, cpu_id,
                     once, gdt, idts>>
  BY <1>1, <1>2, EnterCellEffect, Zenon
<1>4. BspPc' = to /\ NextAp' = NextAp
  BY <1>3, Zenon DEF Moves, BspPc, NextAp
<1>5. /\ to \notin Early => from \notin Early
      /\ from \in Counted \cup Stuck <=> to \in Counted \cup Stuck
  BY Zenon DEF Early, Counted, Stuck
<1>6. BspInv'
  BY <1>1, <1>2, <1>3, <1>4, Zenon DEF BspInv, Early, Counted, Waking, After, Stuck
<1> QED BY <1>1, <1>3, <1>5, <1>6, BspOnlyMoves, Zenon

\* The BSP gives the heap back, or is through with the list.
LEMMA BspLeaveInv ==
  ASSUME SmpInv, Lapics, \/ LeaveHeap(BspId, "idt_boxed", "idt_alloc")
                         \/ LeaveHeap(BspId, "rest", "alone") \/ LoopDone
  PROVE  SmpInv'
<1> DEFINE to == IF BspPc = "idt_boxed" THEN "idt_alloc" ELSE IF BspPc = "rest" THEN "alone" ELSE "done"
<1>1. /\ BspPc \in {"idt_boxed", "rest", "loop"} /\ Goto(BspId, to)
      /\ IF BspPc = "loop" THEN inside' = inside /\ next > Len(lapics) ELSE LeaveCell(BspId, "heap")
      /\ UNCHANGED <<lapics, next, trampoline, ap_ready, cpu_count, ipis, stacks, rsp, tss, cpu_id,
                     once, gdt, idts>>
  BY Zenon DEF LeaveHeap, LoopDone, boot, local, BspPc
<1>2. /\ BspPc \notin Waking /\ to \notin Waking \cup {"clear"} /\ to \in Labels
      /\ to \notin InFrames \cup InHeap
      /\ to \notin Early => BspPc \notin Early
      /\ BspPc \in Counted \cup Stuck <=> to \in Counted \cup Stuck
  BY <1>1, Zenon DEF Waking, Labels, ApLabels, Early, Counted, After, Stuck, InFrames, InHeap
<1>3. BspId \in CPUs /\ Alone(BspId) /\ BspInv /\ Types
  BY <1>2, ProcessorsAssumption, Zenon DEF Alone, SmpInv
<1>4. \/ BspPc = "idt_boxed" /\ to = "idt_alloc"
      \/ BspPc = "rest" /\ to = "alone"
      \/ BspPc = "loop" /\ to = "done"
  BY <1>1, Zenon
<1> HIDE DEF to
<1>5. Moves(BspId, to)
  BY <1>1, <1>2, <1>3, GotoMoves, Zenon
<1>6. CellInv' /\ DOMAIN inside' = {"frames", "heap"}
  <2>1. CASE BspPc = "loop"
    BY <1>1, <1>2, <1>3, <1>5, <2>1, CellsSame, Zenon DEF InFrames, InHeap, BspPc
  <2>2. CASE BspPc # "loop"
    <3>1. cpu_pc[BspId] \in InHeap /\ LeaveCell(BspId, "heap")
      BY <1>1, <2>2, Zenon DEF InHeap, BspPc
    <3> QED BY <1>1, <1>2, <1>3, <3>1, LeaveCellEffect, Zenon
  <2> QED BY <2>1, <2>2, Zenon
<1>7. BspPc' = to /\ NextAp' = NextAp
  BY <1>1, <1>5, Zenon DEF Moves, BspPc, NextAp
<1>8. BspInv'
  BY <1>1, <1>3, <1>4, <1>7 DEF BspInv, Early, Counted, Waking, After, Stuck, Lapics
<1> QED BY <1>1, <1>2, <1>5, <1>6, <1>8, BspOnlyMoves, Zenon

\* init_gdt and init_idt on the BSP.
LEMMA BspInitInv ==
  ASSUME SmpInv, InitGdt(BspId) \/ InitIdt(BspId)
  PROVE  SmpInv'
<1> DEFINE to == IF BspPc = "gdt" THEN "idt_box" ELSE "count"
<1>1. /\ BspPc \in {"gdt", "idt"} /\ LeaveCell(BspId, "frames")
      /\ UNCHANGED <<lapics, next, trampoline, ap_ready, cpu_count, ipis, stacks, rsp, cpu_id>>
  BY Zenon DEF InitGdt, InitIdt, boot, BspPc
<1>2. Goto(BspId, to)
  BY <1>1, Zenon DEF InitGdt, InitIdt, BspPc
<1>3. /\ BspPc \in InFrames /\ to \notin InFrames \cup InHeap /\ to \in Labels /\ to \in Early
      /\ BspPc \notin Waking /\ to \notin Waking \cup {"clear"} /\ BspPc \in Early
      /\ to \notin {"gdt_alloc", "gdt"} /\ to \notin Counted \cup Stuck \cup After /\ to # "loop"
  BY <1>1, Zenon DEF InFrames, InHeap, Labels, Early, Waking, Counted, Stuck, After
<1>4. BspId \in CPUs /\ Alone(BspId) /\ BspInv /\ Types /\ PageInv /\ CountInv
  BY <1>3, ProcessorsAssumption, Zenon DEF Alone, SmpInv
<1>5. Moves(BspId, to) /\ CellInv' /\ DOMAIN inside' = {"frames", "heap"}
  BY <1>1, <1>2, <1>3, <1>4, LeaveCellEffect, Zenon DEF BspPc
<1>6. /\ DOMAIN tss' = CPUs /\ DOMAIN gdt' = CPUs
      /\ \A d \in CPUs \ {BspId} : tss'[d] = tss[d] /\ gdt'[d] = gdt[d]
      /\ idts \subseteq idts'
  BY <1>4, Zenon DEF Types, InitGdt, InitIdt
<1>7. tss'[BspId] = 0 /\ (to = "count" => 0 \in idts')
  <2>1. CASE BspPc = "gdt"
    BY <1>1, <1>4, <2>1, Zenon DEF InitGdt, InitIdt, Types, BspPc
  <2>2. CASE BspPc = "idt"
    <3>1. tss' = tss /\ idts' = idts \cup {cpu_id[BspId]}
      BY <2>2, Zenon DEF InitGdt, InitIdt, BspPc
    <3> QED BY <1>4, <2>2, <3>1, Zenon DEF BspInv
  <2> QED BY <1>1, <2>1, <2>2, Zenon
<1> HIDE DEF to
<1>8. BspPc' = to /\ NextAp' = NextAp /\ Types'
  BY <1>1, <1>4, <1>5, <1>6, Zenon DEF Moves, BspPc, NextAp, Types
<1>9. BspInv'
  BY <1>1, <1>3, <1>4, <1>7, <1>8, Zenon DEF BspInv, Waking, Stuck
<1>10. PageInv'
  BY <1>1, <1>3, <1>4, <1>8, Zenon DEF PageInv
<1>11. CountInv'
  BY <1>3, <1>8, Zenon DEF CountInv
<1>12. ASSUME NEW d \in APs
       PROVE  ~Woken(d) /\ ~Woken(d)' /\ (Past(d)' <=> Past(d)) /\ cpu_pc'[d] = cpu_pc[d]
  BY <1>1, <1>3, <1>4, <1>5, <1>8, Zenon DEF Woken, Past, Moves, APs
<1>13. stacks \in Nat
  BY <1>4, Zenon DEF Types
<1> QED BY <1>1, <1>5, <1>6, <1>8, <1>9, <1>10, <1>11, <1>12, <1>13, BspStep DEF APs

\* The entry of the BSP itself is passed over.
LEMMA SkipBspInv ==
  ASSUME SmpInv, Lapics, SkipBsp
  PROVE  SmpInv'
<1>1. /\ BspPc = "loop" /\ next <= Len(lapics) /\ lapics[next] = OwnId /\ next' = next + 1
      /\ UNCHANGED <<lapics, cpu_pc, trampoline, ap_ready, cpu_count, ipis, stacks, inside, rsp, tss,
                     cpu_id, once, gdt, idts>>
  BY DEF SkipBsp, local, BspPc
<1>2. "loop" \notin Early \cup Counted \cup Waking \cup After \cup Stuck
  BY Zenon DEF Early, Waking, Counted, After, Stuck
<1>3. BspInv /\ Types /\ PageInv /\ CountInv /\ CellInv /\ stacks \in Nat /\ next \in Nat \ {0}
  BY Zenon DEF SmpInv, Types
<1>4. BspPc' = "loop" /\ Types' /\ Len(lapics) \in Nat
  BY <1>1, <1>3 DEF BspPc, Types, Lapics
<1>5. BspInv'
  <2>1. next' \in 1 .. Len(lapics) + 1
    BY <1>1, <1>3, <1>4
  <2>2. /\ cpu_id[BspId] = 0 /\ rsp[BspId] = 0 /\ tss[BspId] = 0 /\ 0 \in idts /\ ipis[BspId] = <<>>
    BY <1>1, <1>2, <1>3, Zenon DEF BspInv
  <2>3. "loop" \notin {"gdt_alloc", "gdt"}
    OBVIOUS
  <2> QED BY <1>1, <1>2, <1>4, <2>1, <2>2, <2>3, Zenon DEF BspInv
<1>6. PageInv'
  <2>1. "loop" # "clear"
    OBVIOUS
  <2> QED BY <1>1, <1>2, <1>3, <1>4, <2>1, Zenon DEF PageInv
<1>7. CellInv'
  BY <1>1, <1>3, Zenon DEF CellInv
<1>8. Seen' = next /\ Seen = next - 1
  BY <1>1, <1>2, <1>3, <1>4 DEF Seen
<1>9. {lapics[k] : k \in 1 .. next} \ {OwnId} = {lapics[k] : k \in 1 .. next - 1} \ {OwnId}
  <2>1. \A k \in 1 .. next : k = next \/ k \in 1 .. next - 1
    BY <1>3
  <2>2. \A k \in 1 .. next - 1 : k \in 1 .. next
    BY <1>3
  <2> QED BY <1>1, <2>1, <2>2, Zenon
<1>10. CountInv'
  BY <1>1, <1>2, <1>3, <1>4, <1>8, <1>9, Zenon DEF CountInv
<1>11. ASSUME NEW d \in APs
       PROVE  ~Woken(d) /\ ~Woken(d)' /\ (Past(d)' <=> Past(d))
  <2>1. \A k \in 1 .. next : k = next \/ k \in 1 .. next - 1
    BY <1>3
  <2>2. \A k \in 1 .. next - 1 : k \in 1 .. next
    BY <1>3
  <2>3. next' - 1 = next
    BY <1>1, <1>3
  <2>4. Past(d)' <=> Past(d)
    BY <1>1, <2>1, <2>2, <2>3, Zenon DEF Past
  <2> QED BY <1>1, <1>2, <1>4, <2>4, Zenon DEF Woken
<1> QED BY <1>1, <1>3, <1>4, <1>5, <1>6, <1>7, <1>10, <1>11, BspStep

\* A new stack, and the words of the trampoline for the AP that gets it.
LEMMA PrepareInv ==
  ASSUME SmpInv, Prepare
  PROVE  SmpInv'
<1>1. /\ BspPc = "prepare" /\ LeaveCell(BspId, "frames") /\ Goto(BspId, "clear")
      /\ stacks' = stacks + 1
      /\ trampoline' = [ready |-> 0, cpu_id |-> NextAp, stack_end |-> stacks + 1]
      /\ UNCHANGED <<lapics, next, ap_ready, cpu_count, ipis, rsp, tss, cpu_id, once, gdt, idts>>
  BY Zenon DEF Prepare, local, BspPc, NextAp
<1>2. /\ BspPc \in Counted /\ BspPc \notin Early \cup Waking \cup Stuck /\ BspPc \in InFrames
      /\ BspPc \notin {"gdt_alloc", "gdt"}
      /\ "clear" \in Labels /\ "clear" \in Counted /\ "clear" \notin InFrames \cup InHeap
      /\ "clear" \notin Early \cup Waking \cup After \cup Stuck \cup {"loop", "gdt_alloc", "gdt"}
  BY <1>1, Zenon DEF Early, Waking, Counted, After, Stuck, Labels, InFrames, InHeap
<1>3. /\ BspInv /\ Types /\ PageInv /\ CountInv /\ stacks \in Nat
      /\ BspId \in CPUs /\ Alone(BspId)
  BY <1>2, ProcessorsAssumption, Zenon DEF SmpInv, Types, Alone
<1>4. Moves(BspId, "clear") /\ CellInv' /\ DOMAIN inside' = {"frames", "heap"}
  BY <1>1, <1>2, <1>3, LeaveCellEffect, Zenon DEF BspPc
<1>5. BspPc' = "clear" /\ NextAp' = NextAp
  BY <1>1, <1>4, Zenon DEF BspPc, Moves, NextAp
<1>6. Types'
  BY <1>1, <1>3, <1>4 DEF Types, Moves
<1>7. BspInv'
  <2>1. /\ cpu_id[BspId] = 0 /\ rsp[BspId] = 0 /\ tss[BspId] = 0 /\ 0 \in idts /\ ipis[BspId] = <<>>
        /\ next \in DOMAIN lapics /\ NextAp # OwnId
    BY <1>2, <1>3, Zenon DEF BspInv
  <2> QED BY <1>1, <1>2, <1>5, <2>1, Zenon DEF BspInv
<1>8. PageInv'
  <2>1. /\ trampoline'.ready = 0 /\ trampoline'.cpu_id = NextAp' /\ trampoline'.stack_end = stacks'
        /\ stacks' >= 1
    BY <1>1, <1>3, <1>5
  <2>2. ASSUME NEW d \in CPUs
        PROVE  rsp'[d] # stacks' /\ rsp'[d] \in {Nothing} \cup 0 .. stacks'
    BY <1>1, <1>3 DEF PageInv, Nothing
  <2>3. \A c, d \in CPUs : c # d => rsp'[c] = Nothing \/ rsp'[c] # rsp'[d]
    BY <1>1, <1>3, Zenon DEF PageInv
  <2> QED BY <2>1, <2>2, <2>3, Zenon DEF PageInv, Nothing
<1>9. CountInv'
  <2>1. Seen' = Seen
    BY <1>1, <1>2, <1>5, Zenon DEF Seen
  <2> QED BY <1>1, <1>2, <1>3, <2>1, Zenon DEF CountInv
<1>10. ASSUME NEW d \in APs
       PROVE  ~Woken(d) /\ ~Woken(d)' /\ (Past(d)' <=> Past(d)) /\ cpu_pc'[d] = cpu_pc[d]
  BY <1>1, <1>2, <1>3, <1>4, <1>5, Zenon DEF Woken, Past, Moves, APs
<1>11. stacks' \in Nat /\ stacks <= stacks'
  BY <1>1, <1>3
<1> QED BY <1>1, <1>4, <1>6, <1>7, <1>8, <1>9, <1>10, <1>11, BspStep, Zenon

\* A step of the BSP on the way to, or while, it wakes the AP at next.
LEMMA WakingStep ==
  ASSUME Lapics, SmpInv, NEW to \in Waking, BspPc \in Waking \cup {"clear"}, Moves(BspId, to),
         UNCHANGED <<lapics, next, trampoline, cpu_count, stacks, inside, rsp, tss, cpu_id, gdt, idts>>,
         DOMAIN ipis' = CPUs, \A d \in CPUs \ {NextAp} : ipis'[d] = ipis[d],
         ap_ready' \in BOOLEAN, BspInv', NextAp # BspId => WokenInv(NextAp)'
  PROVE  SmpInv'
<1>1. /\ BspInv /\ Types /\ PageInv /\ CountInv /\ stacks \in Nat /\ BspId \in CPUs
  BY ProcessorsAssumption, Zenon DEF SmpInv, Types
<1>2. /\ BspPc \notin Early \cup InFrames \cup InHeap /\ to \notin Early \cup InFrames \cup InHeap
      /\ to \notin NoStack /\ "clear" \notin Waking /\ "clear" \in Counted /\ to # "clear"
  BY Zenon DEF Waking, Early, InFrames, InHeap, NoStack, Counted
<1>3. CellInv' /\ DOMAIN inside' = {"frames", "heap"}
  BY <1>1, <1>2, CellsSame, Zenon DEF BspPc
<1>4. BspPc' = to /\ NextAp' = NextAp /\ Types'
  BY <1>1, <1>3, Zenon DEF BspPc, Moves, NextAp, Types
<1>5. PageInv'
  <2>1. /\ trampoline'.cpu_id = NextAp' /\ trampoline'.stack_end = stacks' /\ stacks' >= 1
    BY <1>1, <1>4, Zenon DEF PageInv
  <2>2. ASSUME cpu_pc'[NextAp] \in NoStack
        PROVE  \A d \in CPUs : rsp'[d] # stacks'
    <3>1. NextAp # BspId
      BY <1>2, <2>2, Zenon DEF Moves
    <3>2. NextAp \in CPUs => cpu_pc'[NextAp] = cpu_pc[NextAp]
      BY <3>1, Zenon DEF Moves
    <3>3. CASE BspPc = "clear"
      BY <1>1, <1>2, <3>3, Zenon DEF PageInv
    <3>4. CASE BspPc # "clear"
      <4>1. NextAp \in CPUs
        <5>1. next \in DOMAIN lapics
          BY <1>1, <3>4, Zenon DEF BspInv
        <5> QED BY <5>1, Zenon DEF Lapics, NextAp
      <4> QED BY <1>1, <2>2, <3>2, <3>4, <4>1, Zenon DEF PageInv
    <3> QED BY <3>3, <3>4, Zenon
  <2>3. /\ \A c \in CPUs : rsp'[c] \in {Nothing} \cup 0 .. stacks'
        /\ \A c, d \in CPUs : c # d => rsp'[c] = Nothing \/ rsp'[c] # rsp'[d]
    BY <1>1, Zenon DEF PageInv
  <2> QED BY <1>2, <1>4, <2>1, <2>2, <2>3, Zenon DEF PageInv, Nothing
<1>6. CountInv'
  <2>1. Seen' = next /\ Seen = next
    BY <1>2, <1>4, Zenon DEF Seen
  <2> QED BY <1>1, <1>2, <2>1, Zenon DEF CountInv
<1>7. ASSUME NEW d \in APs
      PROVE  ApInv(d)'
  <2>1. ApInv(d) /\ d # BspId /\ d \in CPUs /\ cpu_pc'[d] = cpu_pc[d]
    BY DEF SmpInv, APs, Moves
  <2>2. CASE d = NextAp
    <3>1. OwnInv(d)'
      BY <2>1, Zenon DEF ApInv, OwnInv
    <3> QED BY <1>4, <2>1, <2>2, <3>1, Zenon DEF ApInv, Woken
  <2>3. CASE d # NextAp
    <3>1. ~Woken(d) /\ ~Woken(d)' /\ (Past(d)' <=> Past(d))
      BY <1>4, <2>3, Zenon DEF Woken, Past
    <3>2. /\ rsp'[d] = rsp[d] /\ tss'[d] = tss[d] /\ cpu_id'[d] = cpu_id[d] /\ gdt'[d] = gdt[d]
          /\ ipis'[d] = ipis[d] /\ idts \subseteq idts'
      BY <1>1, <2>1, <2>3, Zenon
    <3>3. stacks \in Nat /\ stacks' \in Nat /\ stacks <= stacks'
      BY <1>1
    <3> QED BY <2>1, <3>1, <3>2, <3>3, FrameAp, Zenon
  <2> QED BY <2>2, <2>3, Zenon
<1> QED BY <1>3, <1>4, <1>5, <1>6, <1>7, Zenon DEF SmpInv, APs

\* The flag of the AP before is cleared: the entry at next is not an AP that has been
\* started, for no id is twice in the table.
LEMMA ClearReadyInv ==
  ASSUME Lapics, SmpInv, ClearReady
  PROVE  SmpInv'
<1>1. /\ BspPc = "clear" /\ Goto(BspId, "init") /\ ap_ready' = FALSE
      /\ UNCHANGED <<lapics, next, trampoline, cpu_count, ipis, stacks, inside, rsp, tss, cpu_id, gdt, idts>>
  BY Zenon DEF ClearReady, local, BspPc
<1>2. /\ BspPc \in Counted /\ BspPc \notin Early \cup Waking \cup Stuck \cup {"gdt_alloc", "gdt"}
      /\ "init" \in Waking /\ "init" \in Labels
      /\ "init" \notin Early \cup After \cup Stuck \cup {"loop", "gdt_alloc", "gdt", "wait_ap", "startup", "wait_trampoline"}
  BY <1>1, Zenon DEF Early, Waking, Counted, After, Stuck, Labels
<1>3. BspInv /\ Types /\ PageInv /\ BspId \in CPUs
  BY ProcessorsAssumption, Zenon DEF SmpInv
<1>4. Moves(BspId, "init")
  BY <1>1, <1>2, <1>3, GotoMoves, Zenon DEF Types
<1>5. BspPc' = "init" /\ NextAp' = NextAp
  BY <1>1, <1>3, <1>4, Zenon DEF BspPc, Moves, NextAp
<1>6. next \in DOMAIN lapics /\ NextAp # OwnId /\ ipis[BspId] = <<>> /\ NextAp \in CPUs
  <2>1. next \in DOMAIN lapics /\ NextAp # OwnId /\ ipis[BspId] = <<>>
    BY <1>2, <1>3, Zenon DEF BspInv
  <2> QED BY <2>1, Zenon DEF Lapics, NextAp
<1>7. BspInv'
  <2>1. /\ cpu_id[BspId] = 0 /\ rsp[BspId] = 0 /\ tss[BspId] = 0 /\ 0 \in idts
    BY <1>2, <1>3, Zenon DEF BspInv
  <2>2. trampoline.ready = 0
    BY <1>1, <1>3, Zenon DEF PageInv
  <2> QED BY <1>1, <1>2, <1>5, <1>6, <2>1, <2>2, Zenon DEF BspInv
<1>8. ASSUME NextAp # BspId
      PROVE  WokenInv(NextAp)'
  <2>1. NextAp \in APs /\ ApInv(NextAp) /\ cpu_pc'[NextAp] = cpu_pc[NextAp]
    BY <1>4, <1>6, <1>8, Zenon DEF SmpInv, APs, Moves
  <2>2. ~Past(NextAp)
    <3>1. \A k \in 1 .. next - 1 : k \in DOMAIN lapics /\ k # next
      BY <1>6 DEF Lapics
    <3> QED BY <1>6, <3>1, Zenon DEF Past, NextAp, Lapics
  <2>3. cpu_pc[NextAp] = "halted" /\ ipis[NextAp] = <<>>
    BY <1>2, <2>1, <2>2, Zenon DEF ApInv, Woken, RestInv
  <2>4. trampoline'.ready = 0 /\ "halted" \in InTrampoline /\ "halted" \in NoStack /\ "halted" # "wait_bsp"
    BY <1>1, <1>3, Zenon DEF PageInv, InTrampoline, NoStack
  <2> QED BY <1>1, <1>5, <2>1, <2>3, <2>4, Zenon DEF WokenInv
<1>9. DOMAIN ipis' = CPUs /\ ap_ready' \in BOOLEAN
  BY <1>1, <1>3, Zenon DEF Types
<1> QED BY <1>1, <1>2, <1>4, <1>7, <1>8, <1>9, WakingStep, Zenon

\* A sequence and what is put behind it.
LEMMA Enqueued ==
  ASSUME NEW S, NEW s \in Seq(S), NEW e \in S
  PROVE  /\ Append(s, e) \in Seq(S) /\ Len(Append(s, e)) = Len(s) + 1
         /\ Append(s, e)[Len(s) + 1] = e /\ \A i \in 1 .. Len(s) : Append(s, e)[i] = s[i]
  OBVIOUS

\* What is sent to a CPU is behind what is under way to it.
LEMMA Behind ==
  \A kind : Append(<<>>, kind) = <<kind>> /\ Append(<<"INIT">>, kind) = <<"INIT", kind>>
<1>1. ASSUME NEW kind PROVE Append(<<>>, kind) = <<kind>>
  OBVIOUS
<1>2. ASSUME NEW kind PROVE Append(<<"INIT">>, kind) = <<"INIT", kind>>
  <2> DEFINE s == <<"INIT">>
             t == <<"INIT", kind>>
             S == {"INIT", kind}
  <2>1. s \in Seq(S) /\ Len(s) = 1 /\ s[1] = "INIT"
    OBVIOUS
  <2>2. t \in Seq(S) /\ Len(t) = 2 /\ t[1] = "INIT" /\ t[2] = kind
    OBVIOUS
  <2> DEFINE u == Append(s, kind)
  <2> HIDE DEF s, t, u
  <2>3. u \in Seq(S) /\ Len(u) = 2 /\ u[1] = "INIT" /\ u[2] = kind
    <3>1. kind \in S
      BY Zenon
    <3> HIDE DEF S
    <3>2. /\ u \in Seq(S) /\ Len(u) = Len(s) + 1
          /\ u[Len(s) + 1] = kind /\ \A i \in 1 .. Len(s) : u[i] = s[i]
      BY <2>1, <3>1, Enqueued DEF u
    <3> QED BY <2>1, <3>2
  <2>4. u = t
    BY <2>2, <2>3
  <2> QED BY <2>4, Zenon DEF s, t, u
<1> QED BY <1>1, <1>2, Zenon

\* INIT and STARTUP go to the AP at next, in this order.
LEMMA SendIpiInv ==
  ASSUME Lapics, SmpInv, NEW from, NEW kind, NEW to,
         \/ from = "init" /\ kind = "INIT" /\ to = "startup"
         \/ from = "startup" /\ kind = "STARTUP" /\ to = "wait_trampoline",
         SendIpi(from, kind, to)
  PROVE  SmpInv'
<1>1. /\ BspPc = from /\ Goto(BspId, to)
      /\ ipis' = [ipis EXCEPT ![NextAp] = Append(@, kind)]
      /\ UNCHANGED <<lapics, next, trampoline, ap_ready, cpu_count, stacks, inside, rsp, tss, cpu_id, gdt, idts>>
  BY Zenon DEF SendIpi, local, BspPc, NextAp
<1>2. /\ from \in Waking /\ to \in Waking /\ to \in Labels
      /\ from \notin Early \cup Stuck \cup {"gdt_alloc", "gdt", "wait_ap"}
      /\ to \notin Early \cup After \cup Stuck \cup {"loop", "gdt_alloc", "gdt", "wait_ap", "init"}
      /\ from # "wait_trampoline"
  BY DEF Early, Waking, After, Stuck, Labels
<1>3. BspInv /\ Types /\ PageInv /\ BspId \in CPUs
  BY ProcessorsAssumption, Zenon DEF SmpInv
<1>4. Moves(BspId, to)
  BY <1>1, <1>2, <1>3, GotoMoves, Zenon DEF Types
<1>5. BspPc' = to /\ NextAp' = NextAp
  BY <1>1, <1>3, <1>4, Zenon DEF BspPc, Moves, NextAp
<1>6. next \in DOMAIN lapics /\ NextAp # OwnId /\ NextAp \in CPUs
  <2>1. next \in DOMAIN lapics /\ NextAp # OwnId
    BY <1>1, <1>2, <1>3, Zenon DEF BspInv
  <2> QED BY <2>1, Zenon DEF Lapics, NextAp
<1>7. /\ DOMAIN ipis' = CPUs /\ ipis'[NextAp] = Append(ipis[NextAp], kind)
      /\ \A d \in CPUs \ {NextAp} : ipis'[d] = ipis[d]
  BY <1>1, <1>3, <1>6, Zenon DEF Types
<1>8. /\ ipis[NextAp] = <<>> => ipis'[NextAp] = <<kind>>
      /\ ipis[NextAp] = <<"INIT">> => ipis'[NextAp] = <<"INIT", kind>>
  BY <1>7, Behind, Zenon
<1>9. BspInv'
  <2>1. /\ cpu_id[BspId] = 0 /\ rsp[BspId] = 0 /\ tss[BspId] = 0 /\ 0 \in idts
    BY <1>1, <1>2, <1>3, Zenon DEF BspInv
  <2>2. CASE NextAp = BspId
    <3>1. /\ trampoline.ready = 0 /\ from = "init" => ipis[BspId] = <<>>
          /\ from = "startup" => ipis[BspId] = <<"INIT">>
      BY <1>1, <1>2, <1>3, <2>2, Zenon DEF BspInv
    <3>2. trampoline.ready = 0
      BY <1>1, <1>2, <1>3, <2>2, Zenon DEF BspInv
    <3>3. /\ to = "startup" => ipis'[BspId] = <<"INIT">>
          /\ to = "wait_trampoline" => ipis'[BspId] = <<"INIT", "STARTUP">>
      BY <1>8, <2>2, <3>1, <3>2, Zenon
    <3> QED BY <1>1, <1>2, <1>5, <1>6, <2>1, <2>2, <3>2, <3>3, Zenon DEF BspInv
  <2>3. CASE NextAp # BspId
    <3>1. ipis[BspId] = <<>>
      BY <1>1, <1>2, <1>3, <2>3, Zenon DEF BspInv
    <3>2. ipis'[BspId] = <<>>
      BY <1>3, <1>7, <2>3, <3>1, Zenon
    <3> QED BY <1>1, <1>2, <1>5, <1>6, <2>1, <2>3, <3>2, Zenon DEF BspInv
  <2> QED BY <2>2, <2>3, Zenon
<1>10. ASSUME NextAp # BspId
       PROVE  WokenInv(NextAp)'
  <2>1. ApInv(NextAp) /\ cpu_pc'[NextAp] = cpu_pc[NextAp]
    BY <1>4, <1>6, <1>10, Zenon DEF SmpInv, Moves
  <2>2. WokenInv(NextAp)
    BY <1>1, <1>2, <2>1, Zenon DEF ApInv, Woken
  <2>3. to = "startup" => cpu_pc'[NextAp] = "halted" /\ ipis'[NextAp] = <<"INIT">>
    BY <1>1, <1>8, <2>1, <2>2, Zenon DEF WokenInv
  <2>4. to = "wait_trampoline" => \/ cpu_pc'[NextAp] = "halted" /\ ipis'[NextAp] = <<"INIT", "STARTUP">>
                                  \/ cpu_pc'[NextAp] = "stopped" /\ ipis'[NextAp] = <<"STARTUP">>
    BY <1>1, <1>8, <2>1, <2>2, Zenon DEF WokenInv
  <2> QED BY <1>1, <1>2, <1>5, <2>1, <2>2, <2>3, <2>4, Zenon DEF WokenInv
<1>11. ap_ready' \in BOOLEAN
  BY <1>1, <1>3, Zenon DEF Types
<1> QED BY <1>1, <1>2, <1>4, <1>7, <1>9, <1>10, <1>11, WakingStep, Zenon

\* The AP at next has left the trampoline.
LEMMA WaitTrampolineInv ==
  ASSUME Lapics, SmpInv, WaitTrampoline
  PROVE  SmpInv'
<1>1. /\ BspPc = "wait_trampoline" /\ trampoline.ready # 0 /\ Goto(BspId, "wait_ap")
      /\ UNCHANGED <<lapics, next, trampoline, ap_ready, cpu_count, ipis, stacks, inside, rsp, tss,
                     cpu_id, gdt, idts>>
  BY Zenon DEF WaitTrampoline, local, boot, BspPc
<1>2. /\ BspPc \in Waking /\ "wait_ap" \in Waking /\ "wait_ap" \in Labels
      /\ BspPc \notin Early \cup Stuck \cup {"gdt_alloc", "gdt"}
      /\ "wait_ap" \notin Early \cup After \cup Stuck
                          \cup {"loop", "gdt_alloc", "gdt", "init", "startup", "wait_trampoline"}
  BY <1>1, Zenon DEF Early, Waking, After, Stuck, Labels
<1>3. BspInv /\ Types /\ PageInv /\ BspId \in CPUs
  BY ProcessorsAssumption, Zenon DEF SmpInv
<1>4. Moves(BspId, "wait_ap")
  BY <1>1, <1>2, <1>3, GotoMoves, Zenon DEF Types
<1>5. BspPc' = "wait_ap" /\ NextAp' = NextAp
  BY <1>1, <1>3, <1>4, Zenon DEF BspPc, Moves, NextAp
<1>6. NextAp # BspId /\ ipis[BspId] = <<>> /\ next \in DOMAIN lapics /\ NextAp # OwnId
  BY <1>1, <1>2, <1>3, Zenon DEF BspInv
<1>7. NextAp \in CPUs
  BY <1>6, Zenon DEF Lapics, NextAp
<1>8. BspInv'
  <2>1. /\ cpu_id[BspId] = 0 /\ rsp[BspId] = 0 /\ tss[BspId] = 0 /\ 0 \in idts
    BY <1>2, <1>3, Zenon DEF BspInv
  <2> QED BY <1>1, <1>2, <1>5, <1>6, <2>1, Zenon DEF BspInv
<1>9. WokenInv(NextAp)'
  <2>1. ApInv(NextAp) /\ cpu_pc'[NextAp] = cpu_pc[NextAp]
    BY <1>4, <1>6, <1>7, Zenon DEF SmpInv, Moves
  <2>2. WokenInv(NextAp)
    BY <1>1, <1>2, <2>1, Zenon DEF ApInv, Woken
  <2>3. cpu_pc[NextAp] \notin InTrampoline /\ ipis[NextAp] = <<>>
    BY <1>1, <2>2, Zenon DEF WokenInv, InTrampoline, NoStack
  <2> QED BY <1>1, <1>2, <1>5, <2>1, <2>2, <2>3, Zenon DEF WokenInv
<1>10. DOMAIN ipis' = CPUs /\ ap_ready' \in BOOLEAN
  BY <1>1, <1>3, Zenon DEF Types
<1> QED BY <1>1, <1>2, <1>4, <1>8, <1>9, <1>10, WakingStep, Zenon

\* The AP at next is ready: from now on it is one of those that wait.
LEMMA WaitApInv ==
  ASSUME Lapics, SmpInv, WaitAp
  PROVE  SmpInv'
<1>1. /\ BspPc = "wait_ap" /\ ap_ready /\ Goto(BspId, "loop") /\ next' = next + 1
      /\ UNCHANGED <<lapics, trampoline, ap_ready, cpu_count, ipis, stacks, inside, rsp, tss, cpu_id,
                     gdt, idts>>
  BY Zenon DEF WaitAp, local, BspPc
<1>2. /\ BspPc \in Waking /\ "loop" \in Labels
      /\ BspPc \notin Early \cup Stuck \cup InFrames \cup InHeap \cup {"gdt_alloc", "gdt"}
      /\ "loop" \notin Early \cup Counted \cup Waking \cup After \cup Stuck
                       \cup InFrames \cup InHeap \cup {"gdt_alloc", "gdt", "clear"}
  BY <1>1, Zenon DEF Early, Counted, Waking, After, Stuck, Labels, InFrames, InHeap
<1>3. BspInv /\ Types /\ PageInv /\ CountInv /\ BspId \in CPUs
  BY ProcessorsAssumption, Zenon DEF SmpInv
<1>4. Moves(BspId, "loop")
  BY <1>1, <1>2, <1>3, GotoMoves, Zenon DEF Types
<1>5. BspPc' = "loop"
  BY <1>3, <1>4, Zenon DEF BspPc, Moves
<1>6. NextAp # BspId /\ ipis[BspId] = <<>> /\ next \in DOMAIN lapics /\ NextAp # OwnId
  BY <1>1, <1>2, <1>3, Zenon DEF BspInv
<1>7. next' \in 1 .. Len(lapics) + 1 /\ next \in Nat /\ next' \in Nat \ {0}
  BY <1>1, <1>6 DEF Lapics
<1>8. CellInv' /\ DOMAIN inside' = {"frames", "heap"}
  BY <1>1, <1>2, <1>3, <1>4, CellsSame, Zenon DEF BspPc, SmpInv
<1>9. Types'
  BY <1>1, <1>3, <1>4, <1>7, Zenon DEF Types, Moves
<1>10. BspInv'
  <2>1. /\ cpu_id[BspId] = 0 /\ rsp[BspId] = 0 /\ tss[BspId] = 0 /\ 0 \in idts
    BY <1>2, <1>3, Zenon DEF BspInv
  <2>2. Len(lapics') = Len(lapics)
    BY <1>1, Zenon
  <2> QED BY <1>1, <1>2, <1>5, <1>6, <1>7, <2>1, <2>2, Zenon DEF BspInv
<1>11. PageInv'
  <2>1. /\ \A c \in CPUs : rsp'[c] \in {Nothing} \cup 0 .. stacks'
        /\ \A c, d \in CPUs : c # d => rsp'[c] = Nothing \/ rsp'[c] # rsp'[d]
    BY <1>1, <1>3, Zenon DEF PageInv
  <2> QED BY <1>2, <1>5, <2>1, Zenon DEF PageInv, Nothing
<1>12. CountInv'
  <2>1. Seen = next /\ Seen' = next
    BY <1>1, <1>2, <1>5, <1>7 DEF Seen
  <2> QED BY <1>1, <1>2, <1>3, <2>1, Zenon DEF CountInv
<1>13. ASSUME NEW d \in APs
       PROVE  ApInv(d)'
  <2>1. ApInv(d) /\ d # BspId /\ d \in CPUs /\ cpu_pc'[d] = cpu_pc[d] /\ ~Woken(d)'
    BY <1>2, <1>4, <1>5, Zenon DEF SmpInv, APs, Moves, Woken
  <2>2. Past(d)' <=> (Past(d) \/ d = NextAp)
    <3>1. 1 .. next' - 1 = (1 .. next - 1) \cup {next} /\ lapics' = lapics
      BY <1>1, <1>6, <1>7 DEF Lapics
    <3>2. (\E k \in 1 .. next' - 1 : lapics'[k] = d) <=> (\E k \in 1 .. next - 1 : lapics[k] = d) \/ d = NextAp
      BY <3>1, Zenon DEF NextAp
    <3> QED BY <1>6, <3>2, OwnIdFixed, Zenon DEF Past
  <2>3. CASE d = NextAp
    <3>1. WokenInv(d)
      BY <1>1, <1>2, <2>1, <2>3, Zenon DEF ApInv, Woken
    <3>2. cpu_pc[d] = "wait_bsp" /\ ipis[d] = <<>>
      BY <1>1, <3>1, Zenon DEF WokenInv
    <3>3. OwnInv(d)'
      BY <1>1, <2>1, Zenon DEF ApInv, OwnInv
    <3> QED BY <1>1, <2>1, <2>2, <2>3, <3>2, <3>3, Zenon DEF ApInv, RestInv
  <2>4. CASE d # NextAp
    <3>1. ~Woken(d) /\ (Past(d)' <=> Past(d))
      BY <2>2, <2>4, Zenon DEF Woken
    <3>2. stacks \in Nat /\ stacks' = stacks /\ stacks <= stacks' /\ idts \subseteq idts'
      BY <1>1, <1>3 DEF Types
    <3> QED BY <1>1, <2>1, <3>1, <3>2, FrameAp, Zenon
  <2> QED BY <2>3, <2>4, Zenon
<1> QED BY <1>8, <1>9, <1>10, <1>11, <1>12, <1>13, Zenon DEF SmpInv, APs

\* At the start the BSP runs, and nobody else has.
LEMMA SmpInitInv ==
  ASSUME StartInit
  PROVE  SmpInv
<1>1. /\ BspPc = "gdt_alloc" /\ BspId \in CPUs /\ next = 1 /\ stacks = 0
      /\ cpu_id[BspId] = 0 /\ rsp[BspId] = 0 /\ gdt[BspId] = <<>> /\ ipis[BspId] = <<>>
  BY ProcessorsAssumption, Zenon DEF StartInit, BspPc
<1>2. /\ "gdt_alloc" \in Early /\ "gdt_alloc" \in Labels /\ "halted" \in Labels
      /\ "gdt_alloc" \notin {"loop", "count", "clear"} \cup Counted \cup Waking \cup After \cup Stuck
      /\ "gdt_alloc" \notin InFrames \cup InHeap /\ "halted" \notin InFrames \cup InHeap
  BY DEF Early, Labels, ApLabels, NoGdt, NoId, InTrampoline, NoStack, Counted, Waking, After, Stuck,
         InFrames, InHeap
<1>3. Types
  <2>1. cpu_pc \in [CPUs -> Labels]
    BY <1>2, Zenon DEF StartInit
  <2>2. DOMAIN trampoline = {"ready", "cpu_id", "stack_end"}
    BY Zenon DEF StartInit
  <2>3. /\ DOMAIN ipis = CPUs /\ DOMAIN rsp = CPUs /\ DOMAIN tss = CPUs /\ DOMAIN cpu_id = CPUs
        /\ DOMAIN gdt = CPUs /\ DOMAIN inside = {"frames", "heap"}
    BY DEF StartInit, Cells
  <2>4. ap_ready \in BOOLEAN
    BY Zenon DEF StartInit
  <2>5. next \in Nat \ {0} /\ stacks \in Nat /\ cpu_count \in Nat
    BY DEF StartInit
  <2> QED BY <2>1, <2>2, <2>3, <2>4, <2>5, Zenon DEF Types
<1>4. BspInv
  BY <1>1, <1>2, Zenon DEF BspInv
<1>5. ASSUME NEW c \in APs
      PROVE  ApInv(c)
  <2>1. /\ cpu_pc[c] = "halted" /\ ipis[c] = <<>> /\ rsp[c] = Nothing /\ gdt[c] = <<>>
    BY Zenon DEF StartInit, APs, Nothing
  <2>2. ~Past(c) /\ ~Woken(c)
    BY <1>1, <1>2 DEF Past, Woken
  <2>3. OwnInv(c)
    BY <2>1, Zenon DEF OwnInv, ApLabels, NoGdt, NoId, InTrampoline, NoStack
  <2> QED BY <2>1, <2>2, <2>3, Zenon DEF ApInv, RestInv
<1>6. PageInv
  <2>1. \A c \in CPUs : rsp[c] = IF c = BspId THEN 0 ELSE Nothing
    BY Zenon DEF StartInit, Nothing
  <2> QED BY <1>1, <1>2, <2>1 DEF PageInv, Nothing
<1>7. CellInv
  <2>1. inside["frames"] = {} /\ inside["heap"] = {}
    BY Zenon DEF StartInit, Cells
  <2>2. \A c \in CPUs : cpu_pc[c] \notin InFrames \cup InHeap
    BY <1>2, Zenon DEF StartInit
  <2> QED BY <2>1, <2>2, Zenon DEF CellInv
<1>8. CountInv
  BY <1>1, <1>2, Zenon DEF CountInv
<1> QED BY <1>3, <1>4, <1>5, <1>6, <1>7, <1>8, Zenon DEF SmpInv, APs

\* Before the kernel runs, no other CPU does.
LEMMA NobodyElse ==
  ASSUME StartInit, NEW c \in CPUs
  PROVE  ~Receive(c) /\ (c # BspId => ~Ap(c))
<1>1. ipis[c] = <<>> /\ (c # BspId => cpu_pc[c] = "halted")
  BY DEF StartInit
<1>2. ~Receive(c)
  BY <1>1, Zenon DEF Receive
<1>3. ASSUME c # BspId, Ap(c) PROVE FALSE
  <2>1. cpu_pc[c] # "halted"
    BY <1>3, Zenon DEF Ap, TakeStack, LeaveTrampoline, StartAp, StoreReady, InitCpu,
                EnterAllocator, EnterHeap, EnterCell, InitGdt, LeaveHeap, InitIdt
  <2> QED BY <1>1, <1>3, <2>1, Zenon
<1> QED BY <1>2, <1>3, Zenon

\* An IDT that has been set up stays.
LEMMA IdtsGrow ==
  ASSUME Bsp \/ \E c \in CPUs : Receive(c) \/ Ap(c)
  PROVE  idts \subseteq idts'
<1>1. ASSUME NEW c, InitCpu(c) PROVE idts \subseteq idts'
  BY <1>1, Zenon DEF InitCpu, EnterAllocator, EnterHeap, EnterCell, InitGdt,
              LeaveHeap, InitIdt, local
<1>2. CASE Bsp
  BY <1>1, <1>2, Zenon DEF Bsp, StoreCount, SkipBsp, CountAp, EnterAllocator, EnterHeap,
              EnterCell, Prepare, ClearReady, SendIpi, WaitTrampoline, WaitAp,
              LoopDone, LeaveHeap, local
<1>3. ASSUME NEW c \in CPUs, Receive(c) \/ Ap(c) PROVE idts \subseteq idts'
  BY <1>1, <1>3, Zenon DEF Receive, Ap, TakeStack, LeaveTrampoline, StartAp,
                    StoreReady, local
<1> QED BY <1>2, <1>3, Zenon

\* The BSP counts itself and clears the words of the trampoline.
LEMMA StoreCountInv ==
  ASSUME SmpInv, Lapics, Counting, StoreCount
  PROVE  SmpInv'
<1>1. /\ BspPc = "count" /\ cpu_count' = 1 /\ ap_ready' = FALSE /\ Goto(BspId, "loop")
      /\ trampoline' = [ready |-> 0, cpu_id |-> 0, stack_end |-> 0]
      /\ UNCHANGED <<lapics, next, ipis, stacks, inside, rsp, tss, cpu_id, once, gdt, idts>>
  BY Zenon DEF StoreCount, local, BspPc
<1>2. /\ BspPc \in Early /\ BspPc \notin Waking /\ "loop" \in Labels
      /\ "loop" \notin Early \cup Counted \cup Waking \cup After \cup Stuck
  BY <1>1, Zenon DEF Early, Waking, Labels, Counted, After, Stuck
<1>3. BspId \in CPUs /\ BspInv /\ Types /\ PageInv /\ stacks \in Nat
  BY ProcessorsAssumption, Zenon DEF SmpInv, Types
<1>4. Moves(BspId, "loop")
  BY <1>1, <1>2, <1>3, GotoMoves, Zenon
<1>5. CellInv' /\ DOMAIN inside' = {"frames", "heap"}
  BY <1>1, <1>3, <1>4, CellsSame, Zenon DEF InFrames, InHeap, BspPc
<1>6. BspPc' = "loop" /\ NextAp' = NextAp /\ Types'
  BY <1>1, <1>3, <1>4, <1>5, Zenon DEF Moves, BspPc, NextAp, Types
<1>7. BspInv'
  <2>1. next = 1 /\ next \in 1 .. Len(lapics) + 1
    BY <1>2, <1>3 DEF BspInv, Lapics
  <2>2. /\ cpu_id[BspId] = 0 /\ rsp[BspId] = 0 /\ tss[BspId] = 0 /\ 0 \in idts /\ ipis[BspId] = <<>>
    BY <1>1, <1>3, Zenon DEF BspInv, Waking, Stuck
  <2>3. "loop" \notin {"gdt_alloc", "gdt"}
    OBVIOUS
  <2> QED BY <1>1, <1>2, <1>6, <2>1, <2>2, <2>3, Zenon DEF BspInv
<1>8. PageInv'
  BY <1>1, <1>2, <1>3, <1>6, Zenon DEF PageInv
<1>9. CountInv'
  <2>1. Seen' = 0
    BY <1>1, <1>2, <1>3, <1>6 DEF BspInv, Seen
  <2>2. {lapics'[k] : k \in 1 .. Seen'} \ {OwnId} = {}
    BY <2>1
  <2>3. Cardinality({lapics'[k] : k \in 1 .. Seen'} \ {OwnId}) = 0
    BY <2>2, Zenon DEF Counting
  <2>4. cpu_count' = 1 + Cardinality({lapics'[k] : k \in 1 .. Seen'} \ {OwnId})
    BY <1>1, <2>3
  <2> QED BY <2>4, Zenon DEF CountInv, OwnId
<1>10. ASSUME NEW d \in APs
       PROVE  ~Woken(d) /\ ~Woken(d)' /\ (Past(d)' <=> Past(d)) /\ cpu_pc'[d] = cpu_pc[d]
  BY <1>1, <1>2, <1>3, <1>4, <1>6, Zenon DEF Woken, Past, Moves, APs
<1>11. stacks' \in Nat /\ stacks <= stacks' /\ idts \subseteq idts'
  BY <1>1, <1>3
<1> QED BY <1>1, <1>5, <1>6, <1>7, <1>8, <1>9, <1>10, <1>11, BspStep, Zenon

\* An AP is counted before it is started.
LEMMA CountApInv ==
  ASSUME SmpInv, Lapics, Counting, CountAp
  PROVE  SmpInv'
<1>1. /\ BspPc = "loop" /\ next <= Len(lapics) /\ NextAp # OwnId
      /\ cpu_count' = cpu_count + 1 /\ Goto(BspId, "stack_alloc")
      /\ UNCHANGED <<lapics, next, trampoline, ap_ready, ipis, stacks, inside, rsp, tss,
                     cpu_id, once, gdt, idts>>
  BY Zenon DEF CountAp, local, BspPc, NextAp
<1>2. /\ BspPc \notin Early \cup Counted \cup Waking \cup After \cup Stuck
      /\ "stack_alloc" \in Counted /\ "stack_alloc" \in Labels
      /\ "stack_alloc" \notin Early \cup Waking \cup After \cup Stuck \cup {"loop", "clear"}
  BY <1>1, Zenon DEF Early, Waking, Counted, After, Stuck, Labels
<1>3. /\ BspInv /\ Types /\ PageInv /\ CountInv /\ CellInv /\ stacks \in Nat /\ next \in Nat \ {0}
      /\ BspId \in CPUs
  BY ProcessorsAssumption, Zenon DEF SmpInv, Types
<1>4. Moves(BspId, "stack_alloc") /\ next \in DOMAIN lapics
  BY <1>1, <1>2, <1>3, GotoMoves DEF Lapics
<1>5. CellInv' /\ DOMAIN inside' = {"frames", "heap"}
  BY <1>1, <1>3, <1>4, CellsSame, ZenonT(60) DEF InFrames, InHeap, BspPc
<1>6. BspPc' = "stack_alloc" /\ Types' /\ NextAp' = NextAp
  BY <1>1, <1>3, <1>4, <1>5 DEF BspPc, Types, Moves, NextAp
<1>7. BspInv'
  <2>1. /\ cpu_id[BspId] = 0 /\ rsp[BspId] = 0 /\ tss[BspId] = 0 /\ 0 \in idts /\ ipis[BspId] = <<>>
    BY <1>1, <1>2, <1>3, Zenon DEF BspInv
  <2>2. "stack_alloc" \notin {"gdt_alloc", "gdt"}
    OBVIOUS
  <2> QED BY <1>1, <1>2, <1>4, <1>6, <2>1, <2>2, Zenon DEF BspInv
<1>8. PageInv'
  BY <1>1, <1>2, <1>3, <1>6, Zenon DEF PageInv
<1>9. CountInv'
  <2>1. Seen' = next /\ Seen = next - 1
    BY <1>1, <1>2, <1>6, Zenon DEF Seen
  <2>2. cpu_count = 1 + Cardinality({lapics[k] : k \in 1 .. next - 1} \ {OwnId})
    BY <1>2, <1>3, <2>1, Zenon DEF CountInv
  <2>3. cpu_count \in Nat /\ cpu_count' = cpu_count + 1
    BY <1>1, <1>3, Zenon DEF Types
  <2> DEFINE m == Cardinality({lapics[k] : k \in 1 .. next - 1} \ {OwnId})
             n == Cardinality({lapics[k] : k \in 1 .. next} \ {OwnId})
  <2>4. n = m + 1 /\ cpu_count = 1 + m /\ m \in Nat
    BY <1>1, <1>4, <2>2, Zenon DEF NextAp, Counting
  <2> HIDE DEF m, n
  <2>5. cpu_count' = 1 + n
    BY <2>3, <2>4
  <2> QED BY <1>1, <2>1, <2>5, Zenon DEF CountInv, n
<1>10. ASSUME NEW d \in APs
       PROVE  ~Woken(d) /\ ~Woken(d)' /\ (Past(d)' <=> Past(d)) /\ cpu_pc'[d] = cpu_pc[d]
  BY <1>1, <1>2, <1>3, <1>4, <1>6, Zenon DEF Woken, Past, Moves, APs
<1>11. stacks' \in Nat /\ stacks <= stacks' /\ idts \subseteq idts'
  BY <1>1, <1>3
<1> QED BY <1>1, <1>5, <1>6, <1>7, <1>8, <1>9, <1>10, <1>11, BspStep, Zenon

\* No step of the BSP leads out of the invariant.
LEMMA BspActionInv ==
  ASSUME Lapics, Counting, SmpInv, Bsp
  PROVE  SmpInv'
<1>1. CASE \/ EnterAllocator(BspId, "gdt_alloc", "gdt") \/ EnterHeap(BspId, "idt_box", "idt_boxed")
           \/ EnterAllocator(BspId, "idt_alloc", "idt") \/ EnterHeap(BspId, "done", "rest")
           \/ EnterAllocator(BspId, "stack_alloc", "prepare")
  BY <1>1, BspEnterInv, Zenon DEF EnterAllocator, EnterHeap
<1>2. CASE \/ LeaveHeap(BspId, "idt_boxed", "idt_alloc") \/ LeaveHeap(BspId, "rest", "alone")
           \/ LoopDone
  BY <1>2, BspLeaveInv, Zenon
<1>3. CASE InitGdt(BspId) \/ InitIdt(BspId)
  BY <1>3, BspInitInv, Zenon
<1>4. CASE StoreCount \/ SkipBsp \/ CountAp
  BY <1>4, StoreCountInv, SkipBspInv, CountApInv, Zenon
<1>5. CASE \/ SendIpi("init", "INIT", "startup")
           \/ SendIpi("startup", "STARTUP", "wait_trampoline")
  BY <1>5, SendIpiInv, Zenon
<1>6. CASE Prepare \/ ClearReady \/ WaitTrampoline \/ WaitAp
  BY <1>6, PrepareInv, ClearReadyInv, WaitTrampolineInv, WaitApInv, Zenon
<1> QED BY <1>1, <1>2, <1>3, <1>4, <1>5, <1>6, Zenon DEF Bsp, InitCpu

\* Nothing of the start has changed.
LEMMA SmpSame ==
  ASSUME SmpInv, UNCHANGED <<lapics, starting>>
  PROVE  SmpInv'
<1>1. /\ cpu_pc' = cpu_pc /\ next' = next /\ trampoline' = trampoline /\ ap_ready' = ap_ready /\ lapics' = lapics
      /\ cpu_count' = cpu_count /\ ipis' = ipis /\ stacks' = stacks /\ inside' = inside /\ rsp' = rsp
      /\ tss' = tss /\ cpu_id' = cpu_id /\ gdt' = gdt /\ idts' = idts
  BY Zenon DEF starting
<1>2. BspPc' = BspPc /\ NextAp' = NextAp /\ Seen' = Seen
  BY <1>1, Zenon DEF BspPc, NextAp, Seen
<1>3. Types'
  BY <1>1, Zenon DEF SmpInv, Types
<1>4. BspInv'
  <2>1. BspInv
    BY Zenon DEF SmpInv
  <2> QED BY <1>1, <1>2, <2>1, OwnIdFixed, ZenonT(60) DEF BspInv
<1>5. ASSUME NEW c, ApInv(c) PROVE ApInv(c)'
  <2>1. (Past(c)' <=> Past(c)) /\ (Woken(c)' <=> Woken(c))
    BY <1>1, <1>2, OwnIdFixed, Zenon DEF Past, Woken
  <2>2. OwnInv(c) => OwnInv(c)'
    BY <1>1, Zenon DEF OwnInv, Nothing
  <2>3. WokenInv(c) => WokenInv(c)'
    BY <1>1, <1>2, Zenon DEF WokenInv
  <2>4. RestInv(c) => RestInv(c)'
    BY <1>1, <2>1, Zenon DEF RestInv
  <2> QED BY <1>5, <2>1, <2>2, <2>3, <2>4, Zenon DEF ApInv
<1>6. PageInv'
  BY <1>1, <1>2, Zenon DEF SmpInv, PageInv, Nothing
<1>7. CellInv'
  BY <1>1, Zenon DEF SmpInv, CellInv
<1>8. CountInv'
  <2>1. CountInv
    BY DEF SmpInv
  <2>2. {lapics[k] : k \in 1 .. Seen}' = {lapics[k] : k \in 1 .. Seen} /\ OwnId' = OwnId
    BY <1>1, <1>2, Zenon DEF OwnId
  <2> QED BY <1>1, <1>2, <2>1, <2>2, Zenon DEF CountInv
<1> QED BY <1>3, <1>4, <1>5, <1>6, <1>7, <1>8, Zenon DEF SmpInv

\* Every step keeps the invariant.
LEMMA NextInv ==
  ASSUME Lapics, Counting, SmpInv,
         Bsp \/ \E c \in CPUs : Receive(c) \/ (c # BspId /\ Ap(c))
  PROVE  SmpInv'
<1>1. CASE Bsp
  BY <1>1, BspActionInv, Zenon
<1>2. ASSUME NEW c \in CPUs, Receive(c) \/ (c # BspId /\ Ap(c))
      PROVE  SmpInv'
  <2>1. c = BspId \/ c \in APs
    BY DEF APs
  <2> QED BY <1>2, <2>1, ReceiveApInv, ReceiveBspInv, ApActionInv, Zenon
<1> QED BY <1>1, <1>2, Zenon

\* A CPU past init_gdt has its own id and its own stack.
LEMMA OwnFromInv ==
  ASSUME SmpInv
  PROVE  OwnIdAndStack
<1> SUFFICES ASSUME NEW c \in CPUs, gdt[c] # <<>>
             PROVE  /\ cpu_id[c] = IF c = BspId THEN 0 ELSE c
                    /\ rsp[c] = tss[c] /\ rsp[c] # Nothing
                    /\ \A d \in CPUs : d # c => rsp[d] = Nothing \/ rsp[d] # rsp[c]
  BY Zenon DEF OwnIdAndStack
<1>1. /\ BspInv /\ stacks \in Nat
      /\ \A d \in CPUs : d # c => rsp[d] = Nothing \/ rsp[d] # rsp[c]
  BY Zenon DEF SmpInv, PageInv, Types
<1>2. CASE c = BspId
  <2>1. cpu_id[c] = 0 /\ rsp[c] = 0 /\ tss[c] = 0
    BY <1>1, <1>2, Zenon DEF BspInv
  <2> QED BY <1>1, <1>2, <2>1 DEF Nothing
<1>3. CASE c # BspId
  <2>1. OwnInv(c)
    BY <1>3, Zenon DEF SmpInv, ApInv
  <2>2. cpu_pc[c] \notin NoGdt
    BY <2>1, Zenon DEF OwnInv
  <2>3. cpu_pc[c] \notin NoStack /\ cpu_pc[c] \notin NoId
    BY <2>2, Zenon DEF NoGdt, NoId, InTrampoline
  <2>4. rsp[c] \in 1 .. stacks /\ cpu_id[c] = c /\ tss[c] = rsp[c]
    BY <2>1, <2>2, <2>3, Zenon DEF OwnInv
  <2> QED BY <1>1, <1>3, <2>4 DEF Nothing
<1> QED BY <1>2, <1>3, Zenon

\* No label of the invariant is that of a panic.
LEMMA NoPanicFromInv ==
  ASSUME SmpInv
  PROVE  NoBorrowPanic
<1>1. "panic" \notin Labels
  BY Zenon DEF Labels, ApLabels, NoGdt, NoId, InTrampoline, NoStack, Early, Counted, Waking, After, Stuck
<1>2. \A c \in CPUs : cpu_pc[c] \in Labels
  BY DEF SmpInv, Types
<1> QED BY <1>1, <1>2, Zenon DEF NoBorrowPanic

\* When setup_ap_startup has returned, the BSP has its IDT.
LEMMA BspHasIdt ==
  ASSUME SmpInv, cpu_pc[BspId] = "alone"
  PROVE  0 \in idts
<1>1. BspPc \in After /\ BspPc \notin Early
  BY Zenon DEF BspPc, After, Early
<1> QED BY <1>1, Zenon DEF SmpInv, BspInv

\* After the last entry every other CPU of the list has been started.
LEMMA ReadyFromInv ==
  ASSUME Lapics, SmpInv, OwnId = BspId
  PROVE  AllStarted
<1> SUFFICES ASSUME BspPc \in After
             PROVE  /\ cpu_count = 1 + Cardinality(Range(lapics) \ {BspId})
                    /\ \A c \in Range(lapics) \ {BspId} : cpu_pc[c] = "wait_bsp" /\ c \in idts
  BY Zenon DEF AllStarted, After, BspPc
<1>1. BspPc \notin Early \cup Counted \cup Waking \cup Stuck
  BY Zenon DEF Early, Counted, Waking, Stuck, After
<1>2. next = Len(lapics) + 1 /\ BspInv /\ CountInv
  BY Zenon DEF SmpInv, BspInv
<1>3. Seen = Len(lapics) /\ 1 .. next - 1 = DOMAIN lapics /\ 1 .. Seen = DOMAIN lapics
  <2>1. Seen = next - 1
    BY <1>1, Zenon DEF Seen
  <2>2. next - 1 = Len(lapics) /\ DOMAIN lapics = 1 .. Len(lapics)
    BY <1>2 DEF Lapics
  <2> QED BY <2>1, <2>2, Zenon
<1>4. Range(lapics) = {lapics[k] : k \in 1 .. Seen}
  BY <1>3, Zenon DEF Range
<1>5. cpu_count = 1 + Cardinality(Range(lapics) \ {BspId})
  BY <1>1, <1>2, <1>4, Zenon DEF CountInv
<1>6. ASSUME NEW c \in Range(lapics) \ {BspId}
      PROVE  cpu_pc[c] = "wait_bsp" /\ c \in idts
  <2>1. Past(c) /\ c \in CPUs
    BY <1>3, <1>4, Zenon DEF Past, Lapics
  <2>2. ApInv(c) /\ ~Woken(c)
    BY <1>1, <1>6, <2>1, Zenon DEF SmpInv, Woken
  <2>3. cpu_pc[c] = "wait_bsp"
    BY <2>1, <2>2, Zenon DEF ApInv, RestInv
  <2> QED BY <2>2, <2>3, Zenon DEF ApInv, OwnInv
<1> QED BY <1>5, <1>6, Zenon
===============================================================================
