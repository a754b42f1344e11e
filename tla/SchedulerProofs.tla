--------------------------- MODULE SchedulerProofs ----------------------------
(*****************************************************************************)
(* Who runs what, where registers, stacks and address spaces are: the        *)
(* properties of Scheduler for any number of CPUs and contexts.  First the   *)
(* invariant of switch_context: its parts, and what an action may change     *)
(* without touching each part.  Then one lemma per action, that it keeps the *)
(* invariant.  Then the theorems.                                            *)
(*****************************************************************************)
EXTENDS Scheduler, TLAPS

(***************************************************************************)
(* The strengthening follows the switch.  Up to the commit the CPU holds    *)
(* the guard of its current context, from the selection on also that of the *)
(* next one, and CONTEXT_SWITCH_LOCK until post_switch_context; the guards  *)
(* keep every other CPU away from the two contexts while they are neither   *)
(* here nor there.                                                          *)
(***************************************************************************)
HoldsPrev == {"scan", "commit", "regs", "post", "validate"}
HoldsNext == {"commit", "regs", "post", "validate"}
Switched == {"regs", "post", "validate"}
HoldsLock == {"prev", "scan", "unlock", "commit", "regs", "post"}

GuardOf(p) ==
  /\ \A c \in Ids : guard[c] = p =>
       \/ pc[p] \in HoldsPrev /\ c = prev[p]
       \/ pc[p] \in HoldsNext /\ c = next[p]
       \/ pc[p] = "load" /\ c = context_id[p]
  /\ pc[p] \in HoldsPrev => prev[p] \in contexts /\ guard[prev[p]] = p
  /\ pc[p] \in HoldsNext => next[p] \in contexts /\ guard[next[p]] = p /\ next[p] # prev[p]
  /\ pc[p] = "load" => guard[context_id[p]] = p
  /\ pc[p] \in {"scan", "commit"} => prev[p] = context_id[p]
  /\ pc[p] \in Switched => next[p] = context_id[p]

GuardInv == \A p \in Cpus : GuardOf(p)

LockOf(p) ==
  /\ pc[p] \in HoldsLock <=> switch_lock = p
  /\ pc[p] \notin {"scan", "load", "entry"} => p \notin readers

LockInv == \A p \in Cpus : LockOf(p)

RunOf(p) ==
  /\ context_id[p] # None => cpu_id[context_id[p]] = p
  /\ pc[p] = "boot" <=> context_id[p] = None
  /\ pc[p] = "boot" <=> p \notin contexts
  /\ pc[p] = "commit" => ~running[next[p]] /\ cpu_id[next[p]] \in {None, p}
  /\ pc[p] \in Switched => ~running[prev[p]]

RunInv == RunningIsCurrent /\ \A p \in Cpus : RunOf(p)

RegOf(p) == live[p] = IF pc[p] = "regs" THEN prev[p] ELSE context_id[p]

RegInv ==
  /\ RegistersInOnePlace
  /\ \A p \in Cpus : RegOf(p)
  /\ \A c \in Ids : c \notin contexts => ~saved[c]

\* The context whose address space CR3 belongs to, if it has one.
Loaded(p) == IF pc[p] \in Switched THEN prev[p] ELSE context_id[p]
SpaceOf(p) == pc[p] # "boot" /\ addrsp[Loaded(p)] # None => cr3[p] = addrsp[Loaded(p)]

SpaceInv == (\A p \in Cpus : SpaceOf(p)) /\ (\A c \in Cpus : addrsp[c] = None)

StackOf(p) ==
  /\ tss[p] # None => cpu_id[tss[p]] = p
  /\ context_id[p] \in NewIds => tss[p] = context_id[p]

StackInv == \A p \in Cpus : StackOf(p)

IdleOf(p) ==
  /\ p \in contexts => status[p] = "Runnable" /\ cpu_id[p] = p
  /\ pc[p] = "scan" => todo[p] \subseteq contexts \ {context_id[p]}
  /\ pc[p] = "scan" /\ context_id[p] # p => p \in todo[p]
  /\ pc[p] = "unlock" => context_id[p] = p

IdleInv == \A p \in Cpus : IdleOf(p)

IInv == TypeOK /\ GuardInv /\ LockInv /\ RunInv /\ RegInv /\ SpaceInv /\ StackInv
        /\ InsideSyscallFollows /\ IdleInv

-------------------------------------------------------------------------------
\* What the proofs below need of the types.
LEMMA Typing ==
  ASSUME TypeOK
  PROVE  /\ Cpus \subseteq Ids /\ NewIds \subseteq Ids /\ contexts \subseteq Ids
         /\ None \notin Ids /\ None \notin Cpus
         /\ \A q \in Cpus : q \notin NewIds
  BY CpusOK, NewIdsOK DEF TypeOK, Ids, None

\* The same for one CPU.
LEMMA CpuTyping ==
  ASSUME TypeOK, NEW q \in Cpus
  PROVE  /\ pc[q] # "boot" => context_id[q] \in contexts
         /\ context_id[q] \in Ids \cup {None} /\ live[q] \in Ids \cup {None}
         /\ prev[q] \in Ids \cup {None} /\ next[q] \in Ids \cup {None}
         /\ tss[q] \in NewIds \cup {None}
  BY ZenonT(60) DEF TypeOK

\* A step of another CPU that leaves this CPU's guards alone.
LEMMA OtherGuard ==
  ASSUME NEW q \in Cpus, GuardOf(q), contexts \subseteq contexts',
         pc'[q] = pc[q], prev'[q] = prev[q], next'[q] = next[q], context_id'[q] = context_id[q],
         prev[q] \in Ids \cup {None}, next[q] \in Ids \cup {None}, contexts \subseteq Ids,
         pc[q] # "boot" => context_id[q] \in contexts,
         \A c \in Ids : guard'[c] = q <=> guard[c] = q
  PROVE  GuardOf(q)'
<1>1. pc[q] \in HoldsPrev => prev'[q] \in contexts' /\ guard'[prev'[q]] = q
  BY ZenonT(60) DEF GuardOf
<1>2. pc[q] \in HoldsNext => next'[q] \in contexts' /\ guard'[next'[q]] = q /\ next'[q] # prev'[q]
  BY ZenonT(60) DEF GuardOf
<1>3. pc[q] = "load" => guard'[context_id'[q]] = q
  BY ZenonT(60) DEF GuardOf
<1> QED
  BY ZenonT(60), <1>1, <1>2, <1>3 DEF GuardOf

\* A step that moves no guard and stays on one side of the switch.
LEMMA FrameGuard ==
  ASSUME GuardInv, UNCHANGED <<guard, prev, next, context_id>>, contexts \subseteq contexts',
         \A q \in Cpus :
           \/ pc'[q] = pc[q]
           \/ pc[q] \in Switched /\ pc'[q] \in Switched
           \/ {pc[q], pc'[q]} \cap (HoldsPrev \cup {"load"}) = {}
  PROVE  GuardInv'
<1> SUFFICES ASSUME NEW q \in Cpus PROVE GuardOf(q)'
  BY Zenon DEF GuardInv
<1>1. GuardOf(q)
  BY ZenonT(60) DEF GuardInv
<1>2. CASE pc'[q] = pc[q]
  BY ZenonT(60), <1>1, <1>2 DEF GuardOf
<1>3. CASE pc[q] \in Switched /\ pc'[q] \in Switched
  BY ZenonT(60), <1>1, <1>3 DEF GuardOf, HoldsPrev, HoldsNext, Switched
<1>4. CASE {pc[q], pc'[q]} \cap (HoldsPrev \cup {"load"}) = {}
  BY ZenonT(60), <1>1, <1>4 DEF GuardOf, HoldsPrev, HoldsNext, Switched
<1> QED
  BY Zenon, <1>2, <1>3, <1>4

\* A step that neither takes nor releases the lock or the storage.
LEMMA FrameLock ==
  ASSUME LockInv, UNCHANGED <<switch_lock, readers>>,
         \A q \in Cpus : pc'[q] \in HoldsLock <=> pc[q] \in HoldsLock,
         \A q \in Cpus : pc[q] \in {"scan", "load", "entry"} => pc'[q] \in {"scan", "load", "entry"}
  PROVE  LockInv'
BY ZenonT(60) DEF LockInv, LockOf

\* A step outside init_context, the choice and the commit.
LEMMA FrameRun ==
  ASSUME RunInv, UNCHANGED <<running, cpu_id, context_id>>,
         \A q \in Cpus : q \in contexts' <=> q \in contexts,
         \A q \in Cpus : pc'[q] = "boot" <=> pc[q] = "boot",
         \A q \in Cpus : pc'[q] = "commit" => pc[q] = "commit" /\ next'[q] = next[q],
         \A q \in Cpus : pc'[q] \in Switched => pc[q] \in Switched /\ prev'[q] = prev[q]
  PROVE  RunInv'
<1>1. RunningIsCurrent'
  BY ZenonT(60) DEF RunInv, RunningIsCurrent
<1>2. ASSUME NEW q \in Cpus PROVE RunOf(q)'
  BY ZenonT(60), <1>2 DEF RunInv, RunOf
<1> QED
  BY ZenonT(60), <1>1, <1>2 DEF RunInv

\* A step outside switch_context_inner.
LEMMA FrameReg ==
  ASSUME RegInv, UNCHANGED <<contexts, saved, live, context_id>>,
         \A q \in Cpus : pc'[q] = "regs" <=> pc[q] = "regs",
         \A q \in Cpus : pc'[q] = "regs" => prev'[q] = prev[q]
  PROVE  RegInv'
BY ZenonT(60) DEF RegInv, RegOf, RegistersInOnePlace

\* A step that changes neither CR3 nor what it belongs to.
LEMMA FrameSpace ==
  ASSUME SpaceInv, UNCHANGED <<addrsp, cr3, context_id>>,
         \A q \in Cpus : pc'[q] # "boot" => pc[q] # "boot",
         \A q \in Cpus : pc'[q] \in Switched <=> pc[q] \in Switched,
         \A q \in Cpus : pc'[q] \in Switched => prev'[q] = prev[q]
  PROVE  SpaceInv'
<1>1. ASSUME NEW q \in Cpus PROVE SpaceOf(q)'
  BY ZenonT(60), <1>1 DEF SpaceInv, SpaceOf, Loaded
<1> QED
  BY ZenonT(60), <1>1 DEF SpaceInv

\* A step that moves no context.
LEMMA FrameStack ==
  ASSUME StackInv, UNCHANGED <<tss, cpu_id, context_id>>
  PROVE  StackInv'
BY ZenonT(60) DEF StackInv, StackOf

\* A step that neither enters nor leaves a call nor moves a context.
LEMMA FrameInside ==
  ASSUME InsideSyscallFollows, UNCHANGED <<inside_syscall, inside, running, in_call, context_id>>
  PROVE  InsideSyscallFollows'
BY ZenonT(60) DEF InsideSyscallFollows

\* A step outside the loop over the candidates.
LEMMA FrameIdle ==
  ASSUME IdleInv, UNCHANGED <<cpu_id, context_id>>, contexts \subseteq contexts',
         \A q \in Cpus : q \in contexts' => q \in contexts /\ status'[q] = status[q],
         \A q \in Cpus : pc'[q] = "scan" => pc[q] = "scan" /\ todo'[q] = todo[q],
         \A q \in Cpus : pc'[q] = "unlock" => pc[q] = "unlock"
  PROVE  IdleInv'
<1> SUFFICES ASSUME NEW q \in Cpus PROVE IdleOf(q)'
  BY Zenon DEF IdleInv
<1>1. IdleOf(q)
  BY ZenonT(60) DEF IdleInv
<1> QED
  BY ZenonT(60), <1>1 DEF IdleOf

\* init_context gives a CPU its idle context, which no other CPU knows.
LEMMA InitContextInv ==
  ASSUME IInv, NEW p \in Cpus, InitContext(p)
  PROVE  IInv'
<1>e. /\ pc[p] = "boot" /\ pc'[p] = "run"
      /\ contexts' = contexts \cup {p}
      /\ \A q \in Cpus : q # p => pc'[q] = pc[q]
      /\ status'[p] = "Runnable" /\ \A d \in Ids : d # p => status'[d] = status[d]
      /\ running'[p] = TRUE /\ \A d \in Ids : d # p => running'[d] = running[d]
      /\ cpu_id'[p] = p /\ \A d \in Ids : d # p => cpu_id'[d] = cpu_id[d]
      /\ context_id'[p] = p /\ \A d \in Cpus : d # p => context_id'[d] = context_id[d]
      /\ live'[p] = p /\ \A d \in Cpus : d # p => live'[d] = live[d]
      /\ UNCHANGED <<readers, switch_lock, guard, pending, addrsp, inside, saved, inside_syscall, switch_signal, cr3, tss, todo, prev, next, in_call>>
  BY ZenonT(60), CpusOK, NewIdsOK DEF IInv, TypeOK, Ids, InitContext, FirstContext, Idle, storage,
     fields, percpu, locals
<1>i. TypeOK /\ GuardInv /\ LockInv /\ RunInv /\ RegInv /\ SpaceInv /\ StackInv
      /\ InsideSyscallFollows /\ IdleInv
  BY Zenon DEF IInv
<1>p. p \notin contexts /\ context_id[p] = None /\ live[p] = None
  BY ZenonT(60), <1>e, <1>i DEF RunInv, RunOf, RegInv, RegOf
<1>1. TypeOK'
  BY ZenonT(60), CpusOK, NewIdsOK, SpacesOK, <1>i DEF TypeOK, PCs, Status, Ids, None, InitContext,
     FirstContext, Idle, storage, fields, percpu, locals
<1>2. GuardInv'
  <2> SUFFICES ASSUME NEW q \in Cpus PROVE GuardOf(q)'
    BY Zenon DEF GuardInv
  <2>i. GuardOf(q)
    BY Zenon, <1>i DEF GuardInv
  <2>1. CASE q = p
    BY ZenonT(60), <1>e, <2>i, <2>1 DEF GuardOf, HoldsPrev, HoldsNext, Switched
  <2>2. CASE q # p
    <3>1. \A d \in Ids : guard'[d] = q <=> guard[d] = q
      BY ZenonT(60), <1>e, <1>i, <2>2, Typing
    <3>2. /\ pc'[q] = pc[q] /\ prev'[q] = prev[q] /\ next'[q] = next[q]
          /\ context_id'[q] = context_id[q] /\ contexts \subseteq contexts'
      BY ZenonT(60), <1>e, <2>2
    <3> QED
      BY ZenonT(60), <1>i, <2>i, <3>1, <3>2, OtherGuard, Typing, CpuTyping
  <2> QED
    BY Zenon, <2>1, <2>2
<1>3. LockInv'
  BY ZenonT(60), <1>e, <1>i, Typing, FrameLock DEF HoldsLock
<1>4. RunInv'
  <2>1. \A q \in Cpus : context_id[q] # p
    BY <1>i, <1>p, Typing, CpuTyping DEF RunInv, RunOf
  <2>2. RunningIsCurrent'
    <3>1. ASSUME NEW c \in Ids
          PROVE  running'[c] <=> \E q \in Cpus : context_id'[q] = c
      <4>1. CASE c = p
        BY ZenonT(60), <1>e, <1>i, <4>1, Typing
      <4>2. CASE c # p
        <5>1. running'[c] = running[c] /\ \A q \in Cpus : context_id'[q] = c <=> context_id[q] = c
          BY <1>e, <1>i, <1>p, <4>2, Typing
        <5> QED
          BY ZenonT(60), <1>i, <5>1 DEF RunInv, RunningIsCurrent
      <4> QED
        BY Zenon, <4>1, <4>2
    <3>2. \A q, r \in Cpus : q # r /\ context_id'[q] # None => context_id'[q] # context_id'[r]
      BY <1>e, <1>i, <2>1 DEF RunInv, RunningIsCurrent
    <3> QED
      BY ZenonT(60), <3>1, <3>2 DEF RunningIsCurrent
  <2>3. ASSUME NEW q \in Cpus
        PROVE  RunOf(q)'
    <3>1. CASE q = p
      BY ZenonT(60), <1>e, <1>i, <3>1, Typing DEF RunOf, Switched
    <3>2. CASE q # p
      <4>1. /\ pc'[q] = pc[q] /\ context_id'[q] = context_id[q] /\ next'[q] = next[q]
            /\ prev'[q] = prev[q] /\ (q \in contexts' <=> q \in contexts)
        BY ZenonT(60), <1>e, <3>2
      <4>2. pc[q] = "commit" => next[q] \in Ids /\ next[q] # p
        BY <1>i, <1>p, Typing DEF GuardInv, GuardOf, HoldsNext
      <4>3. pc[q] \in Switched => prev[q] \in Ids /\ prev[q] # p
        BY <1>i, <1>p, Typing DEF GuardInv, GuardOf, HoldsPrev, Switched
      <4>4. RunOf(q) /\ context_id[q] # p /\ context_id[q] \in Ids \cup {None}
        BY ZenonT(60), <1>i, <2>1, CpuTyping DEF RunInv
      <4>5. \A c \in Ids : c # p => running'[c] = running[c] /\ cpu_id'[c] = cpu_id[c]
        BY ZenonT(60), <1>e
      <4> QED
        BY ZenonT(60), <4>1, <4>2, <4>3, <4>4, <4>5 DEF RunOf
    <3> QED
      BY Zenon, <3>1, <3>2
  <2> QED
    BY ZenonT(60), <2>2, <2>3 DEF RunInv
<1>5. RegInv'
  <2>1. ASSUME NEW q \in Cpus, q # p
        PROVE  live[q] # p
    <3>1. CASE pc[q] = "regs"
      BY <1>i, <1>p, <3>1 DEF RegInv, RegOf, GuardInv, GuardOf, HoldsPrev
    <3>2. CASE pc[q] = "boot"
      BY <1>i, <3>2, Typing DEF RegInv, RegOf, RunInv, RunOf
    <3>3. CASE pc[q] # "regs" /\ pc[q] # "boot"
      BY ZenonT(60), <1>i, <1>p, <3>3, CpuTyping DEF RegInv, RegOf
    <3> QED
      BY Zenon, <3>1, <3>2, <3>3
  <2>2. \A q \in Cpus : RegOf(q)'
    BY <1>e, <1>i DEF RegInv, RegOf
  <2>3. ~saved[p] /\ p \in Ids
    BY ZenonT(60), <1>i, <1>p, Typing DEF RegInv
  <2>4. ASSUME NEW c \in contexts'
        PROVE  saved'[c] <=> ~\E q \in Cpus : live'[q] = c
    <3>1. CASE c = p
      BY ZenonT(60), <1>e, <2>3, <3>1
    <3>2. CASE c # p
      <4>1. c \in contexts /\ saved'[c] = saved[c] /\ c # None
        BY ZenonT(60), <1>e, <1>i, <2>4, <3>2, Typing
      <4>2. \A q \in Cpus : live'[q] = c <=> live[q] = c
        BY ZenonT(60), <1>e, <1>p, <3>2, <4>1
      <4> QED
        BY ZenonT(60), <1>i, <4>1, <4>2 DEF RegInv, RegistersInOnePlace
    <3> QED
      BY Zenon, <3>1, <3>2
  <2>5. \A q, r \in Cpus : q # r /\ live'[q] # None => live'[q] # live'[r]
    BY <1>e, <1>i, <2>1 DEF RegInv, RegistersInOnePlace
  <2>6. \A c \in Ids : c \notin contexts' => ~saved'[c]
    BY ZenonT(60), <1>e, <1>i DEF RegInv
  <2> QED
    BY ZenonT(60), <2>2, <2>4, <2>5, <2>6 DEF RegInv, RegistersInOnePlace
<1>6. SpaceInv'
  <2> SUFFICES ASSUME NEW q \in Cpus PROVE SpaceOf(q)'
    BY ZenonT(60), <1>e, <1>i, Typing DEF SpaceInv
  <2>i. SpaceOf(q)
    BY Zenon, <1>i DEF SpaceInv
  <2>1. CASE q = p
    <3>1. Loaded(p)' = p /\ addrsp'[p] = None
      BY ZenonT(60), <1>e, <1>i DEF Loaded, Switched, SpaceInv
    <3> QED
      BY ZenonT(60), <2>1, <3>1 DEF SpaceOf
  <2>2. CASE q # p
    BY ZenonT(60), <1>e, <2>i, <2>2 DEF SpaceOf, Loaded
  <2> QED
    BY Zenon, <2>1, <2>2
<1>7. StackInv'
  <2> SUFFICES ASSUME NEW q \in Cpus PROVE StackOf(q)'
    BY Zenon DEF StackInv
  <2>i. StackOf(q)
    BY Zenon, <1>i DEF StackInv
  <2>1. CASE q = p
    <3>1. context_id'[p] \notin NewIds /\ tss'[p] = tss[p]
      BY ZenonT(60), <1>e, <1>i, Typing
    <3>2. tss[p] # None => tss[p] \in Ids /\ tss[p] # p
      BY ZenonT(60), <1>i, Typing, CpuTyping
    <3> QED
      BY ZenonT(60), <1>e, <2>i, <2>1, <3>1, <3>2 DEF StackOf
  <2>2. CASE q # p
    <3>1. tss[q] # None => tss[q] \in Ids /\ tss[q] # p
      BY ZenonT(60), <1>i, Typing, CpuTyping
    <3> QED
      BY ZenonT(60), <1>e, <2>i, <2>2, <3>1 DEF StackOf
  <2> QED
    BY Zenon, <2>1, <2>2
<1>8. InsideSyscallFollows'
  <2>1. \A q \in Cpus : context_id'[q] \in NewIds => context_id'[q] = context_id[q]
    BY ZenonT(60), <1>e, <1>i, Typing
  <2>2. \A c \in NewIds : running'[c] = running[c]
    BY ZenonT(60), <1>e, <1>i, Typing
  <2>3. UNCHANGED <<inside_syscall, inside, in_call>>
    BY ZenonT(60), <1>e
  <2> QED
    BY ZenonT(60), <1>i, <2>1, <2>2, <2>3 DEF InsideSyscallFollows
<1>9. IdleInv'
  <2> SUFFICES ASSUME NEW q \in Cpus PROVE IdleOf(q)'
    BY Zenon DEF IdleInv
  <2>i. IdleOf(q)
    BY Zenon, <1>i DEF IdleInv
  <2>1. CASE q = p
    BY ZenonT(60), <1>e, <1>i, <2>1 DEF IdleOf
  <2>2. CASE q # p
    <3>1. q \in Ids /\ (q \in contexts' => q \in contexts)
      BY ZenonT(60), <1>e, <1>i, <2>2, Typing
    <3> QED
      BY ZenonT(60), <1>e, <2>i, <2>2, <3>1 DEF IdleOf
  <2> QED
    BY Zenon, <2>1, <2>2
<1> QED
  BY Zenon, <1>1, <1>2, <1>3, <1>4, <1>5, <1>6, <1>7, <1>8, <1>9 DEF IInv

-------------------------------------------------------------------------------
\* The operations on contexts, the system calls and the start of a switch.

\* A new context comes with registers in ctx_regs and no CPU.
LEMMA SpawnInv ==
  ASSUME IInv, NEW p \in Cpus, NEW c \in NewIds, Spawn(p, c)
  PROVE  IInv'
<1>e. /\ readers = {} /\ c \notin contexts /\ contexts' = contexts \cup {c}
      /\ addrsp'[c] = c /\ \A d \in Ids : d # c => addrsp'[d] = addrsp[d]
      /\ saved'[c] = TRUE /\ \A d \in Ids : d # c => saved'[d] = saved[d]
      /\ status'[c] = "Runnable" /\ \A d \in Ids : d # c => status'[d] = status[d]
      /\ UNCHANGED <<readers, switch_lock, guard, running, cpu_id, pending, inside, started, pc, context_id, inside_syscall, switch_signal, live, cr3, tss, todo, prev, next, in_call>>
  BY ZenonT(60), CpusOK, NewIdsOK DEF IInv, TypeOK, Ids, Spawn, storage, fields, percpu, locals
<1>i. TypeOK /\ GuardInv /\ LockInv /\ RunInv /\ RegInv /\ SpaceInv /\ StackInv
      /\ InsideSyscallFollows /\ IdleInv
  BY Zenon DEF IInv
<1>p. \A q \in Cpus : pc[q] # "boot" => Loaded(q) # c
  <2> SUFFICES ASSUME NEW q \in Cpus, pc[q] # "boot" PROVE Loaded(q) \in contexts
    BY ZenonT(60), <1>e
  <2> QED
    BY ZenonT(60), <1>i, CpuTyping DEF Loaded, GuardInv, GuardOf, HoldsPrev, Switched
<1>1. TypeOK'
  BY ZenonT(60), CpusOK, NewIdsOK, SpacesOK, <1>i DEF TypeOK, PCs, Status, Ids, None, Spawn,
     storage, fields, percpu, locals
<1>2. GuardInv'
  BY ZenonT(60), <1>e, <1>i, Typing, FrameGuard DEF HoldsPrev, Switched
<1>3. LockInv'
  BY ZenonT(60), <1>e, <1>i, Typing, FrameLock DEF HoldsLock
<1>4. RunInv'
  BY ZenonT(60), <1>e, <1>i, Typing, FrameRun DEF Switched
<1>5. RegInv'
  <2>1. \A q \in Cpus : RegOf(q)'
    BY ZenonT(60), <1>e, <1>i DEF RegInv, RegOf
  <2>2. \A q \in Cpus : live[q] # c
    <3> SUFFICES ASSUME NEW q \in Cpus PROVE live[q] \in contexts \cup {None}
      <4>1. c \notin contexts /\ c # None
        BY ZenonT(60), <1>e, <1>i, Typing
      <4> QED
        BY Zenon, <4>1
    <3>1. CASE pc[q] = "regs"
      BY ZenonT(60), <1>i, <3>1 DEF RegInv, RegOf, GuardInv, GuardOf, HoldsPrev
    <3>2. CASE pc[q] # "regs"
      BY <1>i, <3>2, CpuTyping DEF RegInv, RegOf, RunInv, RunOf
    <3> QED
      BY Zenon, <3>1, <3>2
  <2>3. \A d \in contexts' : saved'[d] <=> ~\E q \in Cpus : live'[q] = d
    <3> SUFFICES ASSUME NEW d \in contexts' PROVE saved'[d] <=> ~\E q \in Cpus : live'[q] = d
      BY Zenon
    <3>1. CASE d = c
      BY ZenonT(60), <1>e, <2>2, <3>1
    <3>2. CASE d # c
      <4>1. d \in contexts /\ saved'[d] = saved[d] /\ live' = live
        BY ZenonT(60), <1>e, <1>i, <3>2, Typing
      <4> QED
        BY ZenonT(60), <1>i, <4>1 DEF RegInv, RegistersInOnePlace
    <3> QED
      BY Zenon, <3>1, <3>2
  <2>4. \A q, r \in Cpus : q # r /\ live'[q] # None => live'[q] # live'[r]
    BY ZenonT(60), <1>e, <1>i DEF RegInv, RegistersInOnePlace
  <2>5. \A d \in Ids : d \notin contexts' => ~saved'[d]
    BY ZenonT(60), <1>e, <1>i DEF RegInv
  <2> QED
    BY ZenonT(60), <2>1, <2>3, <2>4, <2>5 DEF RegInv, RegistersInOnePlace
<1>6. SpaceInv'
  <2>1. ASSUME NEW q \in Cpus PROVE SpaceOf(q)'
    <3>1. /\ Loaded(q)' = Loaded(q) /\ pc'[q] = pc[q] /\ cr3'[q] = cr3[q]
          /\ pc[q] # "boot" => Loaded(q) # c
      BY ZenonT(60), <1>e, <1>p DEF Loaded
    <3>2. pc[q] # "boot" => Loaded(q) \in Ids
      BY ZenonT(60), <1>i, Typing, CpuTyping DEF Loaded, GuardInv, GuardOf, HoldsPrev, Switched
    <3>3. pc[q] # "boot" => addrsp'[Loaded(q)] = addrsp[Loaded(q)]
      BY ZenonT(60), <1>e, <3>1, <3>2
    <3>4. SpaceOf(q)
      BY Zenon, <1>i DEF SpaceInv
    <3> QED
      BY ZenonT(60), <3>1, <3>3, <3>4 DEF SpaceOf
  <2>2. \A q \in Cpus : addrsp'[q] = None
    BY ZenonT(60), <1>e, <1>i, Typing DEF SpaceInv
  <2> QED
    BY ZenonT(60), <2>1, <2>2 DEF SpaceInv
<1>7. StackInv'
  BY ZenonT(60), <1>e, <1>i, Typing, FrameStack
<1>8. InsideSyscallFollows'
  BY ZenonT(60), <1>e, <1>i, Typing, FrameInside
<1>9. IdleInv'
  BY ZenonT(60), <1>e, <1>i, Typing, FrameIdle
<1> QED
  BY Zenon, <1>1, <1>2, <1>3, <1>4, <1>5, <1>6, <1>7, <1>8, <1>9 DEF IInv

\* Blocking, unblocking and signals change the status and the pending signals
\* of a process, never those of a kmain.
LEMMA StatusInv ==
  ASSUME IInv, NEW p \in Cpus, NEW c \in NewIds,
         \/ SoftBlock(p, c) \/ HardBlock(p, c) \/ Unblock(p, c)
         \/ \E s \in Signals : Raise(p, c, s)
  PROVE  IInv'
<1>e. /\ \A q \in Cpus : status'[q] = status[q]
      /\ UNCHANGED <<contexts, readers, switch_lock, guard, running, cpu_id, addrsp, inside, saved, started, pc, context_id, inside_syscall, switch_signal, live, cr3, tss, todo, prev, next, in_call>>
  BY CpusOK, NewIdsOK DEF IInv, TypeOK, Ids, SoftBlock, HardBlock, Unblock, Raise, storage, percpu,
     locals
<1>i. TypeOK /\ GuardInv /\ LockInv /\ RunInv /\ RegInv /\ SpaceInv /\ StackInv
      /\ InsideSyscallFollows /\ IdleInv
  BY Zenon DEF IInv
<1>1. TypeOK'
  <2>1. status' \in [Ids -> Status] /\ pending' \in [Ids -> SUBSET Signals]
    BY <1>i, SMTT(60) DEF TypeOK, Status, SoftBlock, HardBlock, Unblock, Raise
  <2> QED
    BY ZenonT(60), <1>e, <1>i, <2>1 DEF TypeOK
<1>2. GuardInv'
  BY ZenonT(60), <1>e, <1>i, FrameGuard DEF HoldsPrev, Switched
<1>3. LockInv'
  BY ZenonT(60), <1>e, <1>i, FrameLock DEF HoldsLock
<1>4. RunInv'
  BY ZenonT(60), <1>e, <1>i, FrameRun DEF Switched
<1>5. RegInv'
  BY ZenonT(60), <1>e, <1>i, FrameReg
<1>6. SpaceInv'
  BY ZenonT(60), <1>e, <1>i, FrameSpace DEF Switched
<1>7. StackInv'
  BY ZenonT(60), <1>e, <1>i, FrameStack
<1>8. InsideSyscallFollows'
  BY ZenonT(60), <1>e, <1>i, FrameInside
<1>9. IdleInv'
  BY ZenonT(60), <1>e, <1>i, FrameIdle
<1> QED
  BY Zenon, <1>1, <1>2, <1>3, <1>4, <1>5, <1>6, <1>7, <1>8, <1>9 DEF IInv

\* set_addr_space loads CR3 of the CPU the context runs on.
LEMMA SetAddrSpaceInv ==
  ASSUME IInv, NEW p \in Cpus, NEW a \in Spaces, SetAddrSpace(p, a)
  PROVE  IInv'
<1>e. /\ pc[p] = "run" /\ context_id[p] \in NewIds /\ cr3'[p] = a
      /\ \A q \in Cpus : q # p => cr3'[q] = cr3[q]
      /\ \A d \in Ids : addrsp'[d] = IF d = context_id[p] THEN a ELSE addrsp[d]
      /\ UNCHANGED <<contexts, readers, switch_lock, guard, running, cpu_id, status, pending, inside, saved, started, pc, context_id, inside_syscall, switch_signal, live, tss, todo, prev, next, in_call>>
  BY ZenonT(60), CpusOK, NewIdsOK DEF IInv, TypeOK, Ids, SetAddrSpace, Free, storage, fields,
     percpu, locals
<1>i. TypeOK /\ GuardInv /\ LockInv /\ RunInv /\ RegInv /\ SpaceInv /\ StackInv
      /\ InsideSyscallFollows /\ IdleInv
  BY Zenon DEF IInv
<1>1. TypeOK'
  BY ZenonT(60), CpusOK, NewIdsOK, SpacesOK, <1>i DEF TypeOK, PCs, Status, Ids, None, SetAddrSpace,
     Free, storage, fields, percpu, locals
<1>2. GuardInv'
  BY ZenonT(60), <1>e, <1>i, FrameGuard DEF HoldsPrev, Switched
<1>3. LockInv'
  BY ZenonT(60), <1>e, <1>i, FrameLock DEF HoldsLock
<1>4. RunInv'
  BY ZenonT(60), <1>e, <1>i, FrameRun DEF Switched
<1>5. RegInv'
  BY ZenonT(60), <1>e, <1>i, FrameReg
<1>6. SpaceInv'
  <2>1. ASSUME NEW q \in Cpus PROVE SpaceOf(q)'
    <3>1. CASE q = p
      <4>1. Loaded(p)' = context_id[p] /\ context_id[p] \in Ids
        BY ZenonT(60), <1>e, <1>i, Typing DEF Loaded, Switched
      <4> QED
        BY ZenonT(60), <1>e, <3>1, <4>1 DEF SpaceOf
    <3>2. CASE q # p
      <4>1. Loaded(q)' = Loaded(q) /\ pc'[q] = pc[q] /\ cr3'[q] = cr3[q]
        BY ZenonT(60), <1>e, <3>2 DEF Loaded
      <4>2. pc[q] # "boot" => Loaded(q) \in Ids
        BY ZenonT(60), <1>i, Typing, CpuTyping DEF Loaded, GuardInv, GuardOf, HoldsPrev, Switched
      <4>3. pc[q] # "boot" => Loaded(q) # context_id[p]
        <5>1. running[context_id[p]] /\ context_id[q] # context_id[p]
          BY <1>e, <1>i, <3>2, Typing DEF RunInv, RunningIsCurrent
        <5>2. pc[q] \in Switched => ~running[prev[q]]
          BY ZenonT(60), <1>i DEF RunInv, RunOf
        <5> QED
          BY ZenonT(60), <5>1, <5>2 DEF Loaded
      <4>4. SpaceOf(q)
        BY Zenon, <1>i DEF SpaceInv
      <4>5. pc[q] # "boot" => addrsp'[Loaded(q)] = addrsp[Loaded(q)]
        BY ZenonT(60), <1>e, <4>2, <4>3
      <4> QED
        BY ZenonT(60), <4>1, <4>4, <4>5 DEF SpaceOf
    <3> QED
      BY Zenon, <3>1, <3>2
  <2>2. \A q \in Cpus : addrsp'[q] = None
    BY ZenonT(60), <1>e, <1>i, Typing DEF SpaceInv
  <2> QED
    BY ZenonT(60), <2>1, <2>2 DEF SpaceInv
<1>7. StackInv'
  BY ZenonT(60), <1>e, <1>i, FrameStack
<1>8. InsideSyscallFollows'
  BY ZenonT(60), <1>e, <1>i, FrameInside
<1>9. IdleInv'
  BY ZenonT(60), <1>e, <1>i, FrameIdle
<1> QED
  BY Zenon, <1>1, <1>2, <1>3, <1>4, <1>5, <1>6, <1>7, <1>8, <1>9 DEF IInv

\* On entry flag and call agree.
LEMMA SyscallEnterInv ==
  ASSUME IInv, NEW p \in Cpus, SyscallEnter(p)
  PROVE  IInv'
<1>e. /\ context_id[p] \in NewIds /\ in_call' = in_call \cup {context_id[p]} /\ inside_syscall'[p] = TRUE
      /\ \A q \in Cpus : q # p => inside_syscall'[q] = inside_syscall[q]
      /\ UNCHANGED <<contexts, readers, switch_lock, guard, running, cpu_id, status, pending, addrsp, inside, saved, started, pc, context_id, switch_signal, live, cr3, tss, todo, prev, next>>
  BY ZenonT(60), CpusOK, NewIdsOK DEF IInv, TypeOK, Ids, SyscallEnter, storage, fields, percpu,
     locals
<1>i. TypeOK /\ GuardInv /\ LockInv /\ RunInv /\ RegInv /\ SpaceInv /\ StackInv
      /\ InsideSyscallFollows /\ IdleInv
  BY Zenon DEF IInv
<1>1. TypeOK'
  BY ZenonT(60), CpusOK, NewIdsOK, SpacesOK, <1>i DEF TypeOK, PCs, Status, Ids, None, SyscallEnter,
     storage, fields, percpu, locals
<1>2. GuardInv'
  BY ZenonT(60), <1>e, <1>i, FrameGuard DEF HoldsPrev, Switched
<1>3. LockInv'
  BY ZenonT(60), <1>e, <1>i, FrameLock DEF HoldsLock
<1>4. RunInv'
  BY ZenonT(60), <1>e, <1>i, FrameRun DEF Switched
<1>5. RegInv'
  BY ZenonT(60), <1>e, <1>i, FrameReg
<1>6. SpaceInv'
  BY ZenonT(60), <1>e, <1>i, FrameSpace DEF Switched
<1>7. StackInv'
  BY ZenonT(60), <1>e, <1>i, FrameStack
<1>8. InsideSyscallFollows'
  <2>1. \A q \in Cpus : q # p => context_id[q] # context_id[p]
    BY <1>e, <1>i, Typing DEF RunInv, RunningIsCurrent
  <2>2. \A q \in Cpus : context_id'[q] \in NewIds =>
          (inside_syscall'[q] <=> context_id'[q] \in in_call')
    BY ZenonT(60), <1>e, <1>i, <2>1 DEF InsideSyscallFollows
  <2>3. running[context_id[p]]
    BY ZenonT(60), <1>e, <1>i, Typing DEF RunInv, RunningIsCurrent
  <2>4. \A c \in NewIds : ~running'[c] => (inside'[c] <=> c \in in_call')
    BY ZenonT(60), <1>e, <1>i, <2>3 DEF InsideSyscallFollows
  <2> QED
    BY ZenonT(60), <2>2, <2>4 DEF InsideSyscallFollows
<1>9. IdleInv'
  BY ZenonT(60), <1>e, <1>i, FrameIdle
<1> QED
  BY Zenon, <1>1, <1>2, <1>3, <1>4, <1>5, <1>6, <1>7, <1>8, <1>9 DEF IInv

\* On exit flag and call agree again.
LEMMA SyscallExitInv ==
  ASSUME IInv, NEW p \in Cpus, SyscallExit(p)
  PROVE  IInv'
<1>e. /\ context_id[p] \in NewIds /\ in_call' = in_call \ {context_id[p]} /\ inside_syscall'[p] = FALSE
      /\ \A q \in Cpus : q # p => inside_syscall'[q] = inside_syscall[q]
      /\ UNCHANGED <<contexts, readers, switch_lock, guard, running, cpu_id, status, pending, addrsp, inside, saved, started, pc, context_id, switch_signal, live, cr3, tss, todo, prev, next>>
  BY ZenonT(60), CpusOK, NewIdsOK DEF IInv, TypeOK, Ids, SyscallExit, storage, fields, percpu,
     locals
<1>i. TypeOK /\ GuardInv /\ LockInv /\ RunInv /\ RegInv /\ SpaceInv /\ StackInv
      /\ InsideSyscallFollows /\ IdleInv
  BY Zenon DEF IInv
<1>1. TypeOK'
  BY ZenonT(60), CpusOK, NewIdsOK, SpacesOK, <1>i DEF TypeOK, PCs, Status, Ids, None, SyscallExit,
     storage, fields, percpu, locals
<1>2. GuardInv'
  BY ZenonT(60), <1>e, <1>i, FrameGuard DEF HoldsPrev, Switched
<1>3. LockInv'
  BY ZenonT(60), <1>e, <1>i, FrameLock DEF HoldsLock
<1>4. RunInv'
  BY ZenonT(60), <1>e, <1>i, FrameRun DEF Switched
<1>5. RegInv'
  BY ZenonT(60), <1>e, <1>i, FrameReg
<1>6. SpaceInv'
  BY ZenonT(60), <1>e, <1>i, FrameSpace DEF Switched
<1>7. StackInv'
  BY ZenonT(60), <1>e, <1>i, FrameStack
<1>8. InsideSyscallFollows'
  <2>1. \A q \in Cpus : q # p => context_id[q] # context_id[p]
    BY ZenonT(60), <1>e, <1>i, Typing DEF RunInv, RunningIsCurrent
  <2>2. \A q \in Cpus : context_id'[q] \in NewIds =>
          (inside_syscall'[q] <=> context_id'[q] \in in_call')
    BY ZenonT(60), <1>e, <1>i, <2>1 DEF InsideSyscallFollows
  <2>3. running[context_id[p]]
    BY ZenonT(60), <1>e, <1>i, Typing DEF RunInv, RunningIsCurrent
  <2>4. \A c \in NewIds : ~running'[c] => (inside'[c] <=> c \in in_call')
    BY ZenonT(60), <1>e, <1>i, <2>3 DEF InsideSyscallFollows
  <2> QED
    BY ZenonT(60), <2>2, <2>4 DEF InsideSyscallFollows
<1>9. IdleInv'
  BY ZenonT(60), <1>e, <1>i, FrameIdle
<1> QED
  BY Zenon, <1>1, <1>2, <1>3, <1>4, <1>5, <1>6, <1>7, <1>8, <1>9 DEF IInv

\* switch_context starts by spinning on the lock, with nothing in hand.
LEMMA SwitchStartInv ==
  ASSUME IInv, NEW p \in Cpus, SwitchStart(p)
  PROVE  IInv'
<1>e. /\ pc[p] = "run" /\ pc'[p] = "lock"
      /\ \A q \in Cpus : q # p => pc'[q] = pc[q]
      /\ UNCHANGED <<contexts, readers, switch_lock, guard, running, cpu_id, status, pending, addrsp, inside, saved, started, context_id, inside_syscall, switch_signal, live, cr3, tss, todo, prev, next, in_call>>
  BY ZenonT(60), CpusOK, NewIdsOK DEF IInv, TypeOK, Ids, SwitchStart, storage, fields, percpu,
     locals
<1>i. TypeOK /\ GuardInv /\ LockInv /\ RunInv /\ RegInv /\ SpaceInv /\ StackInv
      /\ InsideSyscallFollows /\ IdleInv
  BY Zenon DEF IInv
<1>1. TypeOK'
  BY ZenonT(60), CpusOK, NewIdsOK, SpacesOK, <1>i DEF TypeOK, PCs, Status, Ids, None, SwitchStart,
     storage, fields, percpu, locals
<1>2. GuardInv'
  BY ZenonT(60), <1>e, <1>i, FrameGuard DEF HoldsPrev, Switched
<1>3. LockInv'
  BY ZenonT(60), <1>e, <1>i, FrameLock DEF HoldsLock
<1>4. RunInv'
  BY ZenonT(60), <1>e, <1>i, FrameRun DEF Switched
<1>5. RegInv'
  BY ZenonT(60), <1>e, <1>i, FrameReg
<1>6. SpaceInv'
  BY ZenonT(60), <1>e, <1>i, FrameSpace DEF Switched
<1>7. StackInv'
  BY ZenonT(60), <1>e, <1>i, FrameStack
<1>8. InsideSyscallFollows'
  BY ZenonT(60), <1>e, <1>i, FrameInside
<1>9. IdleInv'
  BY ZenonT(60), <1>e, <1>i, FrameIdle
<1> QED
  BY Zenon, <1>1, <1>2, <1>3, <1>4, <1>5, <1>6, <1>7, <1>8, <1>9 DEF IInv

\* The compare-and-swap gives the lock to one CPU.
LEMMA AcquireLockInv ==
  ASSUME IInv, NEW p \in Cpus, AcquireLock(p)
  PROVE  IInv'
<1>e. /\ pc[p] = "lock" /\ pc'[p] = "prev" /\ switch_lock = None /\ switch_lock' = p
      /\ \A q \in Cpus : q # p => pc'[q] = pc[q]
      /\ UNCHANGED <<contexts, readers, guard, running, cpu_id, status, pending, addrsp, inside, saved, started, context_id, inside_syscall, switch_signal, live, cr3, tss, todo, prev, next, in_call>>
  BY ZenonT(60), CpusOK, NewIdsOK DEF IInv, TypeOK, Ids, AcquireLock, storage, fields, percpu,
     locals
<1>i. TypeOK /\ GuardInv /\ LockInv /\ RunInv /\ RegInv /\ SpaceInv /\ StackInv
      /\ InsideSyscallFollows /\ IdleInv
  BY Zenon DEF IInv
<1>1. TypeOK'
  BY ZenonT(60), CpusOK, NewIdsOK, SpacesOK, <1>i DEF TypeOK, PCs, Status, Ids, None, AcquireLock,
     storage, fields, percpu, locals
<1>2. GuardInv'
  BY ZenonT(60), <1>e, <1>i, FrameGuard DEF HoldsPrev, Switched
<1>3. LockInv'
  <2> SUFFICES ASSUME NEW q \in Cpus PROVE LockOf(q)'
    BY Zenon DEF LockInv
  <2>i. LockOf(q)
    BY Zenon, <1>i DEF LockInv
  <2>1. CASE q = p
    BY ZenonT(60), <1>e, <2>i, <2>1 DEF LockOf, HoldsLock
  <2>2. CASE q # p
    BY ZenonT(60), <1>e, <1>i, <2>i, <2>2, Typing DEF LockOf
  <2> QED
    BY Zenon, <2>1, <2>2
<1>4. RunInv'
  BY ZenonT(60), <1>e, <1>i, FrameRun DEF Switched
<1>5. RegInv'
  BY ZenonT(60), <1>e, <1>i, FrameReg
<1>6. SpaceInv'
  BY ZenonT(60), <1>e, <1>i, FrameSpace DEF Switched
<1>7. StackInv'
  BY ZenonT(60), <1>e, <1>i, FrameStack
<1>8. InsideSyscallFollows'
  BY ZenonT(60), <1>e, <1>i, FrameInside
<1>9. IdleInv'
  BY ZenonT(60), <1>e, <1>i, FrameIdle
<1> QED
  BY Zenon, <1>1, <1>2, <1>3, <1>4, <1>5, <1>6, <1>7, <1>8, <1>9 DEF IInv

-------------------------------------------------------------------------------
\* A CPU holds CONTEXT_SWITCH_LOCK and looks for its next context.

\* The guard of the current context was free, so this CPU has it alone.
LEMMA LockPrevInv ==
  ASSUME IInv, NEW p \in Cpus, LockPrev(p)
  PROVE  IInv'
<1>e. /\ pc[p] = "prev" /\ pc'[p] = "scan" /\ guard[context_id[p]] = None /\ prev'[p] = context_id[p]
      /\ readers' = readers \cup {p} /\ todo'[p] = contexts \ {context_id[p]}
      /\ \A q \in Cpus : q # p => pc'[q] = pc[q] /\ prev'[q] = prev[q] /\ todo'[q] = todo[q]
      /\ \A d \in Ids : guard'[d] = IF d = context_id[p] THEN p ELSE guard[d]
      /\ UNCHANGED <<contexts, switch_lock, running, cpu_id, status, pending, addrsp, inside, saved, started, context_id, inside_syscall, switch_signal, live, cr3, tss, next, in_call>>
  BY ZenonT(60), CpusOK, NewIdsOK DEF IInv, TypeOK, Ids, LockPrev, Free, Candidates, storage,
     fields, percpu, locals
<1>i. TypeOK /\ GuardInv /\ LockInv /\ RunInv /\ RegInv /\ SpaceInv /\ StackInv
      /\ InsideSyscallFollows /\ IdleInv
  BY Zenon DEF IInv
<1>1. TypeOK'
  BY ZenonT(60), CpusOK, NewIdsOK, SpacesOK, <1>i DEF TypeOK, PCs, Status, Ids, None, LockPrev,
     Free, Candidates, storage, fields, percpu, locals
<1>2. GuardInv'
  <2> SUFFICES ASSUME NEW q \in Cpus PROVE GuardOf(q)'
    BY Zenon DEF GuardInv
  <2>i. GuardOf(q)
    BY Zenon, <1>i DEF GuardInv
  <2>1. CASE q = p
    <3>1. context_id[p] \in contexts /\ context_id[p] \in Ids
      BY ZenonT(60), <1>e, <1>i, Typing, CpuTyping
    <3>2. \A d \in Ids : guard[d] # p
      BY ZenonT(60), <1>e, <2>i, <2>1 DEF GuardOf, HoldsPrev, HoldsNext
    <3> QED
      BY ZenonT(60), <1>e, <2>1, <3>1, <3>2 DEF GuardOf, HoldsPrev, HoldsNext, Switched
  <2>2. CASE q # p
    <3>1. \A d \in Ids : guard'[d] = q <=> guard[d] = q
      BY ZenonT(60), <1>e, <1>i, <2>2, Typing
    <3>2. /\ pc'[q] = pc[q] /\ prev'[q] = prev[q] /\ next'[q] = next[q]
          /\ context_id'[q] = context_id[q] /\ contexts \subseteq contexts'
      BY ZenonT(60), <1>e, <2>2
    <3> QED
      BY ZenonT(60), <1>i, <2>i, <3>1, <3>2, OtherGuard, Typing, CpuTyping
  <2> QED
    BY Zenon, <2>1, <2>2
<1>3. LockInv'
  <2> SUFFICES ASSUME NEW q \in Cpus PROVE LockOf(q)'
    BY Zenon DEF LockInv
  <2>i. LockOf(q)
    BY Zenon, <1>i DEF LockInv
  <2>1. CASE q = p
    BY ZenonT(60), <1>e, <2>i, <2>1 DEF LockOf, HoldsLock
  <2>2. CASE q # p
    BY ZenonT(60), <1>e, <2>i, <2>2 DEF LockOf
  <2> QED
    BY Zenon, <2>1, <2>2
<1>4. RunInv'
  BY ZenonT(60), <1>e, <1>i, FrameRun DEF Switched
<1>5. RegInv'
  BY ZenonT(60), <1>e, <1>i, FrameReg
<1>6. SpaceInv'
  BY ZenonT(60), <1>e, <1>i, FrameSpace DEF Switched
<1>7. StackInv'
  BY ZenonT(60), <1>e, <1>i, FrameStack
<1>8. InsideSyscallFollows'
  BY ZenonT(60), <1>e, <1>i, FrameInside
<1>9. IdleInv'
  <2> SUFFICES ASSUME NEW q \in Cpus PROVE IdleOf(q)'
    BY Zenon DEF IdleInv
  <2>i. IdleOf(q)
    BY Zenon, <1>i DEF IdleInv
  <2>1. CASE q = p
    <3>1. context_id[p] # p => p \in contexts
      BY ZenonT(60), <1>e, <1>i DEF RunInv, RunOf
    <3> QED
      BY ZenonT(60), <1>e, <2>i, <2>1, <3>1 DEF IdleOf
  <2>2. CASE q # p
    BY ZenonT(60), <1>e, <2>i, <2>2 DEF IdleOf
  <2> QED
    BY Zenon, <2>1, <2>2
<1> QED
  BY Zenon, <1>1, <1>2, <1>3, <1>4, <1>5, <1>6, <1>7, <1>8, <1>9 DEF IInv

\* The loop never rejects the idle context of a CPU that runs another one.
LEMMA RejectInv ==
  ASSUME IInv, NEW p \in Cpus, NEW c \in Ids, Reject(p, c)
  PROVE  IInv'
<1>e. /\ pc[p] = "scan" /\ c \in todo[p] /\ ~Upgrades(p, c)
      /\ todo'[p] = todo[p] \ {c}
      /\ \A q \in Cpus : q # p => todo'[q] = todo[q]
      /\ UNCHANGED <<contexts, readers, switch_lock, guard, running, cpu_id, status, pending, addrsp, inside, saved, started, pc, context_id, inside_syscall, switch_signal, live, cr3, tss, prev, next, in_call>>
  BY ZenonT(60), CpusOK, NewIdsOK DEF IInv, TypeOK, Ids, Reject, IsNext, Remaining, Free, storage,
     fields, percpu, locals
<1>i. TypeOK /\ GuardInv /\ LockInv /\ RunInv /\ RegInv /\ SpaceInv /\ StackInv
      /\ InsideSyscallFollows /\ IdleInv
  BY Zenon DEF IInv
<1>1. TypeOK'
  BY ZenonT(60), CpusOK, NewIdsOK, SpacesOK, <1>i DEF TypeOK, PCs, Status, Ids, None, Reject,
     IsNext, Remaining, Free, storage, fields, percpu, locals
<1>2. GuardInv'
  BY ZenonT(60), <1>e, <1>i, FrameGuard DEF HoldsPrev, Switched
<1>3. LockInv'
  BY ZenonT(60), <1>e, <1>i, FrameLock DEF HoldsLock
<1>4. RunInv'
  BY ZenonT(60), <1>e, <1>i, FrameRun DEF Switched
<1>5. RegInv'
  BY ZenonT(60), <1>e, <1>i, FrameReg
<1>6. SpaceInv'
  BY ZenonT(60), <1>e, <1>i, FrameSpace DEF Switched
<1>7. StackInv'
  BY ZenonT(60), <1>e, <1>i, FrameStack
<1>8. InsideSyscallFollows'
  BY ZenonT(60), <1>e, <1>i, FrameInside
<1>9. IdleInv'
  <2> SUFFICES ASSUME NEW q \in Cpus PROVE IdleOf(q)'
    BY Zenon DEF IdleInv
  <2>i. IdleOf(q)
    BY Zenon, <1>i DEF IdleInv
  <2>1. CASE q = p
    <3>1. ASSUME c = p, context_id[p] # p
          PROVE  FALSE
      <4>1. p \in contexts /\ status[p] = "Runnable" /\ cpu_id[p] = p
        BY ZenonT(60), <1>e, <1>i DEF RunInv, RunOf, IdleInv, IdleOf
      <4>2. ASSUME NEW r \in Cpus PROVE context_id[r] # p
        <5>1. CASE r = p
          BY ZenonT(60), <3>1, <5>1
        <5>2. CASE r # p
          BY ZenonT(60), <1>i, <4>1, <5>2, Typing DEF RunInv, RunOf
        <5> QED
          BY Zenon, <5>1, <5>2
      <4>3. ~running[p]
        BY ZenonT(60), <1>i, <4>2, Typing DEF RunInv, RunningIsCurrent
      <4> QED
        BY ZenonT(60), <1>e, <3>1, <4>1, <4>3 DEF Upgrades, MayRunOn
    <3> QED
      BY ZenonT(60), <1>e, <2>i, <2>1, <3>1 DEF IdleOf
  <2>2. CASE q # p
    BY ZenonT(60), <1>e, <2>i, <2>2 DEF IdleOf
  <2> QED
    BY Zenon, <2>1, <2>2
<1> QED
  BY Zenon, <1>1, <1>2, <1>3, <1>4, <1>5, <1>6, <1>7, <1>8, <1>9 DEF IInv

\* The chosen context is free, runs nowhere and may run here.
LEMMA SelectInv ==
  ASSUME IInv, NEW p \in Cpus, NEW c \in Ids, Select(p, c)
  PROVE  IInv'
<1>e. /\ pc[p] = "scan" /\ pc'[p] = "commit" /\ next'[p] = c /\ todo'[p] = {}
      /\ c \in todo[p] /\ guard[c] = None /\ ~running[c] /\ cpu_id[c] \in {None, p} /\ readers' = readers \ {p}
      /\ \A q \in Cpus : q # p => pc'[q] = pc[q] /\ next'[q] = next[q] /\ todo'[q] = todo[q]
      /\ \A d \in Ids : guard'[d] = IF d = c THEN p ELSE guard[d]
      /\ \A d \in Ids : d # c => status'[d] = status[d]
      /\ status[c] # "Runnable" => status[c] = "SoftBlocked" /\ status'[c] = "Runnable"
      /\ status[c] = "Runnable" => status'[c] = "Runnable"
      /\ UNCHANGED <<contexts, switch_lock, running, cpu_id, pending, addrsp, inside, saved, started, context_id, inside_syscall, live, cr3, tss, prev, in_call>>
  BY ZenonT(60), CpusOK, NewIdsOK DEF IInv, TypeOK, Ids, Select, IsNext, Upgrades, MayRunOn,
     WakesUp, Free, storage, fields, percpu, locals
<1>i. TypeOK /\ GuardInv /\ LockInv /\ RunInv /\ RegInv /\ SpaceInv /\ StackInv
      /\ InsideSyscallFollows /\ IdleInv
  BY Zenon DEF IInv
<1>p. /\ prev[p] = context_id[p] /\ prev[p] \in contexts /\ guard[prev[p]] = p
  BY ZenonT(60), <1>e, <1>i DEF GuardInv, GuardOf, HoldsPrev
<1>c. c \in contexts /\ c # prev[p]
  BY <1>e, <1>i, <1>p DEF IdleInv, IdleOf
<1>1. TypeOK'
  <2>1. guard' \in [Ids -> Cpus \cup {None}] /\ next' \in [Cpus -> Ids \cup {None}]
    BY ZenonT(60), <1>i DEF TypeOK, Select
  <2>2. status' \in [Ids -> Status]
    BY ZenonT(60), <1>i DEF TypeOK, Select, Status
  <2>3. switch_signal' \in [Cpus -> BOOLEAN]
    <3>1. Deliverable(c) \in BOOLEAN
      BY ZenonT(60) DEF Deliverable
    <3> QED
      BY ZenonT(60), <1>i, <3>1 DEF TypeOK, Select
  <2>4. todo' \in [Cpus -> SUBSET Ids] /\ readers' \subseteq Cpus
    BY ZenonT(60), <1>i DEF TypeOK, Select
  <2>5. pc' \in [Cpus -> PCs]
    BY ZenonT(60), <1>i DEF TypeOK, Select, PCs
  <2>6. \A q \in Cpus : pc'[q] # "boot" => context_id'[q] \in contexts'
    BY ZenonT(60), <1>e, <1>i, CpuTyping
  <2> QED
    BY ZenonT(60), <1>e, <1>i, <2>1, <2>2, <2>3, <2>4, <2>5, <2>6 DEF TypeOK
<1>2. GuardInv'
  <2> SUFFICES ASSUME NEW q \in Cpus PROVE GuardOf(q)'
    BY Zenon DEF GuardInv
  <2>i. GuardOf(q)
    BY Zenon, <1>i DEF GuardInv
  <2>1. CASE q = p
    <3>1. prev[p] \in Ids
      BY ZenonT(60), <1>i, <1>p, Typing
    <3>2. \A d \in Ids : guard'[d] = p => d = c \/ d = prev[p]
      BY ZenonT(60), <1>e, <2>i, <2>1 DEF GuardOf, HoldsNext
    <3>3. guard'[prev[p]] = p /\ guard'[c] = p
      BY ZenonT(60), <1>e, <1>p, <1>c, <3>1
    <3>4. pc'[p] = "commit" /\ prev'[p] = prev[p] /\ next'[p] = c /\ context_id'[p] = context_id[p]
          /\ contexts' = contexts
      BY ZenonT(60), <1>e
    <3> QED
      BY ZenonT(60), <1>p, <1>c, <2>1, <3>2, <3>3, <3>4 DEF GuardOf, HoldsPrev, HoldsNext, Switched
  <2>2. CASE q # p
    <3>1. \A d \in Ids : guard'[d] = q <=> guard[d] = q
      BY ZenonT(60), <1>e, <1>i, <2>2, Typing
    <3>2. /\ pc'[q] = pc[q] /\ prev'[q] = prev[q] /\ next'[q] = next[q]
          /\ context_id'[q] = context_id[q] /\ contexts \subseteq contexts'
      BY ZenonT(60), <1>e, <2>2
    <3> QED
      BY ZenonT(60), <1>i, <2>i, <3>1, <3>2, OtherGuard, Typing, CpuTyping
  <2> QED
    BY Zenon, <2>1, <2>2
<1>3. LockInv'
  <2> SUFFICES ASSUME NEW q \in Cpus PROVE LockOf(q)'
    BY Zenon DEF LockInv
  <2>i. LockOf(q)
    BY Zenon, <1>i DEF LockInv
  <2>1. CASE q = p
    BY ZenonT(60), <1>e, <2>i, <2>1 DEF LockOf, HoldsLock
  <2>2. CASE q # p
    BY ZenonT(60), <1>e, <2>i, <2>2 DEF LockOf
  <2> QED
    BY Zenon, <2>1, <2>2
<1>4. RunInv'
  <2>1. RunningIsCurrent'
    BY ZenonT(60), <1>e, <1>i DEF RunInv, RunningIsCurrent
  <2>2. ASSUME NEW q \in Cpus PROVE RunOf(q)'
    <3>1. RunOf(q)
      BY Zenon, <1>i DEF RunInv
    <3>2. CASE q = p
      BY ZenonT(60), <1>e, <3>1, <3>2 DEF RunOf, Switched
    <3>3. CASE q # p
      BY ZenonT(60), <1>e, <3>1, <3>3 DEF RunOf
    <3> QED
      BY Zenon, <3>2, <3>3
  <2> QED
    BY ZenonT(60), <2>1, <2>2 DEF RunInv
<1>5. RegInv'
  BY ZenonT(60), <1>e, <1>i, FrameReg
<1>6. SpaceInv'
  BY ZenonT(60), <1>e, <1>i, FrameSpace DEF Switched
<1>7. StackInv'
  BY ZenonT(60), <1>e, <1>i, FrameStack
<1>8. InsideSyscallFollows'
  BY ZenonT(60), <1>e, <1>i, FrameInside
<1>9. IdleInv'
  <2> SUFFICES ASSUME NEW q \in Cpus PROVE IdleOf(q)'
    BY Zenon DEF IdleInv
  <2>1. IdleOf(q) /\ q \in Ids
    BY ZenonT(60), <1>i, Typing DEF IdleInv
  <2>2. q \in contexts => status'[q] = "Runnable"
    BY ZenonT(60), <1>e, <2>1 DEF IdleOf
  <2>3. pc'[q] = "scan" => pc[q] = "scan" /\ todo'[q] = todo[q]
    BY ZenonT(60), <1>e
  <2>4. pc'[q] = "unlock" => pc[q] = "unlock"
    BY ZenonT(60), <1>e
  <2>5. UNCHANGED <<contexts, cpu_id, context_id>>
    BY ZenonT(60), <1>e
  <2> QED
    BY ZenonT(60), <2>1, <2>2, <2>3, <2>4, <2>5 DEF IdleOf
<1> QED
  BY Zenon, <1>1, <1>2, <1>3, <1>4, <1>5, <1>6, <1>7, <1>8, <1>9 DEF IInv

\* Without a candidate the guard goes back.
LEMMA SelectNoneInv ==
  ASSUME IInv, NEW p \in Cpus, SelectNone(p)
  PROVE  IInv'
<1>e. /\ pc[p] = "scan" /\ pc'[p] = "unlock" /\ todo[p] = {}
      /\ readers' = readers \ {p}
      /\ \A q \in Cpus : q # p => pc'[q] = pc[q] /\ prev'[q] = prev[q]
      /\ \A d \in Ids : guard'[d] = IF d = prev[p] THEN None ELSE guard[d]
      /\ UNCHANGED <<contexts, switch_lock, running, cpu_id, status, pending, addrsp, inside, saved, started, context_id, inside_syscall, switch_signal, live, cr3, tss, todo, next, in_call>>
  BY ZenonT(60), CpusOK, NewIdsOK DEF IInv, TypeOK, Ids, SelectNone, storage, fields, percpu, locals
<1>i. TypeOK /\ GuardInv /\ LockInv /\ RunInv /\ RegInv /\ SpaceInv /\ StackInv
      /\ InsideSyscallFollows /\ IdleInv
  BY Zenon DEF IInv
<1>p. prev[p] \in Ids /\ guard[prev[p]] = p
  BY ZenonT(60), <1>e, <1>i, Typing DEF GuardInv, GuardOf, HoldsPrev
<1>1. TypeOK'
  BY ZenonT(60), CpusOK, NewIdsOK, SpacesOK, <1>i DEF TypeOK, PCs, Status, Ids, None, SelectNone,
     storage, fields, percpu, locals
<1>2. GuardInv'
  <2> SUFFICES ASSUME NEW q \in Cpus PROVE GuardOf(q)'
    BY Zenon DEF GuardInv
  <2>i. GuardOf(q)
    BY Zenon, <1>i DEF GuardInv
  <2>1. CASE q = p
    <3>1. \A d \in Ids : guard'[d] # p
      BY ZenonT(60), <1>e, <1>i, <2>i, <2>1, Typing DEF GuardOf, HoldsNext
    <3> QED
      BY ZenonT(60), <1>e, <2>1, <3>1 DEF GuardOf, HoldsPrev, HoldsNext, Switched
  <2>2. CASE q # p
    <3>1. \A d \in Ids : guard'[d] = q <=> guard[d] = q
      BY ZenonT(60), <1>e, <1>i, <2>2, Typing, <1>p
    <3>2. /\ pc'[q] = pc[q] /\ prev'[q] = prev[q] /\ next'[q] = next[q]
          /\ context_id'[q] = context_id[q] /\ contexts \subseteq contexts'
      BY ZenonT(60), <1>e, <2>2
    <3> QED
      BY ZenonT(60), <1>i, <2>i, <3>1, <3>2, OtherGuard, Typing, CpuTyping
  <2> QED
    BY Zenon, <2>1, <2>2
<1>3. LockInv'
  <2> SUFFICES ASSUME NEW q \in Cpus PROVE LockOf(q)'
    BY Zenon DEF LockInv
  <2>i. LockOf(q)
    BY Zenon, <1>i DEF LockInv
  <2>1. CASE q = p
    BY ZenonT(60), <1>e, <2>i, <2>1 DEF LockOf, HoldsLock
  <2>2. CASE q # p
    BY ZenonT(60), <1>e, <2>i, <2>2 DEF LockOf
  <2> QED
    BY Zenon, <2>1, <2>2
<1>4. RunInv'
  BY ZenonT(60), <1>e, <1>i, FrameRun DEF Switched
<1>5. RegInv'
  BY ZenonT(60), <1>e, <1>i, FrameReg
<1>6. SpaceInv'
  BY ZenonT(60), <1>e, <1>i, FrameSpace DEF Switched
<1>7. StackInv'
  BY ZenonT(60), <1>e, <1>i, FrameStack
<1>8. InsideSyscallFollows'
  BY ZenonT(60), <1>e, <1>i, FrameInside
<1>9. IdleInv'
  <2> SUFFICES ASSUME NEW q \in Cpus PROVE IdleOf(q)'
    BY Zenon DEF IdleInv
  <2>i. IdleOf(q)
    BY Zenon, <1>i DEF IdleInv
  <2>1. CASE q = p
    BY ZenonT(60), <1>e, <2>i, <2>1 DEF IdleOf
  <2>2. CASE q # p
    BY ZenonT(60), <1>e, <2>i, <2>2 DEF IdleOf
  <2> QED
    BY Zenon, <2>1, <2>2
<1> QED
  BY Zenon, <1>1, <1>2, <1>3, <1>4, <1>5, <1>6, <1>7, <1>8, <1>9 DEF IInv

\* The lock goes back and the caller goes on.
LEMMA AllContextsIdleInv ==
  ASSUME IInv, NEW p \in Cpus, AllContextsIdle(p)
  PROVE  IInv'
<1>e. /\ pc[p] = "unlock" /\ pc'[p] = "run" /\ switch_lock' = None
      /\ \A q \in Cpus : q # p => pc'[q] = pc[q]
      /\ UNCHANGED <<contexts, readers, guard, running, cpu_id, status, pending, addrsp, inside, saved, started, context_id, inside_syscall, switch_signal, live, cr3, tss, todo, prev, next, in_call>>
  BY ZenonT(60), CpusOK, NewIdsOK DEF IInv, TypeOK, Ids, AllContextsIdle, storage, fields, percpu,
     locals
<1>i. TypeOK /\ GuardInv /\ LockInv /\ RunInv /\ RegInv /\ SpaceInv /\ StackInv
      /\ InsideSyscallFollows /\ IdleInv
  BY Zenon DEF IInv
<1>1. TypeOK'
  BY ZenonT(60), CpusOK, NewIdsOK, SpacesOK, <1>i DEF TypeOK, PCs, Status, Ids, None,
     AllContextsIdle, storage, fields, percpu, locals
<1>2. GuardInv'
  BY ZenonT(60), <1>e, <1>i, FrameGuard DEF HoldsPrev, Switched
<1>3. LockInv'
  <2> SUFFICES ASSUME NEW q \in Cpus PROVE LockOf(q)'
    BY Zenon DEF LockInv
  <2>i. LockOf(q)
    BY Zenon, <1>i DEF LockInv
  <2>1. CASE q = p
    BY ZenonT(60), <1>e, <1>i, <2>i, <2>1, Typing DEF LockOf, HoldsLock
  <2>2. CASE q # p
    <3>1. switch_lock = p
      BY ZenonT(60), <1>e, <1>i DEF LockInv, LockOf, HoldsLock
    <3> QED
      BY ZenonT(60), <1>e, <1>i, <2>i, <2>2, <3>1, Typing DEF LockOf
  <2> QED
    BY Zenon, <2>1, <2>2
<1>4. RunInv'
  BY ZenonT(60), <1>e, <1>i, FrameRun DEF Switched
<1>5. RegInv'
  BY ZenonT(60), <1>e, <1>i, FrameReg
<1>6. SpaceInv'
  BY ZenonT(60), <1>e, <1>i, FrameSpace DEF Switched
<1>7. StackInv'
  BY ZenonT(60), <1>e, <1>i, FrameStack
<1>8. InsideSyscallFollows'
  BY ZenonT(60), <1>e, <1>i, FrameInside
<1>9. IdleInv'
  BY ZenonT(60), <1>e, <1>i, FrameIdle
<1> QED
  BY Zenon, <1>1, <1>2, <1>3, <1>4, <1>5, <1>6, <1>7, <1>8, <1>9 DEF IInv

-------------------------------------------------------------------------------
\* The hand-over: from the commit of a switch to the entry of the program of a context.

\* The commit moves the running mark and the per-CPU fields together.
LEMMA CommitInv ==
  ASSUME IInv, NEW p \in Cpus, Commit(p)
  PROVE  IInv'
<1>e. /\ pc[p] = "commit" /\ pc'[p] = "regs" /\ context_id'[p] = next[p]
      /\ inside_syscall'[p] = inside[next[p]]
      /\ tss'[p] = IF next[p] \in NewIds THEN next[p] ELSE tss[p]
      /\ \A q \in Cpus : q # p => pc'[q] = pc[q] /\ context_id'[q] = context_id[q] /\ inside_syscall'[q] = inside_syscall[q] /\ tss'[q] = tss[q]
      /\ \A c \in Ids : running'[c] = IF c = next[p] THEN TRUE ELSE IF c = prev[p] THEN FALSE ELSE running[c]
      /\ \A c \in Ids : cpu_id'[c] = IF c = next[p] THEN p ELSE cpu_id[c]
      /\ \A c \in Ids : inside'[c] = IF c = prev[p] THEN inside_syscall[p] ELSE inside[c]
      /\ UNCHANGED <<contexts, readers, switch_lock, guard, status, pending, addrsp, saved, started, switch_signal, live, cr3, todo, prev, next, in_call>>
  BY ZenonT(60), CpusOK, NewIdsOK DEF IInv, TypeOK, Ids, Commit, Running, Swapped, storage, fields,
     percpu, locals
<1>i. TypeOK /\ GuardInv /\ LockInv /\ RunInv /\ RegInv /\ SpaceInv /\ StackInv
      /\ InsideSyscallFollows /\ IdleInv
  BY Zenon DEF IInv
<1>p. /\ prev[p] \in Ids /\ next[p] \in Ids /\ next[p] \in contexts /\ prev[p] \in contexts
      /\ prev[p] = context_id[p] /\ next[p] # prev[p]
      /\ guard[next[p]] = p /\ guard[prev[p]] = p
  BY ZenonT(60), <1>e, <1>i, Typing DEF GuardInv, GuardOf, HoldsPrev, HoldsNext
<1>r. ~running[next[p]] /\ cpu_id[next[p]] \in {None, p}
  BY ZenonT(60), <1>e, <1>i DEF RunInv, RunOf
<1>n. \A q \in Cpus : context_id[q] # next[p]
  BY ZenonT(60), <1>i, <1>p, <1>r DEF RunInv, RunningIsCurrent
<1>1. TypeOK'
  <2>1. prev[p] \in Ids /\ next[p] \in Ids /\ next[p] \in contexts
    BY ZenonT(60), <1>p
  <2>2. running' \in [Ids -> BOOLEAN]
    BY ZenonT(60), <1>i DEF TypeOK, Commit, Running
  <2>3. cpu_id' \in [Ids -> Cpus \cup {None}] /\ inside' \in [Ids -> BOOLEAN]
    BY ZenonT(60), <1>i DEF TypeOK, Commit
  <2>4. context_id' \in [Cpus -> Ids \cup {None}]
    BY ZenonT(60), <1>i, <2>1 DEF TypeOK, Commit
  <2>5. inside_syscall' \in [Cpus -> BOOLEAN]
    BY ZenonT(60), <1>i, <2>1 DEF TypeOK, Commit, Swapped
  <2>6. tss' \in [Cpus -> NewIds \cup {None}]
    BY ZenonT(60), <1>i DEF TypeOK, Commit
  <2>7. pc' \in [Cpus -> PCs]
    BY ZenonT(60), <1>i DEF TypeOK, Commit, PCs
  <2>8. \A q \in Cpus : pc'[q] # "boot" => context_id'[q] \in contexts'
    BY ZenonT(60), <1>e, <1>i, <2>1 DEF TypeOK
  <2> QED
    BY ZenonT(60), <1>e, <1>i, <2>2, <2>3, <2>4, <2>5, <2>6, <2>7, <2>8 DEF TypeOK
<1>2. GuardInv'
  <2> SUFFICES ASSUME NEW q \in Cpus PROVE GuardOf(q)'
    BY Zenon DEF GuardInv
  <2>i. GuardOf(q)
    BY Zenon, <1>i DEF GuardInv
  <2>1. CASE q = p
    <3>1. \A d \in Ids : guard'[d] = p => d = prev[p] \/ d = next[p]
      BY ZenonT(60), <1>e, <2>i, <2>1 DEF GuardOf, HoldsPrev, HoldsNext
    <3>2. /\ pc'[p] = "regs" /\ prev'[p] = prev[p] /\ next'[p] = next[p]
          /\ context_id'[p] = next[p] /\ UNCHANGED <<guard, contexts>>
      BY ZenonT(60), <1>e
    <3> QED
      BY ZenonT(60), <1>p, <2>1, <3>1, <3>2 DEF GuardOf, HoldsPrev, HoldsNext, Switched
  <2>2. CASE q # p
    <3>1. \A d \in Ids : guard'[d] = q <=> guard[d] = q
      BY ZenonT(60), <1>e, <1>i, <2>2, Typing
    <3>2. /\ pc'[q] = pc[q] /\ prev'[q] = prev[q] /\ next'[q] = next[q]
          /\ context_id'[q] = context_id[q] /\ contexts \subseteq contexts'
      BY ZenonT(60), <1>e, <2>2
    <3> QED
      BY ZenonT(60), <1>i, <2>i, <3>1, <3>2, OtherGuard, Typing, CpuTyping
  <2> QED
    BY Zenon, <2>1, <2>2
<1>3. LockInv'
  BY ZenonT(60), <1>e, <1>i, FrameLock DEF HoldsLock
<1>4. RunInv'
  <2>1. ASSUME NEW c \in Ids
        PROVE  running'[c] <=> \E q \in Cpus : context_id'[q] = c
    <3>1. CASE c = next[p]
      BY ZenonT(60), <1>e, <3>1
    <3>2. CASE c = prev[p]
      <4>1. ASSUME NEW q \in Cpus, q # p PROVE context_id[q] # c
        BY <1>i, <1>p, <3>2, <4>1, Typing DEF RunInv, RunningIsCurrent
      <4>2. context_id'[p] # c /\ ~running'[c]
        BY ZenonT(60), <1>e, <1>p, <3>2
      <4> QED
        BY Zenon, <1>e, <4>1, <4>2
    <3>3. CASE c # next[p] /\ c # prev[p]
      <4>1. running'[c] = running[c]
        BY ZenonT(60), <1>e, <3>3
      <4>2. \A q \in Cpus : context_id'[q] = c <=> context_id[q] = c
        BY ZenonT(60), <1>e, <1>p, <3>3
      <4> QED
        BY ZenonT(60), <1>i, <4>1, <4>2 DEF RunInv, RunningIsCurrent
    <3> QED
      BY Zenon, <3>1, <3>2, <3>3
  <2>2. ASSUME NEW q \in Cpus, NEW r \in Cpus, q # r, context_id'[q] # None
        PROVE  context_id'[q] # context_id'[r]
    <3>1. CASE q = p
      BY ZenonT(60), <1>e, <1>n, <2>2, <3>1
    <3>2. CASE r = p
      BY ZenonT(60), <1>e, <1>n, <2>2, <3>2
    <3>3. CASE q # p /\ r # p
      <4>1. context_id'[q] = context_id[q] /\ context_id'[r] = context_id[r]
        BY ZenonT(60), <1>e, <3>3
      <4> QED
        BY ZenonT(60), <1>i, <2>2, <4>1 DEF RunInv, RunningIsCurrent
    <3> QED
      BY Zenon, <3>1, <3>2, <3>3
  <2>3. ASSUME NEW q \in Cpus PROVE RunOf(q)'
    <3>0. RunOf(q)
      BY Zenon, <1>i DEF RunInv
    <3>1. CASE q = p
      <4>1. p \in contexts /\ context_id'[p] # None
        BY ZenonT(60), <1>e, <1>i, <1>p, <3>0, <3>1, Typing DEF RunOf
      <4> QED
        BY ZenonT(60), <1>e, <1>p, <3>1, <4>1 DEF RunOf
    <3>2. CASE q # p
      <4>1. /\ pc'[q] = pc[q] /\ context_id'[q] = context_id[q] /\ next'[q] = next[q]
            /\ prev'[q] = prev[q] /\ contexts' = contexts
        BY ZenonT(60), <1>e, <3>2
      <4>2. context_id[q] # None => cpu_id'[context_id[q]] = cpu_id[context_id[q]]
        BY ZenonT(60), <1>e, <1>i, <1>n, CpuTyping
      <4>3. pc[q] = "commit" => next[q] \in Ids /\ next[q] # next[p]
        BY <1>i, <1>p, <3>2, Typing DEF GuardInv, GuardOf, HoldsNext
      <4>4. pc[q] \in Switched => prev[q] \in Ids /\ prev[q] # next[p]
        BY ZenonT(60), <1>i, <1>p, <3>2, Typing DEF GuardInv, GuardOf, HoldsPrev, Switched
      <4>5. \A c \in Ids : c # next[p] => cpu_id'[c] = cpu_id[c] /\ (running'[c] => running[c])
        BY ZenonT(60), <1>e
      <4> QED
        BY ZenonT(60), <3>0, <4>1, <4>2, <4>3, <4>4, <4>5 DEF RunOf
    <3> QED
      BY Zenon, <3>1, <3>2
  <2> QED
    BY ZenonT(60), <2>1, <2>2, <2>3 DEF RunInv, RunningIsCurrent
<1>5. RegInv'
  <2>1. ASSUME NEW q \in Cpus PROVE RegOf(q)'
    <3>0. RegOf(q)
      BY Zenon, <1>i DEF RegInv
    <3>1. CASE q = p
      BY ZenonT(60), <1>e, <1>p, <3>0, <3>1 DEF RegOf
    <3>2. CASE q # p
      BY ZenonT(60), <1>e, <3>0, <3>2 DEF RegOf
    <3> QED
      BY Zenon, <3>1, <3>2
  <2>2. UNCHANGED <<contexts, saved, live>>
    BY ZenonT(60), <1>e
  <2> QED
    BY ZenonT(60), <1>i, <2>1, <2>2 DEF RegInv, RegistersInOnePlace
<1>6. SpaceInv'
  <2> SUFFICES ASSUME NEW q \in Cpus PROVE SpaceOf(q)'
    BY ZenonT(60), <1>e, <1>i, Typing DEF SpaceInv
  <2>i. SpaceOf(q)
    BY Zenon, <1>i DEF SpaceInv
  <2>1. CASE q = p
    <3>1. Loaded(p)' = Loaded(p)
      BY ZenonT(60), <1>e, <1>p DEF Loaded, Switched
    <3> QED
      BY ZenonT(60), <1>e, <2>i, <2>1, <3>1 DEF SpaceOf
  <2>2. CASE q # p
    BY ZenonT(60), <1>e, <2>i, <2>2 DEF SpaceOf, Loaded
  <2> QED
    BY Zenon, <2>1, <2>2
<1>7. StackInv'
  <2> SUFFICES ASSUME NEW q \in Cpus PROVE StackOf(q)'
    BY Zenon DEF StackInv
  <2>i. StackOf(q)
    BY Zenon, <1>i DEF StackInv
  <2>1. CASE q = p
    <3>1. CASE next[p] \in NewIds
      BY ZenonT(60), <1>e, <1>p, <2>1, <3>1 DEF StackOf
    <3>2. CASE next[p] \notin NewIds
      <4>1. tss[p] # None => tss[p] \in Ids /\ tss[p] # next[p]
        BY ZenonT(60), <1>i, <3>2, Typing, CpuTyping
      <4> QED
        BY ZenonT(60), <1>e, <2>i, <2>1, <3>2, <4>1 DEF StackOf
    <3> QED
      BY Zenon, <3>1, <3>2
  <2>2. CASE q # p
    <3>1. tss[q] # None => tss[q] \in Ids /\ tss[q] # next[p]
      BY ZenonT(60), <1>i, <1>r, <2>i, <2>2, Typing, CpuTyping DEF StackOf
    <3> QED
      BY <1>e, <2>i, <2>2, <3>1 DEF StackOf
  <2> QED
    BY Zenon, <2>1, <2>2
<1>8. InsideSyscallFollows'
  <2>1. \A q \in Cpus : context_id'[q] \in NewIds =>
          (inside_syscall'[q] <=> context_id'[q] \in in_call')
    BY <1>e, <1>i, <1>r DEF InsideSyscallFollows
  <2>2. ASSUME NEW c \in NewIds, ~running'[c]
        PROVE  inside'[c] <=> c \in in_call'
    <3>1. CASE c = prev[p]
      BY ZenonT(60), <1>e, <1>i, <1>p, <3>1 DEF InsideSyscallFollows
    <3>2. CASE c # prev[p]
      <4>1. c \in Ids /\ c # next[p]
        BY ZenonT(60), <1>e, <1>i, <1>p, <2>2, Typing
      <4>2. ~running[c] /\ (inside'[c] <=> inside[c]) /\ in_call' = in_call
        BY ZenonT(60), <1>e, <2>2, <3>2, <4>1
      <4> QED
        BY ZenonT(60), <1>i, <4>2 DEF InsideSyscallFollows
    <3> QED
      BY Zenon, <3>1, <3>2
  <2> QED
    BY ZenonT(60), <2>1, <2>2 DEF InsideSyscallFollows
<1>9. IdleInv'
  <2> SUFFICES ASSUME NEW q \in Cpus PROVE IdleOf(q)'
    BY Zenon DEF IdleInv
  <2>1. IdleOf(q) /\ q \in Ids
    BY ZenonT(60), <1>i, Typing DEF IdleInv
  <2>2. q \in contexts => cpu_id'[q] = q
    <3> SUFFICES ASSUME q \in contexts PROVE cpu_id'[q] = q
      BY Zenon
    <3>1. cpu_id[q] = q /\ q # None
      BY ZenonT(60), <1>i, <2>1, Typing DEF IdleOf
    <3>2. CASE q = next[p]
      BY ZenonT(60), <1>e, <1>r, <2>1, <3>1, <3>2
    <3>3. CASE q # next[p]
      BY ZenonT(60), <1>e, <2>1, <3>1, <3>3
    <3> QED
      BY Zenon, <3>2, <3>3
  <2>3. /\ pc'[q] = "scan" => pc[q] = "scan" /\ context_id'[q] = context_id[q]
        /\ pc'[q] = "unlock" => pc[q] = "unlock" /\ context_id'[q] = context_id[q]
    BY ZenonT(60), <1>e
  <2>4. UNCHANGED <<contexts, status, todo>>
    BY ZenonT(60), <1>e
  <2> QED
    BY ZenonT(60), <2>1, <2>2, <2>3, <2>4 DEF IdleOf
<1> QED
  BY Zenon, <1>1, <1>2, <1>3, <1>4, <1>5, <1>6, <1>7, <1>8, <1>9 DEF IInv

\* The registers of the old context are stored before the new ones are loaded.
LEMMA SwitchRegistersInv ==
  ASSUME IInv, NEW p \in Cpus, SwitchRegisters(p)
  PROVE  IInv'
<1>e. /\ pc[p] = "regs" /\ pc'[p] = "post" /\ live'[p] = next[p]
      /\ \A q \in Cpus : q # p => pc'[q] = pc[q] /\ live'[q] = live[q]
      /\ \A c \in Ids : saved'[c] = IF c = next[p] THEN FALSE ELSE IF c = prev[p] THEN TRUE ELSE saved[c]
      /\ UNCHANGED <<contexts, readers, switch_lock, guard, running, cpu_id, status, pending, addrsp, inside, started, context_id, inside_syscall, switch_signal, cr3, tss, todo, prev, next, in_call>>
  BY ZenonT(60), CpusOK, NewIdsOK DEF IInv, TypeOK, Ids, SwitchRegisters, storage, fields, percpu,
     locals
<1>i. TypeOK /\ GuardInv /\ LockInv /\ RunInv /\ RegInv /\ SpaceInv /\ StackInv
      /\ InsideSyscallFollows /\ IdleInv
  BY Zenon DEF IInv
<1>p. /\ prev[p] \in Ids /\ next[p] \in Ids /\ prev[p] \in contexts /\ next[p] \in contexts
      /\ next[p] # prev[p] /\ next[p] = context_id[p]
  BY ZenonT(60), <1>e, <1>i, Typing DEF GuardInv, GuardOf, HoldsPrev, HoldsNext, Switched
<1>r. live[p] = prev[p] /\ ~running[prev[p]]
  BY ZenonT(60), <1>e, <1>i DEF RegInv, RegOf, RunInv, RunOf, Switched
<1>1. TypeOK'
  BY ZenonT(60), CpusOK, NewIdsOK, SpacesOK, <1>i DEF TypeOK, PCs, Status, Ids, None,
     SwitchRegisters, storage, fields, percpu, locals
<1>2. GuardInv'
  BY ZenonT(60), <1>e, <1>i, FrameGuard DEF HoldsPrev, Switched
<1>3. LockInv'
  BY ZenonT(60), <1>e, <1>i, FrameLock DEF HoldsLock
<1>4. RunInv'
  BY ZenonT(60), <1>e, <1>i, FrameRun DEF Switched
<1>5. RegInv'
  <2>1. ASSUME NEW q \in Cpus, q # p
        PROVE  live[q] # next[p] /\ live[q] # prev[p]
    <3>1. pc[q] # "regs"
      BY <1>e, <1>i, <2>1 DEF LockInv, LockOf, HoldsLock
    <3>2. live[q] = context_id[q]
      BY ZenonT(60), <1>i, <3>1 DEF RegInv, RegOf
    <3>3. context_id[q] # context_id[p]
      BY ZenonT(60), <1>i, <1>p, <2>1, Typing DEF RunInv, RunningIsCurrent
    <3>4. context_id[q] # prev[p]
      BY ZenonT(60), <1>i, <1>p, <1>r DEF RunInv, RunningIsCurrent
    <3> QED
      BY Zenon, <1>p, <3>2, <3>3, <3>4
  <2>2. ASSUME NEW q \in Cpus PROVE RegOf(q)'
    <3>0. RegOf(q)
      BY Zenon, <1>i DEF RegInv
    <3>1. CASE q = p
      BY ZenonT(60), <1>e, <1>p, <3>1 DEF RegOf
    <3>2. CASE q # p
      BY ZenonT(60), <1>e, <3>0, <3>2 DEF RegOf
    <3> QED
      BY Zenon, <3>1, <3>2
  <2>3. saved'[prev[p]] /\ ~saved'[next[p]] /\ contexts' = contexts
    BY ZenonT(60), <1>e, <1>p
  <2>4. \A q \in Cpus : (live'[q] = next[p] <=> q = p) /\ live'[q] # prev[p]
    BY ZenonT(60), <1>e, <1>p, <2>1
  <2>5. ASSUME NEW c \in contexts
        PROVE  saved'[c] <=> ~\E q \in Cpus : live'[q] = c
    <3>1. CASE c = prev[p]
      BY ZenonT(60), <2>3, <2>4, <3>1
    <3>2. CASE c = next[p]
      BY ZenonT(60), <2>3, <2>4, <3>2
    <3>3. CASE c # prev[p] /\ c # next[p]
      <4>1. c \in Ids
        BY ZenonT(60), <1>i, Typing
      <4>2. saved'[c] = saved[c] /\ \A q \in Cpus : live'[q] = c <=> live[q] = c
        BY ZenonT(60), <1>e, <1>r, <3>3, <4>1
      <4> QED
        BY ZenonT(60), <1>i, <4>2 DEF RegInv, RegistersInOnePlace
    <3> QED
      BY Zenon, <3>1, <3>2, <3>3
  <2>6. ASSUME NEW q \in Cpus, NEW r \in Cpus, q # r, live'[q] # None
        PROVE  live'[q] # live'[r]
    <3>1. CASE q = p \/ r = p
      BY ZenonT(60), <1>e, <2>1, <2>6, <3>1
    <3>2. CASE q # p /\ r # p
      <4>1. live'[q] = live[q] /\ live'[r] = live[r]
        BY ZenonT(60), <1>e, <3>2
      <4> QED
        BY ZenonT(60), <1>i, <2>6, <4>1 DEF RegInv, RegistersInOnePlace
    <3> QED
      BY Zenon, <3>1, <3>2
  <2>7. \A c \in Ids : c \notin contexts' => ~saved'[c]
    BY ZenonT(60), <1>e, <1>i, <1>p DEF RegInv
  <2> QED
    BY ZenonT(60), <2>2, <2>3, <2>5, <2>6, <2>7 DEF RegInv, RegistersInOnePlace
<1>6. SpaceInv'
  BY ZenonT(60), <1>e, <1>i, FrameSpace DEF Switched
<1>7. StackInv'
  BY ZenonT(60), <1>e, <1>i, FrameStack
<1>8. InsideSyscallFollows'
  BY ZenonT(60), <1>e, <1>i, FrameInside
<1>9. IdleInv'
  BY ZenonT(60), <1>e, <1>i, FrameIdle
<1> QED
  BY Zenon, <1>1, <1>2, <1>3, <1>4, <1>5, <1>6, <1>7, <1>8, <1>9 DEF IInv

\* The lock goes back while both guards stay.
LEMMA ReleaseLockInv ==
  ASSUME IInv, NEW p \in Cpus, ReleaseLock(p)
  PROVE  IInv'
<1>e. /\ pc[p] = "post" /\ pc'[p] = "validate" /\ switch_lock' = None
      /\ \A q \in Cpus : q # p => pc'[q] = pc[q]
      /\ UNCHANGED <<contexts, readers, guard, running, cpu_id, status, pending, addrsp, inside, saved, started, context_id, inside_syscall, switch_signal, live, cr3, tss, todo, prev, next, in_call>>
  BY ZenonT(60), CpusOK, NewIdsOK DEF IInv, TypeOK, Ids, ReleaseLock, storage, fields, percpu,
     locals
<1>i. TypeOK /\ GuardInv /\ LockInv /\ RunInv /\ RegInv /\ SpaceInv /\ StackInv
      /\ InsideSyscallFollows /\ IdleInv
  BY Zenon DEF IInv
<1>1. TypeOK'
  BY ZenonT(60), CpusOK, NewIdsOK, SpacesOK, <1>i DEF TypeOK, PCs, Status, Ids, None, ReleaseLock,
     storage, fields, percpu, locals
<1>2. GuardInv'
  BY ZenonT(60), <1>e, <1>i, FrameGuard DEF HoldsPrev, Switched
<1>3. LockInv'
  <2> SUFFICES ASSUME NEW q \in Cpus PROVE LockOf(q)'
    BY Zenon DEF LockInv
  <2>i. LockOf(q)
    BY Zenon, <1>i DEF LockInv
  <2>1. CASE q = p
    BY ZenonT(60), <1>e, <1>i, <2>i, <2>1, Typing DEF LockOf, HoldsLock
  <2>2. CASE q # p
    <3>1. switch_lock = p
      BY ZenonT(60), <1>e, <1>i DEF LockInv, LockOf, HoldsLock
    <3> QED
      BY ZenonT(60), <1>e, <1>i, <2>i, <2>2, <3>1, Typing DEF LockOf
  <2> QED
    BY Zenon, <2>1, <2>2
<1>4. RunInv'
  BY ZenonT(60), <1>e, <1>i, FrameRun DEF Switched
<1>5. RegInv'
  BY ZenonT(60), <1>e, <1>i, FrameReg
<1>6. SpaceInv'
  BY ZenonT(60), <1>e, <1>i, FrameSpace DEF Switched
<1>7. StackInv'
  BY ZenonT(60), <1>e, <1>i, FrameStack
<1>8. InsideSyscallFollows'
  BY ZenonT(60), <1>e, <1>i, FrameInside
<1>9. IdleInv'
  BY ZenonT(60), <1>e, <1>i, FrameIdle
<1> QED
  BY Zenon, <1>1, <1>2, <1>3, <1>4, <1>5, <1>6, <1>7, <1>8, <1>9 DEF IInv

\* CR3 is loaded before the guards go.
LEMMA ValidateInv ==
  ASSUME IInv, NEW p \in Cpus, Validate(p)
  PROVE  IInv'
<1>e. /\ pc[p] = "validate" /\ pc'[p] \in {"run", "init"}
      /\ \A q \in Cpus : q # p => pc'[q] = pc[q] /\ cr3'[q] = cr3[q] /\ prev'[q] = prev[q] /\ next'[q] = next[q]
      /\ cr3'[p] = IF addrsp[prev[p]] # addrsp[next[p]] /\ addrsp[next[p]] # None
                    THEN addrsp[next[p]] ELSE cr3[p]
      /\ \A c \in Ids : guard'[c] = IF c \in {prev[p], next[p]} THEN None ELSE guard[c]
      /\ prev'[p] = None /\ next'[p] = None
      /\ UNCHANGED <<contexts, readers, switch_lock, running, cpu_id, status, pending, addrsp, inside, saved, started, context_id, inside_syscall, switch_signal, live, tss, todo, in_call>>
  BY ZenonT(60), CpusOK, NewIdsOK DEF IInv, TypeOK, Ids, Validate, Dropped, LoadsCr3, SameAddrSpace,
     storage, fields, percpu, locals
<1>i. TypeOK /\ GuardInv /\ LockInv /\ RunInv /\ RegInv /\ SpaceInv /\ StackInv
      /\ InsideSyscallFollows /\ IdleInv
  BY Zenon DEF IInv
<1>p. /\ prev[p] \in Ids /\ next[p] \in Ids /\ guard[prev[p]] = p /\ guard[next[p]] = p
      /\ next[p] = context_id[p]
  BY ZenonT(60), <1>e, <1>i, Typing DEF GuardInv, GuardOf, HoldsPrev, HoldsNext, Switched
<1>1. TypeOK'
  <2>1. prev[p] \in Ids /\ next[p] \in Ids
    BY ZenonT(60), <1>p
  <2>2. guard' \in [Ids -> Cpus \cup {None}]
    BY ZenonT(60), <1>i DEF TypeOK, Validate, Dropped
  <2>3. cr3' \in [Cpus -> NewIds \cup {None}]
    BY ZenonT(60), <1>i, <2>1 DEF TypeOK, Validate, LoadsCr3
  <2>4. pc' \in [Cpus -> PCs]
    BY ZenonT(60), <1>i DEF TypeOK, Validate, PCs
  <2>5. prev' \in [Cpus -> Ids \cup {None}] /\ next' \in [Cpus -> Ids \cup {None}]
    BY ZenonT(60), <1>i DEF TypeOK, Validate
  <2>6. \A q \in Cpus : pc'[q] # "boot" => context_id'[q] \in contexts'
    BY ZenonT(60), <1>e, <1>i DEF TypeOK
  <2> QED
    BY ZenonT(60), <1>e, <1>i, <2>2, <2>3, <2>4, <2>5, <2>6 DEF TypeOK
<1>2. GuardInv'
  <2> SUFFICES ASSUME NEW q \in Cpus PROVE GuardOf(q)'
    BY Zenon DEF GuardInv
  <2>i. GuardOf(q)
    BY Zenon, <1>i DEF GuardInv
  <2>1. CASE q = p
    <3>1. ASSUME NEW d \in Ids PROVE guard'[d] # p
      <4>1. CASE d \in {prev[p], next[p]}
        BY ZenonT(60), <1>e, <1>i, <4>1, Typing
      <4>2. CASE d \notin {prev[p], next[p]}
        <5>1. guard[d] # p
          BY ZenonT(60), <1>e, <2>i, <2>1, <4>2 DEF GuardOf
        <5> QED
          BY Zenon, <1>e, <4>2, <5>1
      <4> QED
        BY Zenon, <4>1, <4>2
    <3>2. pc'[p] \notin HoldsPrev /\ pc'[p] \notin HoldsNext /\ pc'[p] \notin Switched
          /\ pc'[p] \notin {"scan", "commit", "load"}
      BY ZenonT(60), <1>e DEF HoldsPrev, HoldsNext, Switched
    <3> QED
      BY ZenonT(60), <2>1, <3>1, <3>2 DEF GuardOf
  <2>2. CASE q # p
    <3>1. \A d \in Ids : guard'[d] = q <=> guard[d] = q
      BY ZenonT(60), <1>e, <1>i, <2>2, Typing, <1>p
    <3>2. /\ pc'[q] = pc[q] /\ prev'[q] = prev[q] /\ next'[q] = next[q]
          /\ context_id'[q] = context_id[q] /\ contexts \subseteq contexts'
      BY ZenonT(60), <1>e, <2>2
    <3> QED
      BY ZenonT(60), <1>i, <2>i, <3>1, <3>2, OtherGuard, Typing, CpuTyping
  <2> QED
    BY Zenon, <2>1, <2>2
<1>3. LockInv'
  BY ZenonT(60), <1>e, <1>i, FrameLock DEF HoldsLock
<1>4. RunInv'
  BY ZenonT(60), <1>e, <1>i, FrameRun DEF Switched
<1>5. RegInv'
  BY ZenonT(60), <1>e, <1>i, FrameReg
<1>6. SpaceInv'
  <2> SUFFICES ASSUME NEW q \in Cpus PROVE SpaceOf(q)'
    BY ZenonT(60), <1>e, <1>i, Typing DEF SpaceInv
  <2>i. SpaceOf(q)
    BY Zenon, <1>i DEF SpaceInv
  <2>1. CASE q = p
    <3>1. Loaded(p) = prev[p] /\ Loaded(p)' = next[p] /\ addrsp' = addrsp /\ pc[p] # "boot"
      BY ZenonT(60), <1>e, <1>p DEF Loaded, Switched
    <3>2. addrsp[prev[p]] # None => cr3[p] = addrsp[prev[p]]
      BY ZenonT(60), <2>i, <2>1, <3>1 DEF SpaceOf
    <3>3. addrsp[next[p]] # None => cr3'[p] = addrsp[next[p]]
      BY ZenonT(60), <1>e, <3>2
    <3> QED
      BY ZenonT(60), <2>1, <3>1, <3>3 DEF SpaceOf
  <2>2. CASE q # p
    BY ZenonT(60), <1>e, <2>i, <2>2 DEF SpaceOf, Loaded
  <2> QED
    BY Zenon, <2>1, <2>2
<1>7. StackInv'
  BY ZenonT(60), <1>e, <1>i, FrameStack
<1>8. InsideSyscallFollows'
  BY ZenonT(60), <1>e, <1>i, FrameInside
<1>9. IdleInv'
  BY ZenonT(60), <1>e, <1>i, FrameIdle
<1> QED
  BY Zenon, <1>1, <1>2, <1>3, <1>4, <1>5, <1>6, <1>7, <1>8, <1>9 DEF IInv

\* userspace_init takes the context it runs in.
LEMMA LoadProgramInv ==
  ASSUME IInv, NEW p \in Cpus, LoadProgram(p)
  PROVE  IInv'
<1>e. /\ pc[p] = "init" /\ pc'[p] = "load" /\ guard[context_id[p]] = None
      /\ \A q \in Cpus : q # p => pc'[q] = pc[q]
      /\ readers' = readers \cup {p}
      /\ \A d \in Ids : guard'[d] = IF d = context_id[p] THEN p ELSE guard[d]
      /\ UNCHANGED <<contexts, switch_lock, running, cpu_id, status, pending, addrsp, inside, saved, started, context_id, inside_syscall, switch_signal, live, cr3, tss, todo, prev, next, in_call>>
  BY ZenonT(60), CpusOK, NewIdsOK DEF IInv, TypeOK, Ids, LoadProgram, Free, storage, fields, percpu,
     locals
<1>i. TypeOK /\ GuardInv /\ LockInv /\ RunInv /\ RegInv /\ SpaceInv /\ StackInv
      /\ InsideSyscallFollows /\ IdleInv
  BY Zenon DEF IInv
<1>1. TypeOK'
  BY ZenonT(60), CpusOK, NewIdsOK, SpacesOK, <1>i DEF TypeOK, PCs, Status, Ids, None, LoadProgram,
     Free, storage, fields, percpu, locals
<1>2. GuardInv'
  <2> SUFFICES ASSUME NEW q \in Cpus PROVE GuardOf(q)'
    BY Zenon DEF GuardInv
  <2>i. GuardOf(q)
    BY Zenon, <1>i DEF GuardInv
  <2>1. CASE q = p
    <3>1. context_id[p] \in Ids
      BY ZenonT(60), <1>e, <1>i, Typing, CpuTyping
    <3>2. \A d \in Ids : guard[d] # p
      BY ZenonT(60), <1>e, <2>i, <2>1 DEF GuardOf, HoldsPrev, HoldsNext
    <3>3. \A d \in Ids : guard'[d] = p <=> d = context_id[p]
      BY ZenonT(60), <1>e, <3>2
    <3>4. pc'[p] = "load" /\ context_id' = context_id
      BY ZenonT(60), <1>e
    <3> QED
      BY ZenonT(60), <2>1, <3>1, <3>3, <3>4 DEF GuardOf, HoldsPrev, HoldsNext, Switched
  <2>2. CASE q # p
    <3>1. \A d \in Ids : guard'[d] = q <=> guard[d] = q
      BY ZenonT(60), <1>e, <1>i, <2>2, Typing
    <3>2. /\ pc'[q] = pc[q] /\ prev'[q] = prev[q] /\ next'[q] = next[q]
          /\ context_id'[q] = context_id[q] /\ contexts \subseteq contexts'
      BY ZenonT(60), <1>e, <2>2
    <3> QED
      BY ZenonT(60), <1>i, <2>i, <3>1, <3>2, OtherGuard, Typing, CpuTyping
  <2> QED
    BY Zenon, <2>1, <2>2
<1>3. LockInv'
  <2> SUFFICES ASSUME NEW q \in Cpus PROVE LockOf(q)'
    BY Zenon DEF LockInv
  <2>i. LockOf(q)
    BY Zenon, <1>i DEF LockInv
  <2>1. CASE q = p
    BY ZenonT(60), <1>e, <2>i, <2>1 DEF LockOf, HoldsLock
  <2>2. CASE q # p
    BY ZenonT(60), <1>e, <2>i, <2>2 DEF LockOf
  <2> QED
    BY Zenon, <2>1, <2>2
<1>4. RunInv'
  BY ZenonT(60), <1>e, <1>i, FrameRun DEF Switched
<1>5. RegInv'
  BY ZenonT(60), <1>e, <1>i, FrameReg
<1>6. SpaceInv'
  BY ZenonT(60), <1>e, <1>i, FrameSpace DEF Switched
<1>7. StackInv'
  BY ZenonT(60), <1>e, <1>i, FrameStack
<1>8. InsideSyscallFollows'
  BY ZenonT(60), <1>e, <1>i, FrameInside
<1>9. IdleInv'
  BY ZenonT(60), <1>e, <1>i, FrameIdle
<1> QED
  BY Zenon, <1>1, <1>2, <1>3, <1>4, <1>5, <1>6, <1>7, <1>8, <1>9 DEF IInv

\* The guard goes back after the program is in the address space.
LEMMA ProgramLoadedInv ==
  ASSUME IInv, NEW p \in Cpus, ProgramLoaded(p)
  PROVE  IInv'
<1>e. /\ pc[p] = "load" /\ pc'[p] = "entry" /\ cr3'[p] = addrsp[context_id[p]]
      /\ \A q \in Cpus : q # p => pc'[q] = pc[q] /\ cr3'[q] = cr3[q]
      /\ \A d \in Ids : guard'[d] = IF d = context_id[p] THEN None ELSE guard[d]
      /\ UNCHANGED <<contexts, readers, switch_lock, running, cpu_id, status, pending, addrsp, inside, saved, started, context_id, inside_syscall, switch_signal, live, tss, todo, prev, next, in_call>>
  BY ZenonT(60), CpusOK, NewIdsOK DEF IInv, TypeOK, Ids, ProgramLoaded, storage, fields, percpu,
     locals
<1>i. TypeOK /\ GuardInv /\ LockInv /\ RunInv /\ RegInv /\ SpaceInv /\ StackInv
      /\ InsideSyscallFollows /\ IdleInv
  BY Zenon DEF IInv
<1>p. context_id[p] \in Ids /\ guard[context_id[p]] = p
  BY ZenonT(60), <1>e, <1>i, Typing, CpuTyping DEF GuardInv, GuardOf
<1>1. TypeOK'
  BY ZenonT(60), CpusOK, NewIdsOK, SpacesOK, <1>i DEF TypeOK, PCs, Status, Ids, None, ProgramLoaded,
     storage, fields, percpu, locals
<1>2. GuardInv'
  <2> SUFFICES ASSUME NEW q \in Cpus PROVE GuardOf(q)'
    BY Zenon DEF GuardInv
  <2>i. GuardOf(q)
    BY Zenon, <1>i DEF GuardInv
  <2>1. CASE q = p
    <3>1. \A d \in Ids : guard'[d] # p
      BY ZenonT(60), <1>e, <1>i, <2>i, <2>1, Typing DEF GuardOf, HoldsPrev, HoldsNext
    <3> QED
      BY ZenonT(60), <1>e, <2>1, <3>1 DEF GuardOf, HoldsPrev, HoldsNext, Switched
  <2>2. CASE q # p
    <3>1. \A d \in Ids : guard'[d] = q <=> guard[d] = q
      BY ZenonT(60), <1>e, <1>i, <2>2, Typing, <1>p
    <3>2. /\ pc'[q] = pc[q] /\ prev'[q] = prev[q] /\ next'[q] = next[q]
          /\ context_id'[q] = context_id[q] /\ contexts \subseteq contexts'
      BY ZenonT(60), <1>e, <2>2
    <3> QED
      BY ZenonT(60), <1>i, <2>i, <3>1, <3>2, OtherGuard, Typing, CpuTyping
  <2> QED
    BY Zenon, <2>1, <2>2
<1>3. LockInv'
  BY ZenonT(60), <1>e, <1>i, FrameLock DEF HoldsLock
<1>4. RunInv'
  BY ZenonT(60), <1>e, <1>i, FrameRun DEF Switched
<1>5. RegInv'
  BY ZenonT(60), <1>e, <1>i, FrameReg
<1>6. SpaceInv'
  <2> SUFFICES ASSUME NEW q \in Cpus PROVE SpaceOf(q)'
    BY ZenonT(60), <1>e, <1>i, Typing DEF SpaceInv
  <2>i. SpaceOf(q)
    BY Zenon, <1>i DEF SpaceInv
  <2>1. CASE q = p
    BY ZenonT(60), <1>e, <2>1 DEF SpaceOf, Loaded, Switched
  <2>2. CASE q # p
    BY ZenonT(60), <1>e, <2>i, <2>2 DEF SpaceOf, Loaded
  <2> QED
    BY Zenon, <2>1, <2>2
<1>7. StackInv'
  BY ZenonT(60), <1>e, <1>i, FrameStack
<1>8. InsideSyscallFollows'
  BY ZenonT(60), <1>e, <1>i, FrameInside
<1>9. IdleInv'
  BY ZenonT(60), <1>e, <1>i, FrameIdle
<1> QED
  BY Zenon, <1>1, <1>2, <1>3, <1>4, <1>5, <1>6, <1>7, <1>8, <1>9 DEF IInv

\* The program starts with nothing held.
LEMMA EnterProgramInv ==
  ASSUME IInv, NEW p \in Cpus, EnterProgram(p)
  PROVE  IInv'
<1>e. /\ pc[p] = "entry" /\ pc'[p] = "run"
      /\ \A q \in Cpus : q # p => pc'[q] = pc[q]
      /\ readers' = readers \ {p} /\ started' = started \cup {context_id[p]}
      /\ UNCHANGED <<contexts, switch_lock, guard, running, cpu_id, status, pending, addrsp, inside, saved, context_id, inside_syscall, switch_signal, live, cr3, tss, todo, prev, next, in_call>>
  BY ZenonT(60), CpusOK, NewIdsOK DEF IInv, TypeOK, Ids, EnterProgram, Free, storage, fields,
     percpu, locals
<1>i. TypeOK /\ GuardInv /\ LockInv /\ RunInv /\ RegInv /\ SpaceInv /\ StackInv
      /\ InsideSyscallFollows /\ IdleInv
  BY Zenon DEF IInv
<1>1. TypeOK'
  <2>0. context_id[p] \in Ids
    BY ZenonT(60), <1>e, <1>i, Typing, CpuTyping
  <2>1. readers' \subseteq Cpus /\ started' \subseteq Ids
    BY ZenonT(60), <1>e, <1>i, <2>0 DEF TypeOK
  <2>2. pc' \in [Cpus -> PCs]
    BY ZenonT(60), <1>i DEF TypeOK, EnterProgram, PCs
  <2>3. \A q \in Cpus : pc'[q] # "boot" => context_id'[q] \in contexts'
    BY ZenonT(60), <1>e, <1>i, Typing, CpuTyping
  <2> QED
    BY ZenonT(60), <1>e, <1>i, <2>1, <2>2, <2>3 DEF TypeOK
<1>2. GuardInv'
  BY ZenonT(60), <1>e, <1>i, FrameGuard DEF HoldsPrev, Switched
<1>3. LockInv'
  <2> SUFFICES ASSUME NEW q \in Cpus PROVE LockOf(q)'
    BY Zenon DEF LockInv
  <2>i. LockOf(q)
    BY Zenon, <1>i DEF LockInv
  <2>1. CASE q = p
    BY ZenonT(60), <1>e, <2>i, <2>1 DEF LockOf, HoldsLock
  <2>2. CASE q # p
    BY ZenonT(60), <1>e, <2>i, <2>2 DEF LockOf
  <2> QED
    BY Zenon, <2>1, <2>2
<1>4. RunInv'
  BY ZenonT(60), <1>e, <1>i, FrameRun DEF Switched
<1>5. RegInv'
  BY ZenonT(60), <1>e, <1>i, FrameReg
<1>6. SpaceInv'
  BY ZenonT(60), <1>e, <1>i, FrameSpace DEF Switched
<1>7. StackInv'
  BY ZenonT(60), <1>e, <1>i, FrameStack
<1>8. InsideSyscallFollows'
  BY ZenonT(60), <1>e, <1>i, FrameInside
<1>9. IdleInv'
  BY ZenonT(60), <1>e, <1>i, FrameIdle
<1> QED
  BY Zenon, <1>1, <1>2, <1>3, <1>4, <1>5, <1>6, <1>7, <1>8, <1>9 DEF IInv

-------------------------------------------------------------------------------
\* The invariant holds of every behaviour, and what follows from it.

\* Before init_context nothing runs and nothing is held.
LEMMA InitInv == Init => IInv
<1> SUFFICES ASSUME Init PROVE IInv
  BY Zenon
<1>1. TypeOK
  BY ZenonT(60), CpusOK, NewIdsOK DEF Init, TypeOK, PCs, Status
<1>2. GuardInv /\ LockInv
  BY ZenonT(60), CpusOK, Typing, <1>1 DEF Init, GuardInv, GuardOf, LockInv, LockOf, HoldsPrev, HoldsNext, Switched, HoldsLock
<1>3. RunInv /\ RegInv
  BY ZenonT(60), CpusOK, Typing, <1>1 DEF Init, RunInv, RunOf, RegInv, RegOf, RunningIsCurrent, RegistersInOnePlace, Switched
<1>4. SpaceInv /\ StackInv /\ IdleInv
  BY ZenonT(60), CpusOK, Typing, <1>1 DEF Init, SpaceInv, SpaceOf, StackInv, StackOf, IdleInv, IdleOf, Loaded
<1>5. InsideSyscallFollows
  BY ZenonT(60), CpusOK, Typing, <1>1 DEF Init, InsideSyscallFollows
<1> QED
  BY ZenonT(60), <1>1, <1>2, <1>3, <1>4, <1>5 DEF IInv

\* Every step of Next preserves the invariant, one action at a time.
LEMMA StepInv ==
  ASSUME IInv, [Next]_vars
  PROVE  IInv'
<1>1. CASE UNCHANGED vars
  <2>1. TypeOK' /\ GuardInv' /\ LockInv'
    BY <1>1, SMTT(60) DEF IInv, TypeOK, GuardInv, GuardOf, LockInv, LockOf, vars, storage, fields, percpu, locals
  <2>2. RunInv' /\ RegInv'
    BY <1>1 DEF IInv, RunInv, RunOf, RunningIsCurrent, RegInv, RegOf, RegistersInOnePlace, vars,
                storage, fields, percpu, locals
  <2>3. SpaceInv' /\ StackInv'
    BY ZenonT(60), <1>1 DEF IInv, SpaceInv, SpaceOf, StackInv, StackOf, Loaded, vars, storage, fields, percpu, locals
  <2>4. InsideSyscallFollows' /\ IdleInv'
    BY ZenonT(60), <1>1 DEF IInv, InsideSyscallFollows, IdleInv, IdleOf, vars, storage,
                fields, percpu, locals
  <2> QED
    BY ZenonT(60), <2>1, <2>2, <2>3, <2>4 DEF IInv
<1>2. ASSUME NEW p \in Cpus, InitContext(p) \/ SwitchStart(p)
      PROVE  IInv'
  BY ZenonT(60), <1>2, InitContextInv, SwitchStartInv
<1>3. ASSUME NEW p \in Cpus, ContextOp(p)
      PROVE  IInv'
  BY ZenonT(60), <1>3, SpawnInv, StatusInv DEF ContextOp
<1>4. ASSUME NEW p \in Cpus, RunStep(p)
      PROVE  IInv'
  BY ZenonT(60), <1>4, SyscallEnterInv, SyscallExitInv, SetAddrSpaceInv DEF RunStep
<1>5. ASSUME NEW p \in Cpus, SwitchStep(p)
      PROVE  IInv'
  BY ZenonT(60), <1>5, AcquireLockInv, LockPrevInv, RejectInv, SelectInv, SelectNoneInv,
     AllContextsIdleInv, CommitInv, SwitchRegistersInv, ReleaseLockInv, ValidateInv,
     LoadProgramInv, ProgramLoadedInv, EnterProgramInv
     DEF SwitchStep
<1> QED
  BY ZenonT(60), <1>1, <1>2, <1>3, <1>4, <1>5 DEF Next

\* The invariant of the hand-over holds throughout, for any number of CPUs.
THEOREM Inductive == Spec => []IInv
<1>1. IInv /\ [Next]_vars => IInv'
  BY ZenonT(60), StepInv
<1> QED
  BY InitInv, <1>1, PTL DEF Spec

\* Every variable keeps its type.
THEOREM TypeCorrect == Spec => []TypeOK
<1>1. IInv => TypeOK
  BY ZenonT(60) DEF IInv
<1> QED
  BY <1>1, Inductive, PTL

\* At most one CPU runs a context, and exactly the current contexts are marked.
THEOREM RunsOnOneCpu == Spec => []RunningIsCurrent
<1>1. IInv => RunningIsCurrent
  BY ZenonT(60) DEF IInv, RunInv
<1> QED
  BY <1>1, Inductive, PTL

\* No switch loads registers that are live on a CPU or loses the ones it leaves.
THEOREM RegistersNotLost == Spec => []RegistersInOnePlace
<1>1. IInv => RegistersInOnePlace
  BY ZenonT(60) DEF IInv, RegInv
<1> QED
  BY <1>1, Inductive, PTL

\* Outside a switch CR3 is the current context's address space.
THEOREM RightAddressSpace == Spec => []AddressSpaceLoaded
<1>1. IInv => AddressSpaceLoaded
  BY ZenonT(60) DEF IInv, RegInv, RegOf, SpaceInv, SpaceOf, Loaded, Switched, AddressSpaceLoaded
<1> QED
  BY <1>1, Inductive, PTL

\* No two CPUs enter the kernel on the same stack.
THEOREM EntryStacksPrivate == Spec => []EntryStackPrivate
<1>1. IInv => EntryStackPrivate
  BY ZenonT(60), CpusOK, NewIdsOK DEF IInv, TypeOK, StackInv, StackOf, EntryStackPrivate
<1> QED
  BY <1>1, Inductive, PTL

\* The inside_syscall flag is its context's on every CPU the context runs on.
THEOREM FlagFollowsContext == Spec => []InsideSyscallFollows
<1>1. IInv => InsideSyscallFollows
  BY ZenonT(60) DEF IInv
<1> QED
  BY <1>1, Inductive, PTL

\* A context that goes on after switch_context holds none of its locks.
THEOREM NothingHeldAfterwards == Spec => []LocksReleased
<1>1. IInv => LocksReleased
  <2> SUFFICES ASSUME IInv PROVE LocksReleased
    BY Zenon
  <2>1. \A p \in Cpus : pc[p] \in HoldsLock <=> switch_lock = p
    BY ZenonT(60) DEF IInv, LockInv, LockOf
  <2>2. ASSUME NEW p \in Cpus, pc[p] \in {"boot", "run", "lock", "init"}
        PROVE  p \notin readers /\ switch_lock # p /\ \A c \in Ids : guard[c] # p
    <3>1. p \notin readers
      BY ZenonT(60), <2>2 DEF IInv, LockInv, LockOf
    <3>2. switch_lock # p
      BY ZenonT(60), <2>1, <2>2 DEF HoldsLock
    <3>3. \A c \in Ids : guard[c] # p
      BY <2>2 DEF IInv, GuardInv, GuardOf, HoldsPrev, HoldsNext
    <3> QED
      BY Zenon, <3>1, <3>2, <3>3
  <2> QED
    BY ZenonT(60), <2>1, <2>2 DEF LocksReleased, HoldsLock
<1> QED
  BY <1>1, Inductive, PTL

\* A context that blocked itself does not return from switch_context at once.
THEOREM OnlyIdleFindsNothing == Spec => []IdleOnlyFromIdle
<1>1. IInv => IdleOnlyFromIdle
  BY ZenonT(60) DEF IInv, IdleInv, IdleOf, IdleOnlyFromIdle, Idle
<1> QED
  BY <1>1, Inductive, PTL

-------------------------------------------------------------------------------
(***************************************************************************)
(* What a CPU has chosen stays as it was chosen until the commit, and a     *)
(* context that is not in the storage belongs to no CPU.                    *)
(***************************************************************************)
ChoiceInv ==
  /\ \A p \in Cpus : pc[p] = "commit" => status[next[p]] = "Runnable"
  /\ \A c \in Ids : c \notin contexts => cpu_id[c] = None

\* The operations on contexts need the guard, which the choosing CPU holds.
LEMMA StepChoice ==
  ASSUME IInv, ChoiceInv, [Next]_vars
  PROVE  ChoiceInv'
<1>t. /\ status \in [Ids -> Status] /\ cpu_id \in [Ids -> Cpus \cup {None}]
      /\ pc \in [Cpus -> PCs] /\ next \in [Cpus -> Ids \cup {None}]
      /\ Cpus \subseteq Ids /\ NewIds \subseteq Ids /\ None \notin Cpus
  BY ZenonT(60), Typing DEF IInv, TypeOK
<1>g. \A q \in Cpus : pc[q] = "commit" => next[q] \in contexts /\ guard[next[q]] = q
  BY ZenonT(60) DEF IInv, GuardInv, GuardOf, HoldsNext
<1>1. CASE UNCHANGED vars
  BY ZenonT(60), <1>1 DEF ChoiceInv, vars, storage, fields, locals
<1>2. ASSUME NEW p \in Cpus, InitContext(p) \/ SwitchStart(p)
      PROVE  ChoiceInv'
  <2>1. CASE InitContext(p)
    <3>1. /\ next' = next /\ contexts' = contexts \cup {p}
          /\ \A q \in Cpus : pc'[q] = "commit" => pc[q] = "commit"
          /\ \A c \in Ids : c # p => status'[c] = status[c] /\ cpu_id'[c] = cpu_id[c]
          /\ status'[p] = "Runnable"
      BY ZenonT(60), <1>t, <2>1 DEF InitContext, Idle, locals
    <3> QED
      BY ZenonT(60), <1>g, <3>1, Typing DEF ChoiceInv, IInv
  <2>2. CASE SwitchStart(p)
    BY ZenonT(60), <1>t, <2>2 DEF ChoiceInv, SwitchStart, storage, fields, locals
  <2> QED
    BY Zenon, <1>2, <2>1, <2>2
<1>3. ASSUME NEW p \in Cpus, ContextOp(p)
      PROVE  ChoiceInv'
  <2>1. PICK c \in NewIds : \/ Spawn(p, c) \/ SoftBlock(p, c) \/ HardBlock(p, c)
                            \/ Unblock(p, c) \/ \E s \in Signals : Raise(p, c, s)
    BY ZenonT(60), <1>3 DEF ContextOp
  <2>2. pc' = pc /\ next' = next /\ cpu_id' = cpu_id /\ contexts \subseteq contexts'
    BY ZenonT(60), <2>1 DEF Spawn, SoftBlock, HardBlock, Unblock, Raise, storage, fields, locals
  <2>3. c \notin contexts \/ guard[c] = None \/ status' = status
    BY ZenonT(60), <2>1 DEF Spawn, SoftBlock, HardBlock, Unblock, Raise, Free, fields
  <2>4. \A d \in Ids : d # c => status'[d] = status[d]
    BY ZenonT(60), <1>t, <2>1 DEF Spawn, SoftBlock, HardBlock, Unblock, Raise, fields
  <2>5. \A q \in Cpus : pc[q] = "commit" => next[q] # c \/ status' = status
    BY <1>t, <1>g, <2>3
  <2>6. \A q \in Cpus : pc'[q] = "commit" => status'[next'[q]] = "Runnable"
    BY ZenonT(60), <1>t, <1>g, <2>2, <2>4, <2>5, Typing DEF ChoiceInv, IInv
  <2> QED
    BY ZenonT(60), <2>2, <2>6 DEF ChoiceInv
<1>4. ASSUME NEW p \in Cpus, RunStep(p)
      PROVE  ChoiceInv'
  BY ZenonT(60), <1>t, <1>4 DEF ChoiceInv, RunStep, SyscallEnter, SyscallExit, SetAddrSpace, storage,
     fields, locals
<1>5. ASSUME NEW p \in Cpus, SwitchStep(p)
      PROVE  ChoiceInv'
  <2>1. ASSUME NEW c \in Ids, Select(p, c)
        PROVE  ChoiceInv'
    <3>1. status'[c] = "Runnable" /\ \A d \in Ids : d # c => status'[d] = status[d]
      BY ZenonT(60), <1>t, <2>1 DEF Select, Upgrades
    <3>2. /\ next'[p] = c /\ \A q \in Cpus : q # p => next'[q] = next[q] /\ pc'[q] = pc[q]
          /\ cpu_id' = cpu_id /\ contexts' = contexts
      BY ZenonT(60), <1>t, <2>1 DEF Select
    <3>3. \A q \in Cpus : pc'[q] = "commit" => status'[next'[q]] = "Runnable"
      BY <1>g, <3>1, <3>2, Typing DEF ChoiceInv, IInv
    <3> QED
      BY ZenonT(60), <3>2, <3>3 DEF ChoiceInv
  <2>2. CASE Commit(p)
    <3>1. /\ status' = status /\ next' = next /\ contexts' = contexts /\ pc[p] = "commit"
          /\ \A q \in Cpus : pc'[q] = "commit" => pc[q] = "commit"
          /\ \A c \in Ids : c # next[p] => cpu_id'[c] = cpu_id[c]
      BY ZenonT(60), <1>t, <2>2 DEF Commit, storage, locals
    <3> QED
      BY ZenonT(60), <1>g, <3>1 DEF ChoiceInv
  <2>3. ASSUME \/ AcquireLock(p) \/ LockPrev(p) \/ \E c \in Ids : Reject(p, c)
               \/ SelectNone(p) \/ AllContextsIdle(p)
        PROVE  ChoiceInv'
    <3>1. /\ status' = status /\ next' = next /\ contexts' = contexts /\ cpu_id' = cpu_id
          /\ \A q \in Cpus : pc'[q] = "commit" => pc[q] = "commit"
      BY ZenonT(60), <1>t, <2>3 DEF AcquireLock, LockPrev, Reject, SelectNone, AllContextsIdle, storage,
         fields, locals
    <3> QED
      BY ZenonT(60), <3>1 DEF ChoiceInv
  <2>4. ASSUME \/ SwitchRegisters(p) \/ ReleaseLock(p) \/ Validate(p) \/ LoadProgram(p)
               \/ ProgramLoaded(p) \/ EnterProgram(p)
        PROVE  ChoiceInv'
    <3>1. /\ status' = status /\ contexts' = contexts /\ cpu_id' = cpu_id
          /\ \A q \in Cpus : pc'[q] = "commit" => pc[q] = "commit" /\ next'[q] = next[q]
      BY ZenonT(60), <1>t, <2>4 DEF SwitchRegisters, ReleaseLock, Validate, LoadProgram, ProgramLoaded,
         EnterProgram, storage, fields, locals
    <3> QED
      BY ZenonT(60), <3>1 DEF ChoiceInv
  <2> QED
    BY ZenonT(60), <1>5, <2>1, <2>2, <2>3, <2>4 DEF SwitchStep
<1> QED
  BY ZenonT(60), <1>1, <1>2, <1>3, <1>4, <1>5 DEF Next

\* Both invariants hold throughout.
LEMMA Choices == Spec => [](IInv /\ ChoiceInv)
<1>1. Init => ChoiceInv
  BY CpusOK DEF Init, ChoiceInv
<1>2. IInv /\ ChoiceInv /\ [Next]_vars => ChoiceInv'
  BY ZenonT(60), StepChoice
<1> QED
  BY <1>1, <1>2, Inductive, PTL DEF Spec

\* Inside switch_context only the commit changes who runs where.
LEMMA OnlyCommitMoves ==
  ASSUME NEW p \in Cpus, SwitchStep(p), ~Commit(p)
  PROVE  cpu_id' = cpu_id /\ context_id' = context_id
<1>1. ASSUME AcquireLock(p) \/ LockPrev(p) \/ SelectNone(p) \/ AllContextsIdle(p)
      PROVE  cpu_id' = cpu_id /\ context_id' = context_id
  BY ZenonT(60), <1>1 DEF AcquireLock, LockPrev, SelectNone, AllContextsIdle, fields, percpu
<1>2. ASSUME NEW c \in Ids, Reject(p, c) \/ Select(p, c)
      PROVE  cpu_id' = cpu_id /\ context_id' = context_id
  BY ZenonT(60), <1>2 DEF Reject, Select, fields, percpu
<1>3. ASSUME SwitchRegisters(p) \/ ReleaseLock(p) \/ Validate(p)
      PROVE  cpu_id' = cpu_id /\ context_id' = context_id
  BY ZenonT(60), <1>3 DEF SwitchRegisters, ReleaseLock, Validate, fields, percpu
<1>4. ASSUME LoadProgram(p) \/ ProgramLoaded(p) \/ EnterProgram(p)
      PROVE  cpu_id' = cpu_id /\ context_id' = context_id
  BY ZenonT(60), <1>4 DEF LoadProgram, ProgramLoaded, EnterProgram, fields, percpu
<1> QED
  BY ZenonT(60), <1>1, <1>2, <1>3, <1>4 DEF SwitchStep

\* The CPU of a context is only set by init_context, when it has none, and by
\* the commit of a CPU that upgrade_runnable let have it.
LEMMA StepPins ==
  ASSUME IInv, ChoiceInv, [Next]_vars
  PROVE  \A c \in Ids : cpu_id[c] # None => cpu_id'[c] = cpu_id[c]
<1> DEFINE Pins == \A c \in Ids : cpu_id[c] # None => cpu_id'[c] = cpu_id[c]
<1>1. CASE UNCHANGED vars
  BY ZenonT(60), <1>1 DEF vars, fields
<1>2. ASSUME NEW p \in Cpus, InitContext(p) \/ SwitchStart(p)
      PROVE  Pins
  <2>1. CASE InitContext(p)
    <3>1. cpu_id' = [cpu_id EXCEPT ![p] = p] /\ cpu_id \in [Ids -> Cpus \cup {None}]
      BY ZenonT(60), <2>1 DEF InitContext, Idle, IInv, TypeOK
    <3>2. cpu_id[p] \in {None, p}
      BY ZenonT(60), <2>1, Typing DEF IInv, RunInv, RunOf, InitContext, ChoiceInv
    <3> QED
      BY Zenon, <3>1, <3>2
  <2>2. CASE SwitchStart(p)
    BY ZenonT(60), <2>2 DEF SwitchStart, fields
  <2> QED
    BY Zenon, <1>2, <2>1, <2>2
<1>3. ASSUME NEW p \in Cpus, ContextOp(p)
      PROVE  Pins
  BY ZenonT(60), <1>3 DEF ContextOp, Spawn, SoftBlock, HardBlock, Unblock, Raise, fields
<1>4. ASSUME NEW p \in Cpus, RunStep(p)
      PROVE  Pins
  BY ZenonT(60), <1>4 DEF RunStep, SyscallEnter, SyscallExit, SetAddrSpace, fields
<1>5. ASSUME NEW p \in Cpus, SwitchStep(p)
      PROVE  Pins
  <2>1. CASE Commit(p)
    <3>1. /\ cpu_id' = [cpu_id EXCEPT ![next[p]] = p] /\ pc[p] = "commit"
          /\ cpu_id \in [Ids -> Cpus \cup {None}]
      BY ZenonT(60), <2>1 DEF Commit, IInv, TypeOK
    <3>2. cpu_id[next[p]] \in {None, p}
      BY ZenonT(60), <3>1 DEF IInv, RunInv, RunOf
    <3> QED
      BY Zenon, <3>1, <3>2
  <2>2. CASE ~Commit(p)
    BY ZenonT(60), <1>5, <2>2, OnlyCommitMoves
  <2> QED
    BY Zenon, <2>1, <2>2
<1> QED
  BY ZenonT(60), <1>1, <1>2, <1>3, <1>4, <1>5 DEF Next

\* A context never moves to another CPU.
THEOREM StaysOnItsCpu == Spec => Pinned
<1>1. IInv /\ ChoiceInv /\ [Next]_vars =>
        [\A c \in Ids : cpu_id[c] # None => cpu_id'[c] = cpu_id[c]]_vars
  BY ZenonT(60), StepPins
<1> QED
  BY <1>1, Choices, PTL DEF Spec, Pinned

\* Only the commit changes what a CPU runs, once init_context has set it.
LEMMA StepStarts ==
  ASSUME IInv, ChoiceInv, [Next]_vars, NEW q \in Cpus, context_id[q] # None,
         context_id'[q] # context_id[q]
  PROVE  status[context_id'[q]] = "Runnable" /\ ~running[context_id'[q]]
<1>t. context_id \in [Cpus -> Ids \cup {None}]
  BY ZenonT(60) DEF IInv, TypeOK
<1>1. ~UNCHANGED vars
  BY ZenonT(60) DEF vars, percpu
<1>2. PICK p \in Cpus : InitContext(p) \/ Commit(p)
  <2>1. PICK p \in Cpus : \/ InitContext(p) \/ ContextOp(p) \/ RunStep(p)
                          \/ SwitchStart(p) \/ SwitchStep(p)
    BY ZenonT(60), <1>1 DEF Next
  <2>2. ~ContextOp(p) /\ ~RunStep(p) /\ ~SwitchStart(p)
    BY ZenonT(60) DEF ContextOp, Spawn, SoftBlock, HardBlock, Unblock, Raise, RunStep, SyscallEnter,
       SyscallExit, SetAddrSpace, SwitchStart, percpu
  <2>3. SwitchStep(p) => Commit(p)
    BY ZenonT(60), OnlyCommitMoves
  <2> QED
    BY Zenon, <2>1, <2>2, <2>3
<1>3. ~InitContext(p)
  <2> SUFFICES ASSUME InitContext(p) PROVE FALSE
    BY Zenon
  <2>1. q = p /\ pc[p] = "boot"
    BY ZenonT(60), <1>t DEF InitContext, FirstContext
  <2> QED
    BY ZenonT(60), <2>1 DEF IInv, RunInv, RunOf
<1>4. q = p /\ context_id'[q] = next[p] /\ pc[p] = "commit"
  BY ZenonT(60), <1>t, <1>2, <1>3 DEF Commit
<1> QED
  BY ZenonT(60), <1>4 DEF IInv, RunInv, RunOf, ChoiceInv

\* A CPU only starts contexts that may run and that no CPU is running.
THEOREM StartsOnlyRunnable == Spec => StartsRunnable
<1>1. IInv /\ ChoiceInv /\ [Next]_vars =>
        [\A p \in Cpus : context_id[p] # None /\ context_id'[p] # context_id[p] =>
           status[context_id'[p]] = "Runnable" /\ ~running[context_id'[p]]]_vars
  BY ZenonT(60), StepStarts
<1> QED
  BY <1>1, Choices, PTL DEF Spec, StartsRunnable

===============================================================================
