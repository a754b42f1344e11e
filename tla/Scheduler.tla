------------------------------- MODULE Scheduler -------------------------------
(***************************************************************************)
(* Context switching, kernel/src/context: every CPU runs one context, and   *)
(* switch_context moves it to the next runnable one.  The hand-over spans   *)
(* two stacks and three kinds of locks: CONTEXT_SWITCH_LOCK, the storage's  *)
(* RwLock and one lock per context.  The guards of both contexts cross the  *)
(* switch inside the per-CPU block and are dropped by post_switch_context,  *)
(* after the global lock is free again.                                     *)
(*                                                                          *)
(* A context's id is a number; the idle context of CPU p is context p.  The *)
(* operations of Context that the switch depends on (soft_block, unblock,   *)
(* set_addr_space, signals) may be called by any CPU between two switches.  *)
(***************************************************************************)
EXTENDS Integers, FiniteSets

CONSTANTS
  Cpus,        \* LogicalCpuIds that run contexts
  NewIds,      \* context ids spawn may use
  Signals,     \* signal numbers
  CantBlock,   \* SIGKILL and SIGSTOP
  Spaces       \* bound: what set_addr_space is called with, address spaces of
               \* other contexts (named by their ids) or None

ASSUME CpusOK == Cpus \subseteq Nat /\ Cpus # {}
ASSUME NewIdsOK == NewIds \subseteq Nat /\ Cpus \cap NewIds = {}
ASSUME SignalsOK == CantBlock \subseteq Signals

Ids == Cpus \cup NewIds
None == -1

ASSUME SpacesOK == Spaces \subseteq NewIds \cup {None}

VARIABLES
  contexts,          \* ids in CONTEXT_STORAGE
  readers,           \* CPUs holding the storage's read guard
  switch_lock,       \* CONTEXT_SWITCH_LOCK: None or the CPU that set it
  guard,             \* per context: None or the CPU holding its guard
  running, cpu_id, status, pending, addrsp,   \* fields of Context
  inside,            \* Context.inside_syscall
  saved,             \* ctx_regs holds the context's registers
  started,           \* contexts that are past userspace_init
  pc,                \* per CPU: where it is
  context_id,        \* PercpuBlock: the current context
  inside_syscall,    \* PercpuBlock.inside_syscall
  switch_signal,     \* PercpuBlock: what Switched { signal } reports
  todo,              \* the candidates switch_context has not looked at
  prev, next,        \* the guards in hand, later in switch_result
  live,              \* whose registers the CPU holds
  cr3,               \* address space in CR3, None for the kernel's
  tss,               \* context whose kernel stack the TSS names
  in_call            \* history: contexts that are inside a system call

storage == <<contexts, readers>>
fields == <<running, cpu_id, status, pending, addrsp, inside, saved, started>>
percpu == <<context_id, inside_syscall, switch_signal, live, cr3, tss>>
locals == <<todo, prev, next>>
vars == <<storage, switch_lock, guard, fields, pc, percpu, locals, in_call>>

Idle(p) == p
Free(c) == guard[c] = None

-------------------------------------------------------------------------------
\* Nothing clears the memory of a new ProcessorControlRegion, so the per-CPU
\* flag starts with either value.
Init ==
  /\ contexts = {}
  /\ readers = {}
  /\ switch_lock = None
  /\ guard = [c \in Ids |-> None]
  /\ running = [c \in Ids |-> FALSE]
  /\ cpu_id = [c \in Ids |-> None]
  /\ status = [c \in Ids |-> "NotYetStarted"]
  /\ pending = [c \in Ids |-> {}]
  /\ addrsp = [c \in Ids |-> None]
  /\ inside = [c \in Ids |-> FALSE]
  /\ saved = [c \in Ids |-> FALSE]
  /\ started = {}
  /\ pc = [p \in Cpus |-> "boot"]
  /\ context_id = [p \in Cpus |-> None]
  /\ inside_syscall \in [Cpus -> BOOLEAN]
  /\ switch_signal = [p \in Cpus |-> FALSE]
  /\ todo = [p \in Cpus |-> {}]
  /\ prev = [p \in Cpus |-> None]
  /\ next = [p \in Cpus |-> None]
  /\ live = [p \in Cpus |-> None]
  /\ cr3 = [p \in Cpus |-> None]
  /\ tss = [p \in Cpus |-> None]
  /\ in_call = {}

FirstContext(p) == [context_id EXCEPT ![p] = Idle(p)]

(***************************************************************************)
(* init_context: the code that is running becomes the CPU's idle context.   *)
(***************************************************************************)
InitContext(p) ==
  /\ pc[p] = "boot"
  /\ readers = {}
  /\ contexts' = contexts \cup {Idle(p)}
  /\ status' = [status EXCEPT ![Idle(p)] = "Runnable"]
  /\ running' = [running EXCEPT ![Idle(p)] = TRUE]
  /\ cpu_id' = [cpu_id EXCEPT ![Idle(p)] = p]
  /\ context_id' = FirstContext(p)
  /\ live' = [live EXCEPT ![p] = Idle(p)]
  /\ started' = started \cup {Idle(p)}
  /\ pc' = [pc EXCEPT ![p] = "run"]
  /\ UNCHANGED <<readers, switch_lock, guard, pending, addrsp, inside, saved,
                 inside_syscall, switch_signal, cr3, tss, locals, in_call>>

\* spawn, and the caller's status = Runnable under the same storage guard.  The
\* new context has an address space and a kernel stack of its own.
Spawn(p, c) ==
  /\ pc[p] = "run"
  /\ readers = {}
  /\ c \notin contexts
  /\ contexts' = contexts \cup {c}
  /\ addrsp' = [addrsp EXCEPT ![c] = c]
  /\ saved' = [saved EXCEPT ![c] = TRUE]
  /\ status' = [status EXCEPT ![c] = "Runnable"]
  /\ UNCHANGED <<readers, switch_lock, guard, running, cpu_id, pending, inside,
                 started, pc, percpu, locals, in_call>>

-------------------------------------------------------------------------------
\* SignalState: only the idle contexts clear their procmask.
procmask(c) == IF c \in Cpus THEN {} ELSE Signals
Deliverable(c) == pending[c] \cap (CantBlock \cup (Signals \ procmask(c))) # {}

\* Operations on a context, each under its guard.  kmain never blocks itself.
SoftBlock(p, c) ==
  /\ pc[p] = "run"
  /\ c \in contexts \cap NewIds
  /\ Free(c)
  /\ status[c] = "Runnable"
  /\ status' = [status EXCEPT ![c] = "SoftBlocked"]
  /\ UNCHANGED <<storage, switch_lock, guard, running, cpu_id, pending, addrsp,
                 inside, saved, started, pc, percpu, locals, in_call>>

\* The only reason is NotYetStarted, and nothing takes it back.
HardBlock(p, c) ==
  /\ pc[p] = "run"
  /\ c \in contexts \cap NewIds
  /\ Free(c)
  /\ status[c] = "Runnable"
  /\ status' = [status EXCEPT ![c] = "NotYetStarted"]
  /\ UNCHANGED <<storage, switch_lock, guard, running, cpu_id, pending, addrsp,
                 inside, saved, started, pc, percpu, locals, in_call>>

Unblock(p, c) ==
  /\ pc[p] = "run"
  /\ c \in contexts
  /\ Free(c)
  /\ status[c] = "SoftBlocked"
  /\ status' = [status EXCEPT ![c] = "Runnable"]
  /\ UNCHANGED <<storage, switch_lock, guard, running, cpu_id, pending, addrsp,
                 inside, saved, started, pc, percpu, locals, in_call>>

\* External: no code sends signals yet.  Bound: one pending signal per context.
Raise(p, c, s) ==
  /\ pc[p] = "run"
  /\ pending[c] = {}
  /\ c \in contexts \cap NewIds
  /\ Free(c)
  /\ pending' = [pending EXCEPT ![c] = @ \cup {s}]
  /\ UNCHANGED <<storage, switch_lock, guard, running, cpu_id, status, addrsp,
                 inside, saved, started, pc, percpu, locals, in_call>>

\* set_addr_space of the current context: CR3 follows at once.
SetAddrSpace(p, a) ==
  /\ pc[p] = "run"
  /\ context_id[p] \in NewIds
  /\ Free(context_id[p])
  /\ a \in contexts \cup {None}
  /\ a # addrsp[context_id[p]]
  /\ cr3' = [cr3 EXCEPT ![p] = a]
  /\ addrsp' = [addrsp EXCEPT ![context_id[p]] = a]
  /\ UNCHANGED <<storage, switch_lock, guard, running, cpu_id, status, pending,
                 inside, saved, started, pc, context_id, inside_syscall,
                 switch_signal, live, tss, locals, in_call>>

\* __inner_syscall_instruction on its way in and out.
SyscallEnter(p) ==
  /\ pc[p] = "run"
  /\ context_id[p] \in NewIds \ in_call
  /\ in_call' = in_call \cup {context_id[p]}
  /\ inside_syscall' = [inside_syscall EXCEPT ![p] = TRUE]
  /\ UNCHANGED <<storage, switch_lock, guard, fields, pc, context_id,
                 switch_signal, live, cr3, tss, locals>>

SyscallExit(p) ==
  /\ pc[p] = "run"
  /\ context_id[p] \in in_call
  /\ in_call' = in_call \ {context_id[p]}
  /\ inside_syscall' = [inside_syscall EXCEPT ![p] = FALSE]
  /\ UNCHANGED <<storage, switch_lock, guard, fields, pc, context_id,
                 switch_signal, live, cr3, tss, locals>>

-------------------------------------------------------------------------------
(***************************************************************************)
(* switch_context.                                                          *)
(***************************************************************************)
SwitchStart(p) ==
  /\ pc[p] = "run"
  /\ pc' = [pc EXCEPT ![p] = "lock"]
  /\ UNCHANGED <<storage, switch_lock, guard, fields, percpu, locals, in_call>>

AcquireLock(p) ==
  /\ pc[p] = "lock"
  /\ switch_lock = None
  /\ switch_lock' = p
  /\ pc' = [pc EXCEPT ![p] = "prev"]
  /\ UNCHANGED <<storage, guard, fields, percpu, locals, in_call>>

\* Mutant: the iterator does not wrap around to the lower ids.
MutCandidates(p) == {c \in contexts : c > context_id[p]}
Candidates(p) == contexts \ {context_id[p]}

\* context_storage() and the guard of the current context.
LockPrev(p) ==
  /\ pc[p] = "prev"
  /\ Free(context_id[p])
  /\ readers' = readers \cup {p}
  /\ guard' = [guard EXCEPT ![context_id[p]] = p]
  /\ prev' = [prev EXCEPT ![p] = context_id[p]]
  /\ todo' = [todo EXCEPT ![p] = Candidates(p)]
  /\ pc' = [pc EXCEPT ![p] = "scan"]
  /\ UNCHANGED <<contexts, switch_lock, fields, percpu, next, in_call>>

\* The iterator: the ids above the current one, then the ids below it.  The
\* third chained range, idle_id..idle_id, is empty.
Before(cur, c, d) == (c > cur /\ d < cur) \/ ((c > cur <=> d > cur) /\ c < d)

IsNext(p, c) == c \in todo[p] /\ \A d \in todo[p] \ {c} : Before(prev[p], c, d)

\* upgrade_runnable.  Mutants: the CPU is not compared; the two early returns
\* are missing; a context without a CPU is refused.
MutMayRunOn(p, c) == ~running[c]
MayRunOn(p, c) == ~running[c] /\ cpu_id[c] \in {None, p}
WakesUp(c) == status[c] = "SoftBlocked" /\ Deliverable(c)
MutNoEarlyReturn(p, c) == status[c] = "Runnable" \/ WakesUp(c)
MutOwnOnly(p, c) == MayRunOn(p, c) /\ cpu_id[c] = p /\ status[c] = "Runnable"
Upgrades(p, c) == MayRunOn(p, c) /\ (status[c] = "Runnable" \/ WakesUp(c))

\* Mutant: the loop does not move on to the next candidate.
MutRemaining(p, c) == todo[p]
Remaining(p, c) == todo[p] \ {c}

\* A candidate that may not run: its guard is taken, tested and dropped.
Reject(p, c) ==
  /\ pc[p] = "scan"
  /\ IsNext(p, c)
  /\ Free(c)
  /\ ~Upgrades(p, c)
  /\ todo' = [todo EXCEPT ![p] = Remaining(p, c)]
  /\ UNCHANGED <<storage, switch_lock, guard, fields, pc, percpu, prev, next, in_call>>

Select(p, c) ==
  /\ pc[p] = "scan"
  /\ IsNext(p, c)
  /\ Free(c)
  /\ Upgrades(p, c)
  /\ guard' = [guard EXCEPT ![c] = p]
  /\ status' = [status EXCEPT ![c] = IF WakesUp(c) THEN "Runnable" ELSE @]
  /\ switch_signal' = [switch_signal EXCEPT ![p] = Deliverable(c)]
  /\ next' = [next EXCEPT ![p] = c]
  /\ todo' = [todo EXCEPT ![p] = {}]
  /\ readers' = readers \ {p}
  /\ pc' = [pc EXCEPT ![p] = "commit"]
  /\ UNCHANGED <<contexts, switch_lock, running, cpu_id, pending, addrsp, inside,
                 saved, started, context_id, inside_syscall, live, cr3, tss, prev,
                 in_call>>

\* No candidate: the guards go at the end of the block, then the lock.
SelectNone(p) ==
  /\ pc[p] = "scan"
  /\ todo[p] = {}
  /\ guard' = [guard EXCEPT ![prev[p]] = None]
  /\ prev' = [prev EXCEPT ![p] = None]
  /\ readers' = readers \ {p}
  /\ pc' = [pc EXCEPT ![p] = "unlock"]
  /\ UNCHANGED <<contexts, switch_lock, fields, percpu, todo, next, in_call>>

AllContextsIdle(p) ==
  /\ pc[p] = "unlock"
  /\ switch_lock' = None
  /\ pc' = [pc EXCEPT ![p] = "run"]
  /\ UNCHANGED <<storage, guard, fields, percpu, locals, in_call>>

\* Mutant: the old context stays marked as running.
MutRunning(p) == [running EXCEPT ![next[p]] = TRUE]
Running(p) == [running EXCEPT ![prev[p]] = FALSE, ![next[p]] = TRUE]
Swapped(p) == [inside_syscall EXCEPT ![p] = inside[next[p]]]

\* Everything up to switch_context_inner; both guards stay in switch_result.
Commit(p) ==
  /\ pc[p] = "commit"
  /\ running' = Running(p)
  /\ cpu_id' = [cpu_id EXCEPT ![next[p]] = p]
  /\ context_id' = [context_id EXCEPT ![p] = next[p]]
  /\ inside' = [inside EXCEPT ![prev[p]] = inside_syscall[p]]
  /\ inside_syscall' = Swapped(p)
  /\ tss' = [tss EXCEPT ![p] = IF next[p] \in NewIds THEN next[p] ELSE @]
  /\ pc' = [pc EXCEPT ![p] = "regs"]
  /\ UNCHANGED <<storage, switch_lock, guard, status, pending, addrsp, saved,
                 started, switch_signal, live, cr3, locals, in_call>>

\* switch_context_inner
SwitchRegisters(p) ==
  /\ pc[p] = "regs"
  /\ saved' = [saved EXCEPT ![prev[p]] = TRUE, ![next[p]] = FALSE]
  /\ live' = [live EXCEPT ![p] = next[p]]
  /\ pc' = [pc EXCEPT ![p] = "post"]
  /\ UNCHANGED <<storage, switch_lock, guard, running, cpu_id, status, pending,
                 addrsp, inside, started, context_id, inside_syscall,
                 switch_signal, cr3, tss, locals, in_call>>

(***************************************************************************)
(* post_switch_context, on the stack of the new context.                    *)
(***************************************************************************)
ReleaseLock(p) ==
  /\ pc[p] = "post"
  /\ switch_lock' = None
  /\ pc' = [pc EXCEPT ![p] = "validate"]
  /\ UNCHANGED <<storage, guard, fields, percpu, locals, in_call>>

\* Mutant: a context without an address space counts as equal to any other.
MutSameAddrSpace(a, b) == a = b \/ a = None \/ b = None
SameAddrSpace(a, b) == a = b
Dropped(p) == [guard EXCEPT ![prev[p]] = None, ![next[p]] = None]

LoadsCr3(p) == ~SameAddrSpace(addrsp[prev[p]], addrsp[next[p]]) /\ addrsp[next[p]] # None

\* A context that runs for the first time returns into userspace_init.
Validate(p) ==
  /\ pc[p] = "validate"
  /\ cr3' = [cr3 EXCEPT ![p] = IF LoadsCr3(p) THEN addrsp[next[p]] ELSE @]
  /\ guard' = Dropped(p)
  /\ prev' = [prev EXCEPT ![p] = None]
  /\ next' = [next EXCEPT ![p] = None]
  /\ pc' = [pc EXCEPT ![p] = IF next[p] \in started THEN "run" ELSE "init"]
  /\ UNCHANGED <<storage, switch_lock, fields, context_id, inside_syscall,
                 switch_signal, live, tss, todo, in_call>>

-------------------------------------------------------------------------------
(***************************************************************************)
(* userspace_init holds the storage and its own context while it loads the  *)
(* program, then takes its context once more for the entry registers.       *)
(***************************************************************************)
LoadProgram(p) ==
  /\ pc[p] = "init"
  /\ Free(context_id[p])
  /\ readers' = readers \cup {p}
  /\ guard' = [guard EXCEPT ![context_id[p]] = p]
  /\ pc' = [pc EXCEPT ![p] = "load"]
  /\ UNCHANGED <<contexts, switch_lock, fields, percpu, locals, in_call>>

ProgramLoaded(p) ==
  /\ pc[p] = "load"
  /\ cr3' = [cr3 EXCEPT ![p] = addrsp[context_id[p]]]
  /\ guard' = [guard EXCEPT ![context_id[p]] = None]
  /\ pc' = [pc EXCEPT ![p] = "entry"]
  /\ UNCHANGED <<storage, switch_lock, fields, context_id, inside_syscall,
                 switch_signal, live, tss, locals, in_call>>

EnterProgram(p) ==
  /\ pc[p] = "entry"
  /\ Free(context_id[p])
  /\ readers' = readers \ {p}
  /\ started' = started \cup {context_id[p]}
  /\ pc' = [pc EXCEPT ![p] = "run"]
  /\ UNCHANGED <<contexts, switch_lock, guard, running, cpu_id, status, pending,
                 addrsp, inside, saved, percpu, locals, in_call>>

-------------------------------------------------------------------------------
ContextOp(p) ==
  \E c \in NewIds :
    \/ Spawn(p, c) \/ SoftBlock(p, c) \/ HardBlock(p, c) \/ Unblock(p, c)
    \/ \E s \in Signals : Raise(p, c, s)

RunStep(p) ==
  \/ SyscallEnter(p) \/ SyscallExit(p)
  \/ \E a \in Spaces : SetAddrSpace(p, a)

SwitchStep(p) ==
  \/ AcquireLock(p) \/ LockPrev(p)
  \/ \E c \in Ids : Reject(p, c) \/ Select(p, c)
  \/ SelectNone(p) \/ AllContextsIdle(p)
  \/ Commit(p) \/ SwitchRegisters(p) \/ ReleaseLock(p) \/ Validate(p)
  \/ LoadProgram(p) \/ ProgramLoaded(p) \/ EnterProgram(p)

Next ==
  \E p \in Cpus :
    InitContext(p) \/ ContextOp(p) \/ RunStep(p) \/ SwitchStart(p) \/ SwitchStep(p)

Spec == Init /\ [][Next]_vars

\* A CPU inside switch_context goes on until it is done or has to spin, and
\* kmain, the idle context, calls switch_context in a loop (run_userspace).
\* Nothing makes another context call it.
FairSpec ==
  /\ Spec
  /\ \A p \in Cpus : WF_vars(SwitchStep(p))
  /\ \A p \in Cpus : WF_vars(context_id[p] = Idle(p) /\ SwitchStart(p))

-------------------------------------------------------------------------------
Status == {"Runnable", "SoftBlocked", "NotYetStarted"}
PCs == {"boot", "run", "lock", "prev", "scan", "unlock", "commit", "regs", "post",
        "validate", "init", "load", "entry"}

\* Types of the storage, the contexts and the per-CPU blocks.
TypeOK ==
  /\ contexts \subseteq Ids
  /\ readers \subseteq Cpus
  /\ switch_lock \in Cpus \cup {None}
  /\ guard \in [Ids -> Cpus \cup {None}]
  /\ running \in [Ids -> BOOLEAN]
  /\ cpu_id \in [Ids -> Cpus \cup {None}]
  /\ status \in [Ids -> Status]
  /\ pending \in [Ids -> SUBSET Signals]
  /\ addrsp \in [Ids -> NewIds \cup {None}]
  /\ inside \in [Ids -> BOOLEAN]
  /\ saved \in [Ids -> BOOLEAN]
  /\ started \subseteq Ids
  /\ pc \in [Cpus -> PCs]
  /\ context_id \in [Cpus -> Ids \cup {None}]
  /\ \A p \in Cpus : pc[p] # "boot" => context_id[p] \in contexts
  /\ inside_syscall \in [Cpus -> BOOLEAN]
  /\ switch_signal \in [Cpus -> BOOLEAN]
  /\ todo \in [Cpus -> SUBSET Ids]
  /\ prev \in [Cpus -> Ids \cup {None}]
  /\ next \in [Cpus -> Ids \cup {None}]
  /\ live \in [Cpus -> Ids \cup {None}]
  /\ cr3 \in [Cpus -> NewIds \cup {None}]
  /\ tss \in [Cpus -> NewIds \cup {None}]
  /\ in_call \subseteq NewIds

\* A context is marked running exactly while it is some CPU's current context,
\* and no two CPUs have the same one.
RunningIsCurrent ==
  /\ \A c \in Ids : running[c] <=> \E p \in Cpus : context_id[p] = c
  /\ \A p, q \in Cpus : p # q /\ context_id[p] # None => context_id[p] # context_id[q]

\* A context's registers are in one place: in ctx_regs or in one CPU.  A switch
\* never loads a ctx_regs that has not been written since it was last loaded.
RegistersInOnePlace ==
  /\ \A c \in contexts : saved[c] <=> ~\E p \in Cpus : live[p] = c
  /\ \A p, q \in Cpus : p # q /\ live[p] # None => live[p] # live[q]

\* Outside a switch a CPU executes its current context, in that context's
\* address space: switch_context skips CR3 writes only when CR3 is right already.
AddressSpaceLoaded ==
  \A p \in Cpus : pc[p] \in {"run", "lock", "init", "load", "entry"} =>
    /\ live[p] = context_id[p]
    /\ addrsp[context_id[p]] # None => cr3[p] = addrsp[context_id[p]]

\* A CPU enters the kernel on the stack of the context it runs, and no stack is
\* the entry stack of two CPUs, although kmain leaves the last one in the TSS.
EntryStackPrivate ==
  /\ \A p \in Cpus : context_id[p] \in NewIds => tss[p] = context_id[p]
  /\ \A p, q \in Cpus : p # q /\ tss[p] # None => tss[p] # tss[q]

\* The inside_syscall flag follows its context through switches and CPUs.
InsideSyscallFollows ==
  /\ \A p \in Cpus : context_id[p] \in NewIds =>
       (inside_syscall[p] <=> context_id[p] \in in_call)
  /\ \A c \in NewIds : ~running[c] => (inside[c] <=> c \in in_call)

\* A CPU holds no context, no storage guard and no switch lock once it is back
\* in its context, and the switch lock is held from the CAS to the release.
LocksReleased ==
  /\ \A p \in Cpus : pc[p] \in {"boot", "run", "lock", "init"} =>
       p \notin readers /\ switch_lock # p /\ \A c \in Ids : guard[c] # p
  /\ \A p \in Cpus : pc[p] \in {"prev", "scan", "unlock", "commit", "regs", "post"} <=>
       switch_lock = p

\* switch_context only finds nothing to run when the idle context calls it, so
\* a context that blocked itself never runs on.
IdleOnlyFromIdle == \A p \in Cpus : pc[p] = "unlock" => context_id[p] = Idle(p)

\* A context stays on the CPU that first ran it.
Pinned == [][\A c \in Ids : cpu_id[c] # None => cpu_id'[c] = cpu_id[c]]_vars

\* A CPU starts a context only if that context was runnable, or soft blocked
\* with a deliverable signal, under the guard it still holds.
StartsRunnable ==
  [][\A p \in Cpus : context_id[p] # None /\ context_id'[p] # context_id[p] =>
       status[context_id'[p]] = "Runnable" /\ ~running[context_id'[p]]]_vars

\* The global switch lock is always released again: whoever spins in
\* switch_context waits for guards that are on their way out.
SwitchLockReleased == \A p \in Cpus : switch_lock = p ~> switch_lock # p

\* While kmain is current its loop finds every context this CPU may run.
ReadyFor(p, c) == c \in contexts /\ MayRunOn(p, c) /\ status[c] = "Runnable"
IdleYields ==
  \A p \in Cpus : ~<>[](context_id[p] = Idle(p) /\ \E c \in NewIds : ReadyFor(p, c))

\* Round robin: if the CPU keeps switching, every context that stays ready for
\* it gets its turn again and again.
RoundRobin ==
  \A p \in Cpus : \A c \in NewIds :
    []<>(pc[p] = "scan") /\ <>[](ReadyFor(p, c) \/ (c \in contexts /\ context_id[p] = c
                                                    /\ status[c] = "Runnable"))
      => []<>(context_id[p] = c)

-------------------------------------------------------------------------------
(***************************************************************************)
(* What the source says and the code does not do.                           *)
(***************************************************************************)
\* "Skip idle process the first time it shows up" (switch.rs): the idle context
\* is selected only when no other context is ready.
SkipsIdleFirst ==
  \A p \in Cpus : pc[p] = "commit" /\ next[p] = Idle(p) =>
    ~\E c \in NewIds \ {prev[p]} : ReadyFor(p, c)
===============================================================================
