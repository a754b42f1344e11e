----------------------------- MODULE InterruptEntry -----------------------------
(***************************************************************************)
(* The ways into the kernel and back on one CPU: the macros of              *)
(* kernel/src/interrupt_macro.rs with the gates of kernel/src/interrupt.rs, *)
(* and syscall_instruction and enter_usermode (kernel/src/syscall.rs).      *)
(*                                                                          *)
(* The kernel finds its per-CPU data through GS, whose base is exchanged    *)
(* with the user's by swapgs; a handler that is entered at the wrong moment *)
(* sees the wrong one.  A maskable interrupt needs IF, which the gates and  *)
(* the system call clear; an NMI or a debug exception comes at any time.    *)
(***************************************************************************)
EXTENDS Naturals, Sequences, Functions

CONSTANT MaxDepth     \* bound on handlers that interrupt each other

ASSUME DepthAssumption == MaxDepth \in Nat \ {0}

\* The handlers by the macro that makes them; page_fault never returns.
Kinds == {"interrupt", "stack", "error", "page_fault", "nmi", "debug"}
Paranoid == {"nmi", "debug"}
HasErrorCode == {"error", "page_fault"}

VARIABLES
  gs, kgs,    \* IA32_GS_BASE and IA32_KERNEL_GS_BASE: "pcr" or "user"
  intr,       \* the interrupt flag
  nmi_off,    \* NMIs are blocked until the next iretq
  regs,       \* the general registers
  frames      \* the code that is running (last) and what it interrupted

vars == <<gs, kgs, intr, nmi_off, regs, frames>>

\* The pushes and the pops of the macros, in order, and the fields of InterruptStack up to
\* iret.
Scratch == <<"rcx", "rdx", "rdi", "rsi", "r8", "r9", "r10", "r11">>
Preserved == <<"rbx", "rbp", "r12", "r13", "r14", "r15">>
PopScratch == <<"r11", "r10", "r9", "r8", "rsi", "rdi", "rdx", "rcx", "rax">>
PopPreserved == <<"r15", "r14", "r13", "r12", "rbp", "rbx">>
Fields == <<"r15", "r14", "r13", "r12", "rbp", "rbx",
            "r11", "r10", "r9", "r8", "rsi", "rdi", "rdx", "rcx", "rax">>
Registers == Range(Fields)
Clobbered == {"rax"} \cup Range(Scratch)      \* by a function of the C ABI

Depth == Len(frames)
Top == frames[Depth]
At(label) == Top.pc = label
Set(fields) == frames' = [frames EXCEPT ![Depth] = fields]
Goto(label) == Set([Top EXCEPT !.pc = label])
swapgs == gs' = kgs /\ kgs' = gs

\* The code at the bottom: a user program, kmain, or a new context in enter_usermode.
\* stack has the words from rsp upward; of cs, rip and an error code the value is the low
\* bits, which the tests look at: the privilege level of cs, anything of the others.
Word(name, val) == [name |-> name, val |-> val]
Base(label, ring) == [kind |-> "base", ring |-> ring, pc |-> label, stack |-> <<>>, old |-> [none |-> TRUE]]
OwnRegs == [r \in Registers |-> r]

\* spawn leaves a cleared InterruptStack under the address of enter_usermode; the context
\* is switched to with interrupts off.
NewContext ==
  [kind |-> "syscall", ring |-> 0, pc |-> "enter_usermode",
   stack |-> [k \in 1 .. Len(Fields) |-> Word(Fields[k], "zero")]
             \o <<Word("rip", "zero"), Word("cs", 3), Word("rflags", FALSE)>>,
   old |-> [gs |-> "user", kgs |-> "pcr", intr |-> TRUE, regs |-> [x \in Registers |-> "zero"]]]

Init ==
  /\ nmi_off = FALSE
  /\ regs = OwnRegs
  /\ \/ gs = "user" /\ kgs = "pcr" /\ intr = TRUE /\ frames = <<Base("run", 3)>>
     \/ gs = "pcr" /\ kgs = "user" /\ intr = TRUE /\ frames = <<Base("run", 0)>>
     \/ gs = "pcr" /\ kgs = "user" /\ intr = FALSE /\ frames = <<Base("run", 3), NewContext>>

-------------------------------------------------------------------------------
\* What an interrupt finds and has to leave as it was.
State == [gs |-> gs, kgs |-> kgs, intr |-> intr, regs |-> regs]

Allowed(kind) ==
  CASE kind = "interrupt" -> intr
    [] kind = "nmi" -> ~nmi_off
    [] kind = "debug" -> TRUE
    [] OTHER -> Top.pc \in {"run", "inner"}      \* faults of Rust or user code

\* The CPU pushes the iret frame and, for some vectors, an error code; the gates of
\* init_idt are interrupt gates.
Deliver(kind, rip, code) ==
  /\ Depth <= MaxDepth
  /\ Allowed(kind)
  /\ LET iret == <<Word("rip", rip), Word("cs", Top.ring)>> IN
     frames' = Append(frames,
       [kind |-> kind, ring |-> 0, pc |-> IF kind \in Paranoid THEN "push" ELSE "test",
        stack |-> IF kind \in HasErrorCode THEN <<Word("code", code)>> \o iret ELSE iret,
        old |-> State])
  /\ intr' = FALSE
  /\ nmi_off' = (nmi_off \/ kind = "nmi")
  /\ UNCHANGED <<gs, kgs, regs>>

\* The word that the swapgs macros test: [rsp + 8], or [rsp + 16] under an error code.
Tested(kind) == IF kind \in HasErrorCode THEN 3 ELSE 2

Test ==
  /\ At("test")
  /\ Goto(IF Top.stack[Tested(Top.kind)].val = 0 THEN "push" ELSE "swap")
  /\ UNCHANGED <<gs, kgs, intr, nmi_off, regs>>

Swap ==
  /\ At("swap")
  /\ swapgs
  /\ Goto("push")
  /\ UNCHANGED <<intr, nmi_off, regs>>

\* The names are pushed in order, so the last one is at rsp.
Pushed(names) ==
  [k \in 1 .. Len(names) |-> LET name == names[Len(names) - k + 1] IN Word(name, regs[name])]
AllPushed == Pushed(<<"rax">> \o Scratch \o Preserved)

\* Mutant: the preserved registers are pushed first.
MutSaved(kind) == IF kind = "interrupt" THEN Pushed(<<"rax">> \o Scratch)
                  ELSE Pushed(<<"rax">> \o Preserved \o Scratch)

\* interrupt! keeps only what its function may overwrite; with an error code the code is
\* in the place of rax, which is then stored there.
Saved(kind) == IF kind = "interrupt" THEN Pushed(<<"rax">> \o Scratch) ELSE AllPushed

Push ==
  /\ At("push")
  /\ LET rest == IF Top.kind \in HasErrorCode THEN Tail(Top.stack) ELSE Top.stack IN
     Set([Top EXCEPT !.stack = Saved(Top.kind) \o rest,
                     !.pc = IF Top.kind \in Paranoid THEN "compare" ELSE "inner"])
  /\ regs' = IF Top.kind \in HasErrorCode THEN [regs EXCEPT !["rsi"] = "code"] ELSE regs
  /\ UNCHANGED <<gs, kgs, intr, nmi_off>>

\* conditional_swapgs_paranoid: bl says whether GS was the kernel's; the PCR is found
\* from the GDT.
Compare ==
  /\ At("compare")
  /\ regs' = [regs EXCEPT !["rbx"] = gs]
  /\ Goto(IF gs = "pcr" THEN "inner" ELSE "swap_paranoid")
  /\ UNCHANGED <<gs, kgs, intr, nmi_off>>

SwapParanoid ==
  /\ At("swap_paranoid")
  /\ swapgs
  /\ Goto("inner")
  /\ UNCHANGED <<intr, nmi_off, regs>>

\* The Rust function returns with the preserved registers as they were.
Inner ==
  /\ At("inner") /\ Top.kind \notin {"page_fault", "syscall"}
  /\ regs' = [r \in Registers |-> IF r \in Clobbered THEN "junk" ELSE regs[r]]
  /\ Goto(IF Top.kind \in Paranoid THEN "back" ELSE "pop")
  /\ UNCHANGED <<gs, kgs, intr, nmi_off>>

\* Mutant: GS stays the kernel's.
MutBack == UNCHANGED <<gs, kgs>>
Back == IF regs["rbx"] = "pcr" THEN UNCHANGED <<gs, kgs>> ELSE swapgs

BackParanoid ==
  /\ At("back")
  /\ Back
  /\ Goto("pop")
  /\ UNCHANGED <<intr, nmi_off, regs>>

\* Mutant: rax is popped first.
MutRaxFirst(kind) == IF kind = "interrupt" THEN <<"rax">> \o SubSeq(PopScratch, 1, 8)
                     ELSE PopPreserved \o PopScratch

\* The registers in the order of the pops.
Popped(kind) == IF kind = "interrupt" THEN PopScratch ELSE PopPreserved \o PopScratch
Restored(names, stack) ==
  [r \in Registers |-> IF r \in Range(names)
                       THEN stack[CHOOSE k \in DOMAIN names : names[k] = r].val ELSE regs[r]]

Pop ==
  /\ At("pop") /\ Top.kind \in Kinds
  /\ LET names == Popped(Top.kind) IN
     /\ regs' = Restored(names, Top.stack)
     /\ Set([Top EXCEPT !.stack = SubSeq(@, Len(names) + 1, Len(@)),
                        !.pc = IF Top.kind \in Paranoid THEN "iret" ELSE "test_back"])
  /\ UNCHANGED <<gs, kgs, intr, nmi_off>>

\* The error code is gone by now, so that all handlers test [rsp + 8].
TestBack ==
  /\ At("test_back")
  /\ Goto(IF Top.stack[2].val = 0 THEN "iret" ELSE "swap_back")
  /\ UNCHANGED <<gs, kgs, intr, nmi_off, regs>>

SwapBack ==
  /\ At("swap_back")
  /\ swapgs
  /\ Goto("iret")
  /\ UNCHANGED <<intr, nmi_off, regs>>

\* iretq goes to what was interrupted, takes its flags back and lets NMIs in again.
Iret ==
  /\ At("iret") /\ Top.kind \in Kinds
  /\ intr' = Top.old.intr
  /\ nmi_off' = FALSE
  /\ frames' = SubSeq(frames, 1, Depth - 1)
  /\ UNCHANGED <<gs, kgs, regs>>

Handler ==
  \/ \E k \in Kinds, rip \in 0 .. 1 : \E code \in IF k \in HasErrorCode THEN 0 .. 1 ELSE {0} :
       Deliver(k, rip, code)
  \/ Test \/ Swap \/ Push \/ Compare \/ SwapParanoid \/ Inner \/ BackParanoid
  \/ Pop \/ TestBack \/ SwapBack \/ Iret

-------------------------------------------------------------------------------
\* IA32_FMASK clears the interrupt flag and the trap flag.
Fmask(flag) == FALSE

\* The syscall instruction of a user program, with its trap flag on or off.
Syscall(trap) ==
  /\ Depth = 1 /\ Top.ring = 3
  /\ frames' = Append(frames, [kind |-> "syscall", ring |-> 0, pc |-> "sys_swap",
                               stack |-> <<Word("rflags", trap)>>, old |-> State])
  /\ regs' = [regs EXCEPT !["rcx"] = "rip", !["r11"] = "rflags"]
  /\ intr' = Fmask(intr)
  /\ UNCHANGED <<gs, kgs, nmi_off>>

SysSwap ==
  /\ At("sys_swap")
  /\ swapgs
  /\ Goto("sys_push")
  /\ UNCHANGED <<intr, nmi_off, regs>>

\* A frame like that of an interrupt from user mode, then the registers.
SysPush ==
  /\ At("sys_push")
  /\ Set([Top EXCEPT !.stack = AllPushed \o <<Word("rip", regs["rcx"]), Word("cs", 3)>> \o @,
                     !.pc = "inner"])
  /\ UNCHANGED <<gs, kgs, intr, nmi_off, regs>>

\* __inner_syscall_instruction: the result goes to the saved rax.
SysInner ==
  /\ At("inner") /\ Top.kind = "syscall"
  /\ regs' = [r \in Registers |-> IF r \in Clobbered THEN "junk" ELSE regs[r]]
  /\ Set([Top EXCEPT !.stack[Len(Fields)].val = "result", !.pc = "enter_usermode"])
  /\ UNCHANGED <<gs, kgs, intr, nmi_off>>

EnterUsermode ==
  /\ At("enter_usermode")
  /\ LET names == Popped("syscall") IN
     /\ regs' = Restored(names, Top.stack)
     /\ Set([Top EXCEPT !.stack = SubSeq(@, Len(names) + 1, Len(@)), !.pc = "sys_swap_back"])
  /\ UNCHANGED <<gs, kgs, intr, nmi_off>>

SysSwapBack ==
  /\ At("sys_swap_back")
  /\ swapgs
  /\ Goto("sys_return")
  /\ UNCHANGED <<intr, nmi_off, regs>>

\* sysretq has rip and rflags in rcx and r11; with the trap flag iretq is used.
SysReturn ==
  /\ At("sys_return")
  /\ LET trap == Top.stack[3].val IN
     /\ regs' = [regs EXCEPT !["rcx"] = IF trap THEN "zero" ELSE Top.stack[1].val,
                             !["r11"] = IF trap THEN "zero" ELSE "rflags"]
     /\ nmi_off' = (nmi_off /\ ~trap)
  /\ intr' = Top.old.intr
  /\ frames' = SubSeq(frames, 1, Depth - 1)
  /\ UNCHANGED <<gs, kgs>>

\* The user program goes on with its own registers.
UserStep ==
  /\ Depth = 1 /\ regs # OwnRegs
  /\ regs' = OwnRegs
  /\ UNCHANGED <<gs, kgs, intr, nmi_off, frames>>

SystemCall ==
  \/ \E trap \in BOOLEAN : Syscall(trap)
  \/ SysSwap \/ SysPush \/ SysInner \/ EnterUsermode \/ SysSwapBack \/ SysReturn

Next == Handler \/ SystemCall \/ UserStep
Spec == Init /\ [][Next]_vars

-------------------------------------------------------------------------------
TypeOK ==
  /\ {gs, kgs} = {"pcr", "user"}
  /\ intr \in BOOLEAN /\ nmi_off \in BOOLEAN
  /\ DOMAIN regs = Registers
  /\ Depth \in 1 .. MaxDepth + 1
  /\ At("iret") => Len(Top.stack) = 2

\* Rust code in a handler or in a system call finds the per-CPU data of its CPU through GS
\* and keeps the user's base aside (gdt.rs:101), whatever it interrupted and however often
\* it was interrupted itself (interrupt_macro.rs:92-115).
\* A user program runs with its own base, and the next entry finds the kernel's.
GsRight ==
  /\ At("inner") => gs = "pcr" /\ kgs = "user"
  /\ Top.ring = 3 => gs = "user" /\ kgs = "pcr"

\* A handler leaves both bases and all registers as it found them, the code it interrupted
\* being another entry or exit included; a system call keeps all but rax, rcx and r11
\* (interrupt_macro.rs:203-208, syscall.rs:191-224).
Transparent ==
  /\ At("iret") => gs = Top.old.gs /\ kgs = Top.old.kgs /\ regs = Top.old.regs
  /\ At("sys_return") =>
       /\ gs = Top.old.gs /\ kgs = Top.old.kgs
       /\ \A x \in Registers \ {"rax", "rcx", "r11"} : regs[x] = Top.old.regs[x]

\* The words under the pointer a function gets are the fields of InterruptStack, in order
\* and with the values of the interrupted code, however it was entered (syscall.rs:22-26);
\* the syscall instruction itself overwrites rcx and r11.
FrameAsStruct ==
  At("inner") /\ Top.kind # "interrupt" =>
    /\ \A k \in DOMAIN Fields :
         /\ Top.stack[k].name = Fields[k]
         /\ \/ Top.kind = "syscall" /\ Fields[k] \in {"rcx", "r11"}
            \/ Top.stack[k].val = Top.old.regs[Fields[k]]
    /\ Top.stack[Len(Fields) + 1].name = "rip" /\ Top.stack[Len(Fields) + 2].name = "cs"
===============================================================================
