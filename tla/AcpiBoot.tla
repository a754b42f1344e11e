------------------------------- MODULE AcpiBoot -------------------------------
(***************************************************************************)
(* From the MADT to a machine with all processors started and interrupts    *)
(* routed: the boot loader parses the table (Parse of IoApic), _start gives *)
(* its processors to setup_ap_startup (ApStartup) and afterwards its I/O    *)
(* APICs and overrides to setup_io_apic (Route of IoApic), while the        *)
(* started processors wait and devices may interrupt.                       *)
(***************************************************************************)
EXTENDS ApStartup, IoApic

vars == <<routing, starting>>

Init == TablesInit /\ StartInit

\* The boot loader, before there is a kernel.
Loader == Parse /\ UNCHANGED starting

\* _start up to and including setup_ap_startup; it does not begin when the loader panicked.
Start == pc \notin {"parse", "panic"} /\ UNCHANGED routing /\ Bsp

\* setup_io_apic, once setup_ap_startup has returned and the heap has given its vectors.
SetupIoApic == cpu_pc[BspId] = "alone" /\ Route /\ UNCHANGED starting

ReceiveIpi(c) == UNCHANGED routing /\ Receive(c)
RunAp(c) == c # BspId /\ UNCHANGED routing /\ Ap(c)

Next == Loader \/ Start \/ SetupIoApic \/ \E c \in CPUs : ReceiveIpi(c) \/ RunAp(c)

\* Every CPU that runs goes on, and an interrupt that was sent arrives.
Fairness ==
  /\ WF_vars(Loader) /\ WF_vars(Start) /\ WF_vars(SetupIoApic)
  /\ \A c \in CPUs : WF_vars(RunAp(c)) /\ WF_vars(ReceiveIpi(c))
Spec == Init /\ [][Next]_vars /\ Fairness

-------------------------------------------------------------------------------
\* The types of the variables of both parts.
TypeOK == TablesTypeOK /\ StartTypeOK

\* What does not fit into the arrays is a panic of the loader (acpi.rs:122-146), so that
\* when setup_ap_startup returns, every processor the MADT says can be enabled has been
\* counted, has its IDT and waits (ap_startup.rs:78-83), whatever the order of the table.
AllReady == NothingLost /\ AllStarted

\* A device that interrupts at any moment reaches the BSP, whatever its LAPIC id, which
\* has the only IDT with gates for the vectors 32 to 47 (interrupt.rs:75) and has loaded it
\* by then; the one entry between its two writes (io_apic.rs:70-71) may still send where
\* the firmware left it, and no earlier entry is disturbed by the write.
HandledWhereSent ==
  /\ SentToBsp
  /\ (\E a \in DOMAIN redtbl : \E i \in DOMAIN redtbl[a] : ~redtbl[a][i].mask) => 0 \in idts

===============================================================================
