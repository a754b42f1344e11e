------------------------------ MODULE Processors ------------------------------
(***************************************************************************)
(* The processors of the machine and the identity of the boot processor     *)
(* (BSP), which both the start of the other processors and the routing of   *)
(* interrupts compare with the ids of the MADT.                             *)
(***************************************************************************)
EXTENDS Naturals

CONSTANTS
  MaxCpus,  \* MAX_CPUS, the size of the arrays for the entries of the MADT
  CPUs,     \* the LAPIC ids
  BspId,    \* the LAPIC id of the BSP
  X2        \* whether the LAPIC is used through its x2APIC registers

ASSUME ProcessorsAssumption ==
  /\ MaxCpus \in Nat \ {0}
  /\ CPUs \subseteq 0 .. 255 /\ BspId \in CPUs
  /\ X2 \in BOOLEAN

\* LOCAL_APIC.id() as u8: in xAPIC mode the register has the id in its upper 8 bits.
OwnId == (IF X2 THEN BspId ELSE BspId * 2 ^ 24) % 256
===============================================================================
