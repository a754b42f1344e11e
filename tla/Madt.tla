--------------------------------- MODULE Madt ---------------------------------
(***************************************************************************)
(* The table of the firmware (MADT) that names the processors, the I/O      *)
(* APICs and the interrupts that are wired differently from the default.    *)
(***************************************************************************)
EXTENDS Processors, Sequences

CONSTANT Madts \* the MADTs to consider, each a sequence of entries

\* AcpiSettings, what the boot loader passes on of it
VARIABLES local_apic, io_apic, interrupt_src_override

MadtEntries ==
  [type : {"LocalApic"}, id : 0 .. 255, flags : Nat]
  \cup [type : {"IoApic"}, id : Nat, reg_id : Nat, gsi_base : Nat, max : Nat]
  \cup [type : {"Override"}, irq : Nat, gsi : Nat, flags : Nat]

\* Entries of the same type are about different things.
Apart(d, e) ==
  /\ d.type = "LocalApic" => d.id # e.id
  /\ d.type = "IoApic" => d.id # e.id /\ (d.gsi_base + d.max <= e.gsi_base \/ e.gsi_base + e.max <= d.gsi_base)
  /\ d.type = "Override" => d.irq # e.irq

\* What the ACPI specification asks of a MADT; a processor that can be enabled is there.
ASSUME MadtAssumption ==
  /\ Madts \subseteq Seq(MadtEntries)
  /\ \A m \in Madts : \A k \in DOMAIN m :
       /\ m[k].type = "LocalApic" /\ m[k].flags % 4 # 0 => m[k].id \in CPUs
       /\ \A j \in DOMAIN m : j # k /\ m[j].type = m[k].type => Apart(m[j], m[k])
===============================================================================
