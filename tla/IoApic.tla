--------------------------------- MODULE IoApic ---------------------------------
(***************************************************************************)
(* The routing of the legacy interrupts: parse_acpi_table copies the MADT   *)
(* into the kernel's argument (bootloader-efi/src/acpi.rs), setup_io_apic   *)
(* programs the redirection tables from it (kernel/src/acpi/io_apic.rs).    *)
(*                                                                          *)
(* A redirection entry is written in two halves: the lower one unmasks it,  *)
(* the upper one has the destination, and devices are live in between.      *)
(***************************************************************************)
EXTENDS Madt, FiniteSets, FiniteSetsExt

CONSTANT ResetDest     \* the destination the firmware has left in the masked entries
ASSUME ResetAssumption == ResetDest \in 0 .. 255

Irqs == 0 .. 15
TableSize == 24        \* the bound of the assertions in read_ioredtbl and write_ioredtbl
NoInfo == [none |-> TRUE]

VARIABLES
  madt, smi,   \* the table, and whether the FADT names an SMI command port
  pc,
  pos,         \* entries parsed
  src,         \* overrides looked at
  overrides,   \* SRC_OVERRIDES
  irq,         \* legacy_irq
  info,        \* the MapInfo being written, with its I/O APIC and index
  redtbl       \* [I/O APIC id -> [index -> entry]]

routing == <<madt, smi, pc, pos, local_apic, io_apic, interrupt_src_override, src, overrides, irq, info,
          redtbl>>
settings == <<local_apic, io_apic, interrupt_src_override>>
isos == <<src, overrides>>
input == <<madt, smi>>

IoApicsOf(m) == {m[k] : k \in {j \in DOMAIN m : m[j].type = "IoApic"}}
Masked == [mask |-> TRUE, vector |-> 0, level |-> FALSE, low |-> FALSE, dest |-> ResetDest]

\* Every entry is masked; nothing in the source writes its destination before setup_io_apic.
TablesInit ==
  /\ madt \in Madts /\ smi \in BOOLEAN
  /\ pc = "parse" /\ pos = 0
  /\ local_apic = <<>> /\ io_apic = <<>> /\ interrupt_src_override = <<>>
  /\ src = 0 /\ overrides = <<>>
  /\ irq = 0
  /\ info = NoInfo
  /\ redtbl = [a \in {e.id : e \in IoApicsOf(madt)} |->
                 [i \in 0 .. (CHOOSE e \in IoApicsOf(madt) : e.id = a).max |-> Masked]]

-------------------------------------------------------------------------------
\* parse_acpi_table without an SMI command port: the default, with empty arrays.
NoSmi ==
  /\ pc = "parse" /\ pos = 0 /\ ~smi
  /\ pc' = "io_apics"
  /\ UNCHANGED <<input, pos, settings, isos, irq, info, redtbl>>

\* The array with the entry stored behind its last one.
Add(array, entry) == Append(array, entry)
Enabled(entry) == entry.type = "LocalApic" => entry.flags % 4 # 0
ArrayOf(type) == CASE type = "LocalApic" -> local_apic
                   [] type = "IoApic" -> io_apic
                   [] type = "Override" -> interrupt_src_override

ParseEntry ==
  /\ pc = "parse" /\ smi /\ pos < Len(madt)
  /\ LET e == madt[pos + 1] IN
       \/ /\ ~Enabled(e)
          /\ UNCHANGED <<settings, pc>>
       \/ /\ Enabled(e) /\ Len(ArrayOf(e.type)) = MaxCpus    \* index out of bounds
          /\ pc' = "panic"
          /\ UNCHANGED settings
       \/ /\ Enabled(e) /\ Len(ArrayOf(e.type)) < MaxCpus
          /\ local_apic' = IF e.type = "LocalApic" THEN Add(local_apic, e) ELSE local_apic
          /\ io_apic' = IF e.type = "IoApic" THEN Add(io_apic, e) ELSE io_apic
          /\ interrupt_src_override' = IF e.type = "Override" THEN Add(interrupt_src_override, e)
                                       ELSE interrupt_src_override
          /\ UNCHANGED pc
  /\ pos' = pos + 1
  /\ UNCHANGED <<input, isos, irq, info, redtbl>>

ParseDone ==
  /\ pc = "parse" /\ smi /\ pos = Len(madt)
  /\ pc' = "io_apics"
  /\ UNCHANGED <<input, pos, settings, isos, irq, info, redtbl>>

-------------------------------------------------------------------------------
Polarity(flags) == flags % 4
TriggerMode(flags) == (flags \div 4) % 4
Reserved(flags) == 2 \in {Polarity(flags), TriggerMode(flags)}

\* The id in the register of an I/O APIC is asserted to be the one in the MADT.
PushIoApics ==
  /\ pc = "io_apics"
  /\ pc' = IF \A k \in DOMAIN io_apic : io_apic[k].reg_id = io_apic[k].id THEN "overrides" ELSE "panic"
  /\ UNCHANGED <<input, pos, settings, isos, irq, info, redtbl>>

\* An override with a reserved flag is left out.
PushOverride ==
  /\ pc = "overrides" /\ src < Len(interrupt_src_override)
  /\ LET o == interrupt_src_override[src + 1] IN
       overrides' = IF Reserved(o.flags) THEN overrides ELSE Append(overrides, o)
  /\ src' = src + 1
  /\ UNCHANGED <<input, pc, pos, settings, irq, info, redtbl>>

OverridesDone ==
  /\ pc = "overrides" /\ src = Len(interrupt_src_override)
  /\ pc' = "irq"
  /\ UNCHANGED <<input, pos, settings, isos, irq, info, redtbl>>

bsp_lapic_id == OwnId

\* IoApic::new: the register has the index of the last entry, not their number.
Count(a) == a.max

\* iter().find takes the first one in the order of the table.
Over(n) == {k \in DOMAIN overrides : overrides[k].irq = n}
Conflict(n) == Over(n) = {} /\ \E k \in DOMAIN overrides : overrides[k].gsi = n
Gsi(n) == IF Over(n) = {} THEN n ELSE overrides[Min(Over(n))].gsi
Flags(n) == IF Over(n) = {} THEN 0 ELSE overrides[Min(Over(n))].flags
Targets(g) == {k \in DOMAIN io_apic : g >= io_apic[k].gsi_base /\ g < io_apic[k].gsi_base + Count(io_apic[k])}
Target(g) == io_apic[Min(Targets(g))]

\* Mutant: a level-triggered interrupt is taken for an edge-triggered one.
MutMapInfo(n) ==
  [id |-> Target(Gsi(n)).id, index |-> Gsi(n) - Target(Gsi(n)).gsi_base,
   entry |-> [mask |-> FALSE, vector |-> 32 + n, level |-> FALSE,
              low |-> Polarity(Flags(n)) = 3, dest |-> bsp_lapic_id]]

MapInfo(n) ==
  [id |-> Target(Gsi(n)).id, index |-> Gsi(n) - Target(Gsi(n)).gsi_base,
   entry |-> [mask |-> FALSE, vector |-> 32 + n, level |-> TriggerMode(Flags(n)) = 3,
              low |-> Polarity(Flags(n)) = 3, dest |-> bsp_lapic_id]]

\* An interrupt without an entry: its number belongs to another one, or no I/O APIC has it.
Skip ==
  /\ pc = "irq" /\ irq \in Irqs
  /\ Conflict(irq) \/ Targets(Gsi(irq)) = {}
  /\ irq' = irq + 1
  /\ UNCHANGED <<input, pc, pos, settings, isos, info, redtbl>>

\* map: write_ioredtbl asserts its index, then writes the two halves.
Map ==
  /\ pc = "irq" /\ irq \in Irqs
  /\ ~Conflict(irq) /\ Targets(Gsi(irq)) # {}
  /\ info' = MapInfo(irq)
  /\ pc' = IF info'.index < TableSize THEN "lo" ELSE "panic"
  /\ UNCHANGED <<input, pos, settings, isos, irq, redtbl>>

WriteLo ==
  /\ pc = "lo"
  /\ redtbl' = [redtbl EXCEPT ![info.id][info.index] = [info.entry EXCEPT !.dest = redtbl[info.id][info.index].dest]]
  /\ pc' = "hi"
  /\ UNCHANGED <<input, pos, settings, isos, irq, info>>

\* Mutant: only the lower half is written.
MutWriteHi ==
  /\ pc = "hi"
  /\ irq' = irq + 1
  /\ pc' = "irq"
  /\ UNCHANGED <<input, pos, settings, isos, info, redtbl>>

WriteHi ==
  /\ pc = "hi"
  /\ redtbl' = [redtbl EXCEPT ![info.id][info.index].dest = info.entry.dest]
  /\ irq' = irq + 1
  /\ pc' = "irq"
  /\ UNCHANGED <<input, pos, settings, isos, info>>

RouteDone ==
  /\ pc = "irq" /\ irq \notin Irqs
  /\ pc' = "done"
  /\ UNCHANGED <<input, pos, settings, isos, irq, info, redtbl>>

Parse == NoSmi \/ ParseEntry \/ ParseDone
Route == PushIoApics \/ PushOverride \/ OverridesDone \/ Skip \/ Map \/ WriteLo \/ WriteHi \/ RouteDone

-------------------------------------------------------------------------------
\* The types of the variables: an entry has the vector of a legacy interrupt.
TablesTypeOK ==
  /\ pc \in {"parse", "io_apics", "overrides", "irq", "lo", "hi", "done", "panic"}
  /\ pos \in 0 .. Len(madt) /\ irq \in 0 .. 16
  /\ \A a \in DOMAIN redtbl : \A i \in DOMAIN redtbl[a] :
       redtbl[a][i].vector \in {0} \cup 32 .. 47 /\ redtbl[a][i].dest \in 0 .. 255

Entries(type) == {k \in DOMAIN madt : madt[k].type = type /\ Enabled(madt[k])}

\* Whatever does not fit makes the boot loader panic (acpi.rs:122-146): once the table is
\* parsed, every processor that can be enabled, every I/O APIC and every override is there.
NothingLost ==
  pc \notin {"parse", "panic"} /\ smi =>
    \A type \in {"LocalApic", "IoApic", "Override"} :
      /\ Len(ArrayOf(type)) = Cardinality(Entries(type))
      /\ \A k \in Entries(type) :
           ArrayOf(type)[Cardinality({j \in Entries(type) : j <= k})] = madt[k]

\* What the MADT says of the pin with number g: the interrupt an override sends there, or
\* the one with the same number if it is not sent elsewhere and g is not taken by another.
Valid == {o \in {madt[k] : k \in DOMAIN madt} : o.type = "Override" /\ ~Reserved(o.flags)}
IrqsAt(g) ==
  {n \in Irqs : \/ \E o \in Valid : o.irq = n /\ o.gsi = g
                \/ n = g /\ \A o \in Valid : o.irq # n /\ o.gsi # g}
FlagsAt(g) == {o.flags : o \in {v \in Valid : v.gsi = g}} \cup
              (IF \E v \in Valid : v.gsi = g THEN {} ELSE {0})

\* At the end the unmasked entries are routed as the MADT says, with its trigger mode and
\* polarity, and every pin in reach of setup_io_apic that has an interrupt is unmasked
\* (io_apic.rs:237-287).
RoutedAsMadt ==
  pc = "done" /\ smi =>
    \A a \in IoApicsOf(madt) : \A i \in DOMAIN redtbl[a.id] :
      LET e == redtbl[a.id][i]
          g == a.gsi_base + i
      IN  /\ ~e.mask => /\ e.vector - 32 \in IrqsAt(g)
                        /\ \E f \in FlagsAt(g) : e.level = (TriggerMode(f) = 3) /\ e.low = (Polarity(f) = 3)
          /\ i < Count(a) /\ IrqsAt(g) # {} => ~e.mask

\* The entry between its two writes (io_apic.rs:70-71).
UnderWrite(a, i) == pc = "hi" /\ info.id = a /\ info.index = i

\* Only the boot processor's IDT has the vectors 32 to 47 (interrupt.rs:75), and an entry
\* that is unmasked sends there, except the one whose lower half has been written and
\* whose upper half still has what the firmware left.
SentToBsp ==
  \A a \in DOMAIN redtbl : \A i \in DOMAIN redtbl[a] : ~redtbl[a][i].mask =>
    \/ redtbl[a][i].dest = BspId
    \/ UnderWrite(a, i) /\ redtbl[a][i].dest = ResetDest

-------------------------------------------------------------------------------
(***************************************************************************)
(* What the source says and the code does not do.                           *)
(***************************************************************************)
\* "only send to the BSP" (io_apic.rs:268), of an entry that is completely written, and of
\* one at any moment.
OnlyToBsp == pc \in {"irq", "done"} => SentToBsp
AlwaysToBsp ==
  \A a \in DOMAIN redtbl : \A i \in DOMAIN redtbl[a] :
    ~redtbl[a][i].mask => redtbl[a][i].dest = BspId

\* "Unable to find a suitable APIC ... It will not be mapped" (io_apic.rs:260): only an
\* interrupt that no I/O APIC has an entry for is left out.
SuitableMapped ==
  pc = "done" /\ smi =>
    \A a \in IoApicsOf(madt) : \A i \in DOMAIN redtbl[a.id] :
      IrqsAt(a.gsi_base + i) # {} => ~redtbl[a.id][i].mask
===============================================================================
