---------------------------- MODULE AcpiBootProofs ----------------------------
(***************************************************************************)
(* The boot from the MADT on keeps its promises: the steps of IoApic, from  *)
(* the MADT to the redirection tables, and what ApStartupProofs shows of    *)
(* the start of the processors, put together for the two that take turns,   *)
(* for any number of processors and any MADT that keeps to the ACPI         *)
(* specification.                                                           *)
(***************************************************************************)
EXTENDS AcpiBoot, ApStartupProofs

\* The id a processor reads of itself does not change.
LEMMA OwnFixed == OwnId' = OwnId
BY Zenon DEF OwnId

-------------------------------------------------------------------------------
(***************************************************************************)
(* The arrays of the loader: an entry is behind those before it in the      *)
(* table, and so at its rank.                                               *)
(***************************************************************************)
Rank(type, k) == Cardinality({j \in Entries(type) : j <= k})

\* The ranks of the entries, in the order of the table, as they are for every MADT
\* (Ranked).
Ranking ==
  \A type :
    /\ Rank(type, 0) = 0 /\ Rank(type, Len(madt)) = Cardinality(Entries(type))
    /\ \A n \in Nat :
         /\ Rank(type, n) \in Nat
         /\ Rank(type, n + 1) = IF n + 1 \in Entries(type) THEN Rank(type, n) + 1 ELSE Rank(type, n)

\* The array has the first n entries of the table, as far as they are of this type.
ArrayInv(array, type, n) ==
  /\ array \in Seq(MadtEntries)
  /\ Len(array) = Rank(type, n)
  /\ \A k \in Entries(type) : k <= n =>
       Rank(type, k) \in 1 .. Len(array) /\ array[Rank(type, k)] = madt[k]
  /\ \A i \in DOMAIN array : \E k \in Entries(type) : k <= n /\ array[i] = madt[k]
  /\ \A i, j \in DOMAIN array : i # j => Apart(array[i], array[j])

Arrays ==
  /\ ArrayInv(local_apic, "LocalApic", pos)
  /\ ArrayInv(io_apic, "IoApic", pos)
  /\ ArrayInv(interrupt_src_override, "Override", pos)

ParseInv ==
  /\ madt \in Madts /\ smi \in BOOLEAN
  /\ pc \in {"parse", "io_apics", "overrides", "irq", "lo", "hi", "done", "panic"}
  /\ pos \in 0 .. Len(madt)
  /\ ~smi => pos = 0
  /\ pc \notin {"parse", "panic"} /\ smi => pos = Len(madt)
  /\ pc # "panic" => Arrays

-------------------------------------------------------------------------------
(***************************************************************************)
(* The redirection tables: an entry is unmasked when, and only when, an     *)
(* interrupt before irq belongs there; the MADT says which ones do.         *)
(***************************************************************************)
Settled == {"irq", "lo", "hi", "done"}       \* all overrides have been looked at

OverridesInv ==
  /\ overrides \in Seq(MadtEntries)
  /\ src \in 0 .. Len(interrupt_src_override)
  /\ pc \in {"parse", "io_apics"} => src = 0
  /\ pc \in Settled => src = Len(interrupt_src_override)
  /\ \A k \in DOMAIN overrides : \E j \in 1 .. src :
       overrides[k] = interrupt_src_override[j] /\ ~Reserved(interrupt_src_override[j].flags)
  /\ \A j \in 1 .. src : ~Reserved(interrupt_src_override[j].flags) =>
       \E k \in DOMAIN overrides : overrides[k] = interrupt_src_override[j]

TableEntry == [mask : BOOLEAN, vector : Nat, level : BOOLEAN, low : BOOLEAN, dest : Nat]

\* An I/O APIC of the MADT with a table, and what is in it.
TableInv(a) ==
  /\ a.id \in DOMAIN redtbl /\ DOMAIN redtbl[a.id] = 0 .. a.max
  /\ \A i \in 0 .. a.max : redtbl[a.id][i] \in TableEntry

Routed(n, g) == ~Conflict(n) /\ Gsi(n) = g
EntryInv(a, i) ==
  /\ ~redtbl[a.id][i].mask => pc \in Settled /\ \E n \in Irqs :
       /\ Routed(n, a.gsi_base + i)
       /\ redtbl[a.id][i].vector = 32 + n
       /\ redtbl[a.id][i].level = (TriggerMode(Flags(n)) = 3)
       /\ redtbl[a.id][i].low = (Polarity(Flags(n)) = 3)
  /\ smi /\ i < a.max =>
       \A n \in Irqs : n < irq /\ Routed(n, a.gsi_base + i) => ~redtbl[a.id][i].mask

\* An entry sends to the BSP, or where the firmware left it as long as that is masked or
\* being written.
SentInv ==
  \A a \in IoApicsOf(madt) : \A i \in 0 .. a.max :
    \/ redtbl[a.id][i].dest = OwnId
    \/ redtbl[a.id][i].dest = ResetDest /\ (redtbl[a.id][i].mask \/ UnderWrite(a.id, i))

\* The I/O APIC, the index and the entry being written.
InfoInv ==
  /\ pc \in {"lo", "hi"} =>
       /\ irq \in Irqs /\ ~Conflict(irq) /\ Targets(Gsi(irq)) # {}
       /\ info = MapInfo(irq)
  /\ pc = "hi" => ~redtbl[info.id][info.index].mask

RouteInv ==
  /\ irq \in 0 .. 16 /\ (pc \notin Settled \cup {"panic"} => irq = 0) /\ (pc = "done" => irq = 16)
  /\ \A a \in IoApicsOf(madt) : TableInv(a)
  /\ DOMAIN redtbl = {a.id : a \in IoApicsOf(madt)}
  /\ pc # "panic" => \A a \in IoApicsOf(madt) : \A i \in 0 .. a.max : EntryInv(a, i)
  /\ InfoInv
  /\ pc # "panic" => OverridesInv

\* The first of several indices is one of them (LeastOf).
Least == \A S \in SUBSET Nat : S # {} => Min(S) \in S

\* Some interrupt can arrive.
Unmasked == \E a \in DOMAIN redtbl : \E i \in DOMAIN redtbl[a] : ~redtbl[a][i].mask

\* The processors that setup_ap_startup is given.
IdsInv ==
  /\ local_apic \in Seq(MadtEntries)
  /\ \A k \in DOMAIN local_apic : local_apic[k].id \in CPUs
  /\ \A j, k \in DOMAIN local_apic : j # k => local_apic[j].id # local_apic[k].id

TabInv == ParseInv /\ RouteInv /\ IdsInv

-------------------------------------------------------------------------------
\* What the ACPI specification says of the entries of the table.
LEMMA TheMadt ==
  ASSUME madt \in Madts
  PROVE  /\ madt \in Seq(MadtEntries) /\ Len(madt) \in Nat /\ DOMAIN madt = 1 .. Len(madt)
         /\ \A k \in DOMAIN madt : madt[k] \in MadtEntries
         /\ \A k \in Entries("LocalApic") : madt[k].id \in CPUs
         /\ \A j, k \in DOMAIN madt : j # k /\ madt[j].type = madt[k].type => Apart(madt[j], madt[k])
<1>1. madt \in Seq(MadtEntries)
  BY MadtAssumption, Zenon
<1>2. \A k \in Entries("LocalApic") : madt[k].id \in CPUs
  BY MadtAssumption, Zenon DEF Entries, Enabled
<1>3. \A j, k \in DOMAIN madt : j # k /\ madt[j].type = madt[k].type => Apart(madt[j], madt[k])
  BY MadtAssumption, Zenon
<1>4. Len(madt) \in Nat /\ DOMAIN madt = 1 .. Len(madt) /\ \A k \in DOMAIN madt : madt[k] \in MadtEntries
  <2> HIDE DEF MadtEntries
  <2> QED BY <1>1
<1> QED BY <1>1, <1>2, <1>3, <1>4

\* A sequence and what is put behind it.
LEMMA Appended ==
  ASSUME NEW S, NEW s \in Seq(S), NEW e \in S
  PROVE  /\ Append(s, e) \in Seq(S) /\ Len(Append(s, e)) = Len(s) + 1
         /\ Append(s, e)[Len(s) + 1] = e /\ \A i \in 1 .. Len(s) : Append(s, e)[i] = s[i]
  OBVIOUS

\* An empty array has none of the entries.
LEMMA ArrayStart ==
  ASSUME madt \in Madts, Ranking, NEW type
  PROVE  ArrayInv(<<>>, type, 0)
<1>1. Entries(type) \subseteq 1 .. Len(madt) /\ Len(madt) \in Nat /\ Rank(type, 0) = 0
  BY TheMadt DEF Ranking, Entries
<1>2. \A k \in Entries(type) : ~(k <= 0)
  BY <1>1
<1>3. <<>> \in Seq(MadtEntries) /\ Len(<<>>) = 0 /\ DOMAIN <<>> = {}
  <2> HIDE DEF MadtEntries
  <2> QED OBVIOUS
<1> QED BY <1>1, <1>2, <1>3, Zenon DEF ArrayInv

\* An entry of another type, or one that is not enabled, leaves the array as it is.
LEMMA ArrayStays ==
  ASSUME madt \in Madts, Ranking, NEW type, NEW array, NEW n \in Nat, ArrayInv(array, type, n),
         n + 1 \notin Entries(type)
  PROVE  ArrayInv(array, type, n + 1)
<1>1. Rank(type, n + 1) = Rank(type, n)
  BY Zenon DEF Ranking
<1>2. \A k \in Entries(type) : k <= n + 1 <=> k <= n
  <2>1. Entries(type) \subseteq 1 .. Len(madt) /\ Len(madt) \in Nat
    BY TheMadt DEF Entries
  <2> QED BY <2>1
<1> QED BY <1>1, <1>2, Zenon DEF ArrayInv

\* An entry that counts goes behind the others.
LEMMA ArrayGrows ==
  ASSUME madt \in Madts, Ranking, NEW type, NEW array, NEW n \in Nat, ArrayInv(array, type, n),
         n + 1 \in Entries(type)
  PROVE  ArrayInv(Append(array, madt[n + 1]), type, n + 1)
<1> DEFINE e == madt[n + 1]
           new == Append(array, e)
           L == Len(array)
<1>1. /\ n + 1 \in DOMAIN madt /\ e \in MadtEntries /\ e.type = type
      /\ Entries(type) \subseteq DOMAIN madt /\ DOMAIN madt \subseteq Nat
      /\ \A k \in Entries(type) : madt[k].type = type
  BY TheMadt DEF Entries
<1>2. /\ new \in Seq(MadtEntries) /\ Len(new) = L + 1 /\ new[L + 1] = e
      /\ \A i \in 1 .. L : new[i] = array[i]
      /\ L \in Nat /\ DOMAIN array = 1 .. L /\ DOMAIN new = 1 .. L + 1
  <2>1. array \in Seq(MadtEntries)
    BY Zenon DEF ArrayInv
  <2> HIDE DEF MadtEntries, e
  <2>2. /\ new \in Seq(MadtEntries) /\ Len(new) = L + 1 /\ new[L + 1] = e
        /\ \A i \in 1 .. L : new[i] = array[i]
    BY <1>1, <2>1, Appended
  <2> HIDE DEF new
  <2> QED BY <2>1, <2>2
<1> HIDE DEF new, e
<1>3. Rank(type, n + 1) = L + 1
  <2>1. L = Rank(type, n)
    BY Zenon DEF ArrayInv
  <2> QED BY <2>1, Zenon DEF Ranking
<1>4. ASSUME NEW k \in Entries(type), k <= n + 1
      PROVE  Rank(type, k) \in 1 .. Len(new) /\ new[Rank(type, k)] = madt[k]
  <2>1. CASE k = n + 1
    BY <1>2, <1>3, <2>1 DEF e
  <2>2. CASE k # n + 1
    <3>1. k <= n
      BY <1>1, <1>4, <2>2
    <3>2. Rank(type, k) \in 1 .. L /\ array[Rank(type, k)] = madt[k]
      BY <3>1, Zenon DEF ArrayInv
    <3> QED BY <1>2, <3>2
  <2> QED BY <2>1, <2>2
<1>5. ASSUME NEW i \in DOMAIN array
      PROVE  \E k \in Entries(type) : k <= n /\ k # n + 1 /\ k <= n + 1 /\ new[i] = madt[k]
  <2>1. PICK k \in Entries(type) : k <= n /\ array[i] = madt[k]
    BY Zenon DEF ArrayInv
  <2>2. k # n + 1 /\ k <= n + 1
    BY <1>1, <2>1
  <2> QED BY <1>2, <2>1, <2>2
<1>6. ASSUME NEW i \in DOMAIN new
      PROVE  \E k \in Entries(type) : k <= n + 1 /\ new[i] = madt[k]
  <2>1. CASE i = L + 1
    BY <1>2, <2>1 DEF e
  <2>2. CASE i # L + 1
    <3>1. i \in DOMAIN array
      BY <1>2, <2>2
    <3> QED BY <1>5, <3>1, Zenon
  <2> QED BY <2>1, <2>2
<1>7. ASSUME NEW i \in DOMAIN array
      PROVE  Apart(new[i], e) /\ Apart(e, new[i])
  <2>1. PICK k \in Entries(type) : k # n + 1 /\ new[i] = madt[k]
    BY <1>5, Zenon
  <2> QED BY <1>1, <2>1, TheMadt, Zenon DEF e
<1>8. ASSUME NEW i \in DOMAIN new, NEW j \in DOMAIN new, i # j
      PROVE  Apart(new[i], new[j])
  <2>1. CASE i \in DOMAIN array /\ j \in DOMAIN array
    <3>1. new[i] = array[i] /\ new[j] = array[j]
      BY <1>2, <2>1, Zenon
    <3> QED BY <1>8, <2>1, <3>1, Zenon DEF ArrayInv
  <2>2. CASE i = L + 1 \/ j = L + 1
    <3>1. \/ i = L + 1 /\ new[i] = e /\ j \in DOMAIN array
          \/ j = L + 1 /\ new[j] = e /\ i \in DOMAIN array
      BY <1>2, <1>8, <2>2
    <3> QED BY <1>7, <3>1, Zenon
  <2> QED BY <1>2, <2>1, <2>2
<1> QED BY <1>2, <1>3, <1>4, <1>6, <1>8, Zenon DEF ArrayInv, new, e

\* The ids of the processors are those of CPUs that exist, each once.
LEMMA IdsRight ==
  ASSUME madt \in Madts, NEW n, ArrayInv(local_apic, "LocalApic", n)
  PROVE  IdsInv
<1>1. /\ local_apic \in Seq(MadtEntries)
      /\ \A i \in DOMAIN local_apic : \E k \in Entries("LocalApic") : local_apic[i] = madt[k]
      /\ \A i, j \in DOMAIN local_apic : i # j => Apart(local_apic[i], local_apic[j])
  BY Zenon DEF ArrayInv
<1>2. \A i \in DOMAIN local_apic : local_apic[i].type = "LocalApic" /\ local_apic[i].id \in CPUs
  <2>1. \A k \in Entries("LocalApic") : madt[k].type = "LocalApic"
    BY DEF Entries
  <2> QED BY <1>1, <2>1, TheMadt, Zenon
<1>3. \A i, j \in DOMAIN local_apic : i # j => local_apic[i].id # local_apic[j].id
  BY <1>1, <1>2, Zenon DEF Apart
<1> QED BY <1>1, <1>2, <1>3, Zenon DEF IdsInv

\* So they are in the next state.
LEMMA IdsPrimed == (madt \in Madts /\ Arrays => IdsInv)'
<1>1. madt \in Madts /\ Arrays => IdsInv
  BY IdsRight DEF Arrays
<1> QED BY <1>1, PTL

\* The table itself does not change.
LEMMA ArraysPrimed ==
  ASSUME madt' = madt,
         ArrayInv(local_apic', "LocalApic", pos'), ArrayInv(io_apic', "IoApic", pos'),
         ArrayInv(interrupt_src_override', "Override", pos')
  PROVE  Arrays'
<1>1. ASSUME NEW type PROVE Entries(type)' = Entries(type)
  BY DEF Entries, Enabled
<1>2. ASSUME NEW type, NEW k PROVE Rank(type, k)' = Rank(type, k)
  BY <1>1 DEF Rank
<1>3. ArrayInv(local_apic, "LocalApic", pos)'
  BY <1>1, <1>2, Zenon DEF ArrayInv
<1>4. ArrayInv(io_apic, "IoApic", pos)'
  BY <1>1, <1>2, Zenon DEF ArrayInv
<1>5. ArrayInv(interrupt_src_override, "Override", pos)'
  BY <1>1, <1>2, Zenon DEF ArrayInv
<1> QED BY <1>3, <1>4, <1>5 DEF Arrays

\* An entry of the table goes to the array of its type, or to none.
LEMMA ParseEntryArrays ==
  ASSUME madt \in Madts, Ranking, Arrays, pos \in Nat, ParseEntry, pc' # "panic"
  PROVE  Arrays'
<1> DEFINE e == madt[pos + 1]
           Grows(type) == pos + 1 \in Entries(type)
<1>1. /\ pos' = pos + 1 /\ madt' = madt /\ pos < Len(madt)
      /\ \/ ~Enabled(e) /\ UNCHANGED <<local_apic, io_apic, interrupt_src_override>>
         \/ /\ Enabled(e)
            /\ local_apic' = IF e.type = "LocalApic" THEN Append(local_apic, e) ELSE local_apic
            /\ io_apic' = IF e.type = "IoApic" THEN Append(io_apic, e) ELSE io_apic
            /\ interrupt_src_override' = IF e.type = "Override" THEN Append(interrupt_src_override, e)
                                         ELSE interrupt_src_override
  BY Zenon DEF ParseEntry, Add, input, settings
<1>2. pos + 1 \in DOMAIN madt
  BY <1>1, TheMadt
<1>3. ASSUME NEW type PROVE Grows(type) <=> Enabled(e) /\ e.type = type
  BY <1>2, Zenon DEF Entries
<1> HIDE DEF e, Grows
<1>4. /\ local_apic' = IF Grows("LocalApic") THEN Append(local_apic, e) ELSE local_apic
      /\ io_apic' = IF Grows("IoApic") THEN Append(io_apic, e) ELSE io_apic
      /\ interrupt_src_override' = IF Grows("Override") THEN Append(interrupt_src_override, e)
                                   ELSE interrupt_src_override
  BY <1>1, <1>3, Zenon
<1>5. ASSUME NEW array, NEW type, ArrayInv(array, type, pos)
      PROVE  ArrayInv(IF Grows(type) THEN Append(array, e) ELSE array, type, pos + 1)
  BY <1>5, ArrayGrows, ArrayStays, Zenon DEF e, Grows
<1>6. /\ ArrayInv(local_apic', "LocalApic", pos') /\ ArrayInv(io_apic', "IoApic", pos')
      /\ ArrayInv(interrupt_src_override', "Override", pos')
  BY <1>1, <1>4, <1>5, Zenon DEF Arrays
<1> QED BY <1>1, <1>6, ArraysPrimed, Zenon

\* Where an interrupt goes is decided by the overrides and the I/O APICs.
LEMMA SameRouting ==
  ASSUME overrides' = overrides, io_apic' = io_apic
  PROVE  /\ \A n : /\ Conflict(n)' <=> Conflict(n)
                   /\ Gsi(n)' = Gsi(n) /\ Flags(n)' = Flags(n)
                   /\ MapInfo(n)' = MapInfo(n)
         /\ \A g : Targets(g)' = Targets(g)
<1>1. ASSUME NEW n PROVE Over(n)' = Over(n)
  BY DEF Over
<1>2. ASSUME NEW n
      PROVE  /\ Conflict(n)' <=> Conflict(n)
             /\ Gsi(n)' = Gsi(n) /\ Flags(n)' = Flags(n)
  BY <1>1, Zenon DEF Conflict, Gsi, Flags
<1>3. ASSUME NEW g PROVE Targets(g)' = Targets(g) /\ Target(g)' = Target(g)
  <2>1. Targets(g)' = Targets(g)
    BY DEF Targets, Count
  <2> QED BY <2>1, Zenon DEF Target
<1>4. ASSUME NEW n PROVE MapInfo(n)' = MapInfo(n)
  <2>1. Target(Gsi(n))' = Target(Gsi(n))
    <3>1. Targets(Gsi(n))' = Targets(Gsi(n))
      BY <1>2 DEF Targets, Count
    <3> QED BY <3>1, Zenon DEF Target
  <2> QED BY <1>2, <2>1, OwnFixed, Zenon DEF MapInfo, bsp_lapic_id
<1> QED BY <1>2, <1>3, <1>4

\* A table that is not written, with the same overrides, is as it was.
LEMMA SameTable ==
  ASSUME redtbl' = redtbl, overrides' = overrides, io_apic' = io_apic, smi' = smi, irq' = irq,
         NEW a, NEW i, EntryInv(a, i), pc \in Settled => pc' \in Settled
  PROVE  EntryInv(a, i)'
<1>1. \A n, g : Routed(n, g)' <=> Routed(n, g)
  BY SameRouting, Zenon DEF Routed
<1>2. \A n : Flags(n)' = Flags(n)
  BY SameRouting
<1> QED BY <1>1, <1>2, Zenon DEF EntryInv, Irqs, TriggerMode, Polarity

\* The start of the processors has nothing to do with the tables.
LEMMA RoutingSame ==
  ASSUME UNCHANGED routing, RouteInv
  PROVE  RouteInv'
<1>1. /\ redtbl' = redtbl /\ overrides' = overrides /\ io_apic' = io_apic /\ smi' = smi /\ irq' = irq
      /\ pc' = pc /\ madt' = madt /\ interrupt_src_override' = interrupt_src_override /\ src' = src
      /\ info' = info
  BY Zenon DEF routing
<1>2. pc # "panic" => OverridesInv'
  BY <1>1, ZenonT(60) DEF RouteInv, OverridesInv, Reserved, Polarity, TriggerMode
<1>3. InfoInv'
  BY <1>1, SameRouting, Zenon DEF RouteInv, InfoInv, Irqs
<1>4. ASSUME NEW a, NEW i, EntryInv(a, i) PROVE EntryInv(a, i)'
  BY <1>1, <1>4, SameTable
<1>5. ASSUME NEW a, TableInv(a) PROVE TableInv(a)'
  BY <1>1, <1>5, Zenon DEF TableInv, TableEntry
<1>6. IoApicsOf(madt)' = IoApicsOf(madt)
  BY <1>1 DEF IoApicsOf
<1> QED BY <1>1, <1>2, <1>3, <1>4, <1>5, <1>6, Zenon DEF RouteInv

\* A step of others leaves the invariant alone.
LEMMA TableSame ==
  ASSUME TabInv, UNCHANGED routing
  PROVE  TabInv'
<1>1. /\ madt' = madt /\ smi' = smi /\ pc' = pc /\ pos' = pos /\ local_apic' = local_apic
      /\ io_apic' = io_apic /\ interrupt_src_override' = interrupt_src_override
  BY Zenon DEF routing
<1>2. ParseInv /\ RouteInv /\ IdsInv
  BY DEF TabInv
<1>3. RouteInv'
  BY <1>2, RoutingSame
<1>4. Arrays => Arrays'
  <2>1. Arrays => /\ ArrayInv(local_apic', "LocalApic", pos') /\ ArrayInv(io_apic', "IoApic", pos')
                  /\ ArrayInv(interrupt_src_override', "Override", pos')
    BY <1>1, Zenon DEF Arrays
  <2> QED BY <1>1, <2>1, ArraysPrimed, Zenon
<1>5. ParseInv'
  BY <1>1, <1>2, <1>4, Zenon DEF ParseInv
<1>6. IdsInv'
  BY <1>1, <1>2, Zenon DEF IdsInv, MadtEntries
<1> QED BY <1>3, <1>5, <1>6, Zenon DEF TabInv

\* The steps of the loader change the arrays, and nothing that a kernel has done.
LEMMA ParseStep ==
  ASSUME Ranking, TabInv, Parse
  PROVE  TabInv'
<1>1. ParseInv /\ RouteInv /\ IdsInv
  BY DEF TabInv
<1>2. /\ pc = "parse" /\ pc' \in {"parse", "io_apics", "panic"}
      /\ UNCHANGED <<madt, smi, src, overrides, irq, info, redtbl>>
  BY Zenon DEF Parse, NoSmi, ParseEntry, ParseDone, input, isos
<1>3. /\ madt \in Madts /\ smi \in BOOLEAN /\ pos \in 0 .. Len(madt) /\ (~smi => pos = 0) /\ Arrays
  BY <1>1, <1>2 DEF ParseInv
<1>4. Len(madt) \in Nat /\ pos \in Nat
  BY <1>3, TheMadt
<1>5. \/ ParseEntry /\ smi /\ pos' = pos + 1 /\ pos < Len(madt)
      \/ /\ UNCHANGED <<pos, local_apic, io_apic, interrupt_src_override>>
         /\ pc' # "panic" /\ (smi => pos = Len(madt))
  BY Zenon DEF Parse, NoSmi, ParseDone, settings, ParseEntry
<1>6. pc' # "panic" => Arrays'
  <2>1. CASE ParseEntry
    BY <1>3, <1>4, <2>1, ParseEntryArrays
  <2>2. CASE UNCHANGED <<pos, local_apic, io_apic, interrupt_src_override>>
    BY <1>2, <1>3, <2>2, ArraysPrimed, Zenon DEF Arrays
  <2> QED BY <1>5, <2>1, <2>2
<1>7. ParseInv'
  <2>1. pos' \in 0 .. Len(madt') /\ (~smi' => pos' = 0)
    BY <1>2, <1>3, <1>4, <1>5
  <2>2. pc' \notin {"parse", "panic"} /\ smi' => pos' = Len(madt')
    <3>1. ParseEntry => pc' \in {"parse", "panic"}
      BY <1>2, Zenon DEF ParseEntry
    <3> QED BY <1>2, <1>5, <3>1, Zenon
  <2>3. pc' \in {"parse", "io_apics", "overrides", "irq", "lo", "hi", "done", "panic"}
    BY <1>2
  <2> QED BY <1>2, <1>3, <1>6, <2>1, <2>2, <2>3, Zenon DEF ParseInv
<1>8. IdsInv'
  <2>1. CASE pc' # "panic"
    BY <1>2, <1>3, <1>6, <2>1, IdsPrimed, Zenon
  <2>2. CASE pc' = "panic"
    <3>1. UNCHANGED local_apic
      BY <1>2, <1>5, <2>2, Zenon DEF ParseEntry, settings
    <3> QED BY <1>1, <3>1, ZenonT(60) DEF IdsInv, MadtEntries
  <2> QED BY <2>1, <2>2
<1>9. RouteInv'
  <2>1. /\ "parse" \notin Settled \cup {"panic"} /\ "parse" \notin {"lo", "hi", "done"}
        /\ pc' \notin {"lo", "hi", "done"} /\ pc' \notin Settled
    BY <1>2 DEF Settled
  <2>2. irq = 0 /\ irq' = 0 /\ irq' \in 0 .. 16
    BY <1>1, <1>2, <2>1 DEF RouteInv
  <2>3. ASSUME NEW a, NEW i, EntryInv(a, i)
        PROVE  EntryInv(a, i)'
    <3>1. redtbl'[a.id][i].mask
      BY <1>2, <2>1, <2>3, Zenon DEF EntryInv
    <3>2. \A n \in Irqs : ~(n < irq')
      BY <2>2 DEF Irqs
    <3> QED BY <3>1, <3>2, Zenon DEF EntryInv, Irqs
  <2>4. ASSUME NEW a, TableInv(a) PROVE TableInv(a)'
    BY <1>2, <2>4, Zenon DEF TableInv, TableEntry
  <2>5. IoApicsOf(madt)' = IoApicsOf(madt)
    BY <1>2 DEF IoApicsOf
  <2>6. ASSUME pc' # "panic"
        PROVE  OverridesInv'
    <3>1. src' = 0 /\ overrides' = overrides /\ OverridesInv
      BY <1>1, <1>2, Zenon DEF RouteInv, OverridesInv
    <3>2. overrides \in Seq(MadtEntries) /\ ~\E k \in DOMAIN overrides : TRUE
      <4>1. src = 0
        BY <1>2, <3>1
      <4>2. ~\E j \in 1 .. src : TRUE
        BY <4>1
      <4> QED BY <3>1, <4>2, Zenon DEF OverridesInv
    <3>3. Len(interrupt_src_override') \in Nat
      <4>1. interrupt_src_override' \in Seq(MadtEntries)
        BY <1>6, <2>6, Zenon DEF Arrays, ArrayInv, MadtEntries
      <4> HIDE DEF MadtEntries
      <4> QED BY <4>1
    <3>4. src' \in 0 .. Len(interrupt_src_override') /\ ~\E j \in 1 .. src' : TRUE
      BY <3>1, <3>3
    <3> QED BY <2>1, <3>1, <3>2, <3>4, Zenon DEF OverridesInv, MadtEntries
  <2>7. InfoInv'
    BY <2>1, Zenon DEF InfoInv
  <2> QED BY <1>1, <1>2, <2>1, <2>2, <2>3, <2>4, <2>5, <2>6, <2>7, Zenon DEF RouteInv
<1> QED BY <1>7, <1>8, <1>9, Zenon DEF TabInv

\* I/O APICs with different entries have different ids and different pins.
LEMMA TheChips ==
  ASSUME madt \in Madts, NEW a \in IoApicsOf(madt), NEW b \in IoApicsOf(madt)
  PROVE  /\ a.id \in Nat /\ a.gsi_base \in Nat /\ a.max \in Nat
         /\ a.id = b.id => a = b
         /\ \A i, j \in Nat : i < a.max /\ j < b.max /\ a.gsi_base + i = b.gsi_base + j => a = b
<1>1. PICK j \in DOMAIN madt : madt[j].type = "IoApic" /\ a = madt[j]
  BY Zenon DEF IoApicsOf
<1>2. PICK k \in DOMAIN madt : madt[k].type = "IoApic" /\ b = madt[k]
  BY Zenon DEF IoApicsOf
<1>3. a.type = "IoApic" /\ b.type = "IoApic" /\ a \in MadtEntries /\ b \in MadtEntries
  BY <1>1, <1>2, TheMadt, Zenon
<1>4. /\ a.id \in Nat /\ a.gsi_base \in Nat /\ a.max \in Nat
      /\ b.id \in Nat /\ b.gsi_base \in Nat /\ b.max \in Nat
  BY <1>3 DEF MadtEntries
<1>5. a # b => Apart(a, b)
  BY <1>1, <1>2, TheMadt, Zenon
<1> QED BY <1>3, <1>4, <1>5 DEF Apart

\* After a reset everything is masked.
LEMMA RouteStart ==
  ASSUME TablesInit
  PROVE  RouteInv /\ SentInv /\ ~Unmasked
<1>1. /\ madt \in Madts /\ pc = "parse" /\ irq = 0 /\ src = 0 /\ overrides = <<>>
      /\ interrupt_src_override = <<>>
      /\ redtbl = [a \in {e.id : e \in IoApicsOf(madt)} |->
                     [i \in 0 .. (CHOOSE e \in IoApicsOf(madt) : e.id = a).max |-> Masked]]
  BY Zenon DEF TablesInit
<1>2. DOMAIN redtbl = {a.id : a \in IoApicsOf(madt)}
  BY <1>1
<1>3. ASSUME NEW a \in IoApicsOf(madt)
      PROVE  DOMAIN redtbl[a.id] = 0 .. a.max /\ \A i \in 0 .. a.max : redtbl[a.id][i] = Masked
  <2>1. (CHOOSE e \in IoApicsOf(madt) : e.id = a.id) = a
    BY <1>1, TheChips
  <2>2. redtbl[a.id] = [i \in 0 .. a.max |-> Masked]
    BY <1>1, <2>1, Zenon
  <2> QED BY <2>2
<1>4. Masked \in TableEntry /\ Masked.dest = ResetDest /\ Masked.mask
  BY ResetAssumption DEF Masked, TableEntry
<1>5. "parse" \notin Settled \cup {"panic", "lo", "hi", "done"}
  BY DEF Settled
<1>6. ASSUME NEW a \in IoApicsOf(madt)
      PROVE  TableInv(a) /\ \A i \in 0 .. a.max : EntryInv(a, i)
  <2>1. TableInv(a)
    BY <1>2, <1>3, <1>4, Zenon DEF TableInv
  <2>2. \A n \in Irqs : ~(n < irq)
    BY <1>1 DEF Irqs
  <2> QED BY <1>3, <1>4, <2>1, <2>2, Zenon DEF EntryInv
<1>7. OverridesInv
  <2>1. <<>> \in Seq(MadtEntries) /\ Len(<<>>) = 0 /\ DOMAIN <<>> = {} /\ 0 \in 0 .. 0 /\ 1 .. 0 = {}
    <3> HIDE DEF MadtEntries
    <3> QED OBVIOUS
  <2> QED BY <1>1, <1>5, <2>1, Zenon DEF OverridesInv
<1>8. InfoInv
  BY <1>1, <1>5, Zenon DEF InfoInv
<1>9. ~Unmasked
  <2>1. ASSUME NEW x \in DOMAIN redtbl, NEW i \in DOMAIN redtbl[x] PROVE redtbl[x][i].mask
    <3>1. PICK a \in IoApicsOf(madt) : x = a.id
      BY <1>2
    <3> QED BY <1>3, <1>4, <2>1, <3>1, Zenon
  <2> QED BY <2>1, Zenon DEF Unmasked
<1>10. irq \in 0 .. 16
  BY <1>1
<1>11. SentInv
  BY <1>3, <1>4, Zenon DEF SentInv
<1> QED BY <1>1, <1>2, <1>5, <1>6, <1>7, <1>8, <1>9, <1>10, <1>11, Zenon DEF RouteInv

\* TablesInit gives the invariant.
LEMMA TablesInitInv ==
  ASSUME Ranking, TablesInit
  PROVE  TabInv /\ SentInv /\ ~Unmasked
<1>1. /\ madt \in Madts /\ smi \in BOOLEAN /\ pc = "parse" /\ pos = 0
      /\ local_apic = <<>> /\ io_apic = <<>> /\ interrupt_src_override = <<>>
  BY Zenon DEF TablesInit
<1>2. Arrays
  BY <1>1, ArrayStart DEF Arrays
<1>3. ParseInv
  <2>1. pos \in 0 .. Len(madt)
    BY <1>1, TheMadt
  <2> QED BY <1>1, <1>2, <2>1 DEF ParseInv
<1>4. IdsInv
  BY <1>1, <1>2, IdsRight DEF Arrays
<1> QED BY <1>3, <1>4, RouteStart, Zenon DEF TabInv

\* Routing comes after parsing and leaves the arrays alone.
LEMMA RouteRest ==
  ASSUME ParseInv, IdsInv, Route
  PROVE  ParseInv' /\ IdsInv'
<1>1. /\ UNCHANGED <<madt, smi, pos, local_apic, io_apic, interrupt_src_override>>
      /\ pc \notin {"parse", "panic"}
      /\ pc' \in {"overrides", "irq", "lo", "hi", "done", "panic"}
  BY Zenon DEF Route, PushIoApics, PushOverride, OverridesDone, Skip, Map, WriteLo, WriteHi, RouteDone, input,
               settings
<1>2. ParseInv'
  <2>1. Arrays'
    BY <1>1, ArraysPrimed, Zenon DEF Arrays, ParseInv
  <2>2. pc' \in {"parse", "io_apics", "overrides", "irq", "lo", "hi", "done", "panic"} /\ pc' # "parse"
    BY <1>1
  <2> QED BY <1>1, <2>1, <2>2, Zenon DEF ParseInv
<1> QED BY <1>1, <1>2, ZenonT(60) DEF IdsInv, MadtEntries

\* A step that neither writes to a table nor goes on to the next interrupt.
LEMMA RouteFrame ==
  ASSUME RouteInv, UNCHANGED <<madt, smi, io_apic, interrupt_src_override, redtbl, overrides, src, irq>>,
         pc # "panic", pc' \notin {"parse", "io_apics"},
         pc' \in Settled => src = Len(interrupt_src_override),
         pc \in Settled => pc' \in Settled \cup {"panic"}, pc' = "done" => irq = 16, InfoInv'
  PROVE  RouteInv'
<1>1. /\ irq \in 0 .. 16 /\ (pc \notin Settled \cup {"panic"} => irq = 0)
      /\ \A a \in IoApicsOf(madt) : TableInv(a) /\ \A i \in 0 .. a.max : EntryInv(a, i)
      /\ DOMAIN redtbl = {a.id : a \in IoApicsOf(madt)}
      /\ OverridesInv
  BY Zenon DEF RouteInv
<1>2. pc' # "panic" => OverridesInv'
  BY <1>1, ZenonT(60) DEF OverridesInv, Reserved, Polarity, TriggerMode
<1>3. ASSUME NEW a, NEW i, EntryInv(a, i), pc' # "panic" PROVE EntryInv(a, i)'
  <2>1. pc \in Settled => pc' \in Settled
    BY <1>3
  <2> QED BY <1>3, <2>1, SameTable
<1>4. ASSUME NEW a, TableInv(a) PROVE TableInv(a)'
  BY <1>4, Zenon DEF TableInv, TableEntry
<1>5. IoApicsOf(madt)' = IoApicsOf(madt)
  BY DEF IoApicsOf
<1>6. pc' \notin Settled \cup {"panic"} => irq' = 0
  BY <1>1
<1>7. (irq \in 0 .. 16)' /\ (pc' = "done" => irq' = 16)
  BY <1>1
<1>8. (DOMAIN redtbl)' = {a.id : a \in IoApicsOf(madt)}'
  BY <1>1, <1>5, Zenon
<1> QED BY <1>1, <1>2, <1>3, <1>4, <1>5, <1>6, <1>7, <1>8, Zenon DEF RouteInv

\* The I/O APICs are checked, the overrides have been looked at, or the interrupts have.
LEMMA RouteStages ==
  ASSUME RouteInv, PushIoApics \/ OverridesDone \/ RouteDone
  PROVE  RouteInv'
<1>1. /\ UNCHANGED <<madt, smi, io_apic, interrupt_src_override, redtbl, overrides, src, irq>>
      /\ \/ pc = "io_apics" /\ pc' \in {"overrides", "panic"}
         \/ pc = "overrides" /\ pc' = "irq" /\ src = Len(interrupt_src_override)
         \/ pc = "irq" /\ pc' = "done" /\ irq \notin Irqs
  BY Zenon DEF PushIoApics, OverridesDone, RouteDone, input, settings, isos
<1>2. /\ pc # "panic" /\ pc' \notin {"parse", "io_apics"}
      /\ pc' \notin {"lo", "hi"} /\ (pc \in Settled => pc' \in Settled \cup {"panic"})
      /\ pc' \in Settled => (pc' = "irq" /\ pc = "overrides") \/ pc \in Settled
  BY <1>1 DEF Settled
<1>3. pc' \in Settled => src = Len(interrupt_src_override)
  BY <1>1, <1>2, Zenon DEF RouteInv, OverridesInv
<1>4. pc' = "done" => irq = 16
  BY <1>1 DEF RouteInv, Irqs
<1>5. InfoInv'
  BY <1>2, Zenon DEF InfoInv
<1> QED BY <1>1, <1>2, <1>3, <1>4, <1>5, RouteFrame

\* An override is looked at, before anything is unmasked.
LEMMA PushOverrideInv ==
  ASSUME RouteInv, ArrayInv(interrupt_src_override, "Override", pos), PushOverride
  PROVE  RouteInv'
<1> DEFINE o == interrupt_src_override[src + 1]
<1>1. /\ pc = "overrides" /\ pc' = "overrides" /\ src < Len(interrupt_src_override) /\ src' = src + 1
      /\ overrides' = IF Reserved(o.flags) THEN overrides ELSE Append(overrides, o)
      /\ UNCHANGED <<madt, smi, io_apic, interrupt_src_override, redtbl, irq>>
  BY Zenon DEF PushOverride, input, settings
<1>2. /\ irq = 0 /\ OverridesInv /\ DOMAIN redtbl = {a.id : a \in IoApicsOf(madt)}
      /\ \A a \in IoApicsOf(madt) : TableInv(a) /\ \A i \in 0 .. a.max : EntryInv(a, i)
  BY <1>1 DEF RouteInv, Settled
<1>3. /\ interrupt_src_override \in Seq(MadtEntries) /\ overrides \in Seq(MadtEntries)
      /\ src \in 0 .. Len(interrupt_src_override)
  BY <1>2, Zenon DEF ArrayInv, OverridesInv
<1>4. Len(interrupt_src_override) \in Nat /\ src \in Nat /\ src' \in 1 .. Len(interrupt_src_override) /\ o \in MadtEntries
  <2> HIDE DEF MadtEntries
  <2> QED BY <1>1, <1>3
<1>5. 1 .. src' = (1 .. src) \cup {src + 1}
  BY <1>1, <1>4
<1> DEFINE Keep(j) == ~Reserved(interrupt_src_override[j].flags)
           Has(s, j) == \E k \in DOMAIN s : s[k] = interrupt_src_override[j]
           From(e, n) == \E j \in 1 .. n : e = interrupt_src_override[j] /\ Keep(j)
<1>6. /\ \A k \in DOMAIN overrides : From(overrides[k], src)
      /\ \A j \in 1 .. src : Keep(j) => Has(overrides, j)
  BY <1>2, Zenon DEF OverridesInv
<1>7. \A e : From(e, src') <=> From(e, src) \/ (e = o /\ Keep(src + 1))
  BY <1>5, Zenon
<1>8. /\ overrides' \in Seq(MadtEntries)
      /\ \A k \in DOMAIN overrides' : From(overrides'[k], src')
      /\ \A j \in 1 .. src' : Keep(j) => Has(overrides', j)
  <2>1. CASE Reserved(o.flags)
    <3>1. overrides' = overrides /\ ~Keep(src + 1)
      BY <1>1, <2>1, Zenon
    <3> HIDE DEF Keep, Has, From
    <3> QED BY <1>3, <1>5, <1>6, <1>7, <3>1
  <2>2. CASE ~Reserved(o.flags)
    <3> DEFINE n == Len(overrides)
    <3>1. overrides' = Append(overrides, o) /\ Keep(src + 1)
      BY <1>1, <2>2, Zenon
    <3> HIDE DEF MadtEntries, o
    <3>2. /\ overrides' \in Seq(MadtEntries) /\ Len(overrides') = n + 1
          /\ overrides'[n + 1] = o /\ \A k \in 1 .. n : overrides'[k] = overrides[k]
      BY <1>3, <1>4, <3>1, Appended
    <3>3. n \in Nat /\ DOMAIN overrides = 1 .. n /\ DOMAIN overrides' = (1 .. n) \cup {n + 1}
      BY <1>3, <3>2
    <3>4. \A k \in DOMAIN overrides' : From(overrides'[k], src')
      <4> HIDE DEF Keep, From, n
      <4> QED BY <1>6, <1>7, <3>1, <3>2, <3>3, Zenon
    <3>5. ASSUME NEW j \in 1 .. src', Keep(j) PROVE Has(overrides', j)
      <4>1. CASE j = src + 1
        BY <3>2, <3>3, <4>1, Zenon DEF o
      <4>2. CASE j \in 1 .. src
        BY <1>6, <3>2, <3>3, <3>5, <4>2, Zenon
      <4> QED BY <1>5, <4>1, <4>2, Zenon
    <3> QED BY <3>2, <3>4, <3>5, Zenon
  <2> QED BY <2>1, <2>2, Zenon
<1>9. OverridesInv'
  <2>1. src' \in 0 .. Len(interrupt_src_override') /\ pc' \notin {"parse", "io_apics"} /\ pc' \notin Settled
    BY <1>1, <1>4 DEF Settled
  <2>2. \A k \in DOMAIN overrides' : \E j \in 1 .. src' :
          /\ overrides'[k] = interrupt_src_override'[j]
          /\ ~Reserved(interrupt_src_override'[j].flags)
    BY <1>1, <1>8, Zenon
  <2>3. \A j \in 1 .. src' : ~Reserved(interrupt_src_override'[j].flags) =>
          \E k \in DOMAIN overrides' : overrides'[k] = interrupt_src_override'[j]
    BY <1>1, <1>8, ZenonT(60)
  <2>4. overrides' \in Seq(MadtEntries)
    BY <1>8, Zenon
  <2> QED BY <2>1, <2>2, <2>3, <2>4, ZenonT(60) DEF OverridesInv, Reserved, Polarity, TriggerMode
<1>10. ASSUME NEW a, NEW i, EntryInv(a, i) PROVE EntryInv(a, i)'
  <2>1. redtbl'[a.id][i].mask
    <3>1. pc \notin Settled
      BY <1>1 DEF Settled
    <3> QED BY <1>1, <1>10, <3>1, Zenon DEF EntryInv
  <2>2. \A n \in Irqs : ~(n < irq')
    BY <1>1, <1>2 DEF Irqs
  <2> QED BY <2>1, <2>2, Zenon DEF EntryInv, Irqs
<1>11. ASSUME NEW a, TableInv(a) PROVE TableInv(a)'
  BY <1>1, <1>11, Zenon DEF TableInv, TableEntry
<1>12. IoApicsOf(madt)' = IoApicsOf(madt)
  BY <1>1 DEF IoApicsOf
<1>13. irq' = 0 /\ irq' \in 0 .. 16 /\ pc' \notin {"done", "lo", "hi"}
  BY <1>1, <1>2
<1>14. (DOMAIN redtbl)' = {a.id : a \in IoApicsOf(madt)}'
  BY <1>1, <1>2, <1>12, Zenon
<1> QED BY <1>2, <1>9, <1>10, <1>11, <1>12, <1>13, <1>14, Zenon DEF RouteInv, InfoInv

\* The overrides of SRC_OVERRIDES are entries of the table.
LEMMA TheOverrides ==
  ASSUME madt \in Madts, ArrayInv(interrupt_src_override, "Override", pos), OverridesInv
  PROVE  \A k \in DOMAIN overrides :
           /\ overrides[k] \in Valid
           /\ overrides[k].irq \in Nat /\ overrides[k].gsi \in Nat /\ overrides[k].flags \in Nat
<1> SUFFICES ASSUME NEW k \in DOMAIN overrides
             PROVE  /\ overrides[k] \in Valid
                    /\ overrides[k].irq \in Nat /\ overrides[k].gsi \in Nat /\ overrides[k].flags \in Nat
  BY Zenon
<1>1. PICK j \in 1 .. src : /\ overrides[k] = interrupt_src_override[j]
                            /\ ~Reserved(interrupt_src_override[j].flags)
  BY Zenon DEF OverridesInv
<1>2. j \in DOMAIN interrupt_src_override
  <2>1. interrupt_src_override \in Seq(MadtEntries) /\ src \in 0 .. Len(interrupt_src_override)
    BY Zenon DEF ArrayInv, OverridesInv
  <2> HIDE DEF MadtEntries
  <2> QED BY <2>1
<1>3. PICK m \in Entries("Override") : interrupt_src_override[j] = madt[m]
  BY <1>2, Zenon DEF ArrayInv
<1>4. m \in DOMAIN madt /\ madt[m].type = "Override"
  BY <1>3, Zenon DEF Entries
<1>5. madt[m] \in MadtEntries
  BY <1>4, TheMadt, Zenon
<1>6. madt[m].irq \in Nat /\ madt[m].gsi \in Nat /\ madt[m].flags \in Nat
  BY <1>4, <1>5 DEF MadtEntries
<1> QED BY <1>1, <1>3, <1>4, <1>6, Zenon DEF Valid

\* Where an interrupt goes and how is what an entry of the table says, or the default.
LEMMA GsiRight ==
  ASSUME madt \in Madts, ArrayInv(interrupt_src_override, "Override", pos), OverridesInv, Least,
         NEW n \in Irqs
  PROVE  /\ Gsi(n) \in Nat
         /\ Over(n) = {} => Gsi(n) = n /\ Flags(n) = 0
         /\ Over(n) # {} => \E o \in Valid :
              o.irq = n /\ Gsi(n) = o.gsi /\ Flags(n) = o.flags
<1>1. Over(n) = {} => Gsi(n) = n /\ Flags(n) = 0
  BY Zenon DEF Gsi, Flags
<1>2. n \in Nat
  BY DEF Irqs
<1>3. ASSUME Over(n) # {}
      PROVE  \E k \in DOMAIN overrides :
               overrides[k].irq = n /\ Gsi(n) = overrides[k].gsi /\ Flags(n) = overrides[k].flags
  <2>1. Over(n) \in SUBSET Nat
    <3>1. overrides \in Seq(MadtEntries)
      BY Zenon DEF OverridesInv
    <3>2. DOMAIN overrides \subseteq Nat
      <4> HIDE DEF MadtEntries
      <4> QED BY <3>1
    <3> QED BY <3>2, Zenon DEF Over
  <2>2. Min(Over(n)) \in Over(n)
    BY <1>3, <2>1, Zenon DEF Least
  <2> QED BY <1>3, <2>2, Zenon DEF Over, Gsi, Flags
<1> QED BY <1>1, <1>2, <1>3, TheOverrides, Zenon

\* The I/O APIC of a number is one of the table that has a pin for it.
LEMMA TargetRight ==
  ASSUME madt \in Madts, ArrayInv(io_apic, "IoApic", pos), Least, NEW g \in Nat, Targets(g) # {}
  PROVE  /\ Target(g) \in IoApicsOf(madt)
         /\ g >= Target(g).gsi_base /\ g < Target(g).gsi_base + Target(g).max
<1>1. Targets(g) \in SUBSET Nat
  <2>1. io_apic \in Seq(MadtEntries)
    BY Zenon DEF ArrayInv
  <2>2. DOMAIN io_apic \subseteq Nat
    <3> HIDE DEF MadtEntries
    <3> QED BY <2>1
  <2> QED BY <2>2, Zenon DEF Targets
<1>2. Min(Targets(g)) \in Targets(g)
  BY <1>1, Zenon DEF Least
<1>3. /\ Min(Targets(g)) \in DOMAIN io_apic
      /\ g >= Target(g).gsi_base /\ g < Target(g).gsi_base + Target(g).max
  BY <1>2, Zenon DEF Targets, Target, Count
<1>4. PICK k \in Entries("IoApic") : Target(g) = madt[k]
  BY <1>3, Zenon DEF ArrayInv, Target
<1> QED BY <1>3, <1>4, Zenon DEF IoApicsOf, Entries

\* The pin that an interrupt without an I/O APIC would have does not exist.
LEMMA NoTarget ==
  ASSUME ParseInv, smi, pc \notin {"parse", "panic"}, NEW a \in IoApicsOf(madt), NEW i \in Nat,
         i < a.max, Ranking
  PROVE  Targets(a.gsi_base + i) # {}
<1>1. madt \in Madts /\ pos = Len(madt) /\ ArrayInv(io_apic, "IoApic", pos)
  BY Zenon DEF ParseInv, Arrays
<1>2. PICK k \in DOMAIN madt : madt[k].type = "IoApic" /\ a = madt[k]
  BY Zenon DEF IoApicsOf
<1>3. k \in Entries("IoApic") /\ k <= pos
  <2>1. k <= Len(madt)
    BY <1>1, <1>2, TheMadt
  <2>2. Enabled(madt[k])
    BY <1>2 DEF Enabled
  <2> QED BY <1>1, <1>2, <2>1, <2>2, Zenon DEF Entries
<1>4. Rank("IoApic", k) \in 1 .. Len(io_apic) /\ io_apic[Rank("IoApic", k)] = a
  BY <1>1, <1>2, <1>3, Zenon DEF ArrayInv
<1>5. Rank("IoApic", k) \in DOMAIN io_apic
  <2>1. io_apic \in Seq(MadtEntries)
    BY <1>1, Zenon DEF ArrayInv
  <2> HIDE DEF MadtEntries
  <2> QED BY <1>4, <2>1
<1>6. a.gsi_base + i >= a.gsi_base /\ a.gsi_base + i < a.gsi_base + a.max
  BY <1>1, TheChips
<1> QED BY <1>4, <1>5, <1>6, Zenon DEF Targets, Count

\* An interrupt that has no pin is left out.
LEMMA SkipInv ==
  ASSUME ParseInv, RouteInv, Ranking, Skip
  PROVE  RouteInv'
<1>1. /\ pc = "irq" /\ pc' = "irq" /\ irq \in Irqs /\ irq' = irq + 1
      /\ Conflict(irq) \/ Targets(Gsi(irq)) = {}
      /\ UNCHANGED <<madt, smi, io_apic, interrupt_src_override, redtbl, overrides, src>>
  BY Zenon DEF Skip, input, settings, isos
<1>2. /\ irq \in 0 .. 16 /\ OverridesInv /\ DOMAIN redtbl = {a.id : a \in IoApicsOf(madt)}
      /\ \A a \in IoApicsOf(madt) : TableInv(a) /\ \A i \in 0 .. a.max : EntryInv(a, i)
  BY <1>1 DEF RouteInv
<1>3. OverridesInv'
  BY <1>1, <1>2, Zenon DEF OverridesInv
<1>4. ASSUME NEW a \in IoApicsOf(madt), NEW i \in 0 .. a.max
      PROVE  EntryInv(a, i)'
  <2>1. EntryInv(a, i) /\ i \in Nat
    BY <1>2
  <2>2. \A n, g : Routed(n, g)' <=> Routed(n, g)
    BY <1>1, SameRouting, Zenon DEF Routed
  <2>3. \A n : Flags(n)' = Flags(n)
    BY <1>1, SameRouting, Zenon
  <2>4. ASSUME smi, i < a.max, NEW n \in Irqs, n < irq', Routed(n, a.gsi_base + i)
        PROVE  ~redtbl[a.id][i].mask
    <3>1. CASE n < irq
      BY <2>1, <2>4, <3>1, Zenon DEF EntryInv
    <3>2. CASE n = irq
      <4>1. Targets(Gsi(irq)) # {}
        BY <1>1, <2>1, <2>4, <3>2, NoTarget, Zenon DEF Routed
      <4> QED BY <1>1, <2>4, <3>2, <4>1, Zenon DEF Routed
    <3> QED BY <1>1, <1>2, <2>4, <3>1, <3>2 DEF Irqs
  <2> QED BY <1>1, <2>1, <2>2, <2>3, <2>4, Zenon DEF EntryInv
<1>5. ASSUME NEW a, TableInv(a) PROVE TableInv(a)'
  BY <1>1, <1>5, Zenon DEF TableInv
<1>6. IoApicsOf(madt)' = IoApicsOf(madt)
  BY <1>1
<1>7. irq' \in 0 .. 16 /\ pc' \notin {"done", "lo", "hi"} /\ pc' \in Settled
  BY <1>1 DEF Irqs, Settled
<1>8. (DOMAIN redtbl)' = {a.id : a \in IoApicsOf(madt)}'
  BY <1>1, <1>2, <1>6, Zenon
<1> QED BY <1>1, <1>2, <1>3, <1>4, <1>5, <1>6, <1>7, <1>8, Zenon DEF RouteInv, InfoInv

\* An interrupt that has one is prepared.
LEMMA MapInv ==
  ASSUME RouteInv, Map
  PROVE  RouteInv'
<1>1. /\ pc = "irq" /\ pc' \in {"lo", "panic"} /\ irq \in Irqs /\ info' = MapInfo(irq)
      /\ ~Conflict(irq) /\ Targets(Gsi(irq)) # {}
      /\ UNCHANGED <<madt, smi, io_apic, interrupt_src_override, redtbl, overrides, src, irq>>
  BY Zenon DEF Map, input, settings, isos
<1>2. /\ "irq" \in Settled /\ pc # "panic" /\ pc' \notin {"parse", "io_apics", "done", "hi"}
      /\ pc' \in Settled \cup {"panic"}
  BY <1>1 DEF Settled
<1>3. InfoInv'
  <2>1. /\ Conflict(irq)' <=> Conflict(irq)
        /\ Gsi(irq)' = Gsi(irq) /\ MapInfo(irq)' = MapInfo(irq)
    BY <1>1, SameRouting, Zenon
  <2>2. Targets(Gsi(irq))' = Targets(Gsi(irq))
    BY <1>1, <2>1 DEF Targets, Count
  <2> QED BY <1>1, <1>2, <2>1, <2>2, Zenon DEF InfoInv
<1>4. src = Len(interrupt_src_override)
  BY <1>1, <1>2, Zenon DEF RouteInv, OverridesInv
<1> QED BY <1>1, <1>2, <1>3, <1>4, RouteFrame

\* The entry being written is one of a table, at a pin that is looked at.
LEMMA InfoRight ==
  ASSUME madt \in Madts, Arrays, OverridesInv, Least, InfoInv, pc \in {"lo", "hi"}
  PROVE  /\ irq \in Irqs /\ ~Conflict(irq) /\ info.entry = MapInfo(irq).entry
         /\ \E t \in IoApicsOf(madt) :
              /\ info.id = t.id /\ info.index \in 0 .. t.max /\ info.index < t.max
              /\ t.gsi_base + info.index = Gsi(irq)
<1> DEFINE t == Target(Gsi(irq))
<1>1. /\ irq \in Irqs /\ ~Conflict(irq) /\ Targets(Gsi(irq)) # {}
      /\ info = MapInfo(irq)
  BY Zenon DEF InfoInv
<1>2. Gsi(irq) \in Nat
  BY <1>1, GsiRight, Zenon DEF Arrays
<1>3. /\ t \in IoApicsOf(madt) /\ Gsi(irq) >= t.gsi_base /\ Gsi(irq) < t.gsi_base + t.max
  BY <1>1, <1>2, TargetRight, Zenon DEF Arrays
<1>4. info.id = t.id /\ info.index = Gsi(irq) - t.gsi_base
  BY <1>1 DEF MapInfo
<1> HIDE DEF t
<1>5. t.gsi_base \in Nat /\ t.max \in Nat
  BY <1>3, TheChips, Zenon
<1> QED BY <1>1, <1>2, <1>3, <1>4, <1>5

\* A write to one entry of one table changes that entry.
LEMMA OneEntry ==
  ASSUME madt \in Madts, DOMAIN redtbl = {a.id : a \in IoApicsOf(madt)},
         \A a \in IoApicsOf(madt) : TableInv(a),
         NEW t \in IoApicsOf(madt), NEW x \in 0 .. t.max, NEW v,
         redtbl' = [redtbl EXCEPT ![t.id][x] = v]
  PROVE  /\ DOMAIN redtbl' = DOMAIN redtbl
         /\ \A a \in IoApicsOf(madt) :
              /\ a.id \in DOMAIN redtbl' /\ DOMAIN redtbl'[a.id] = 0 .. a.max
              /\ \A i \in 0 .. a.max :
                   redtbl'[a.id][i] = IF a = t /\ i = x THEN v ELSE redtbl[a.id][i]
<1>1. DOMAIN redtbl' = DOMAIN redtbl
  BY Zenon
<1>2. ASSUME NEW a \in IoApicsOf(madt)
      PROVE  /\ a.id \in DOMAIN redtbl' /\ DOMAIN redtbl'[a.id] = 0 .. a.max
             /\ \A i \in 0 .. a.max :
                  redtbl'[a.id][i] = IF a = t /\ i = x THEN v ELSE redtbl[a.id][i]
  <2>1. a.id \in DOMAIN redtbl /\ DOMAIN redtbl[a.id] = 0 .. a.max
    BY Zenon DEF TableInv
  <2>2. a.id = t.id => a = t
    BY TheChips, Zenon
  <2>3. CASE a = t
    <3>1. redtbl'[a.id] = [redtbl[a.id] EXCEPT ![x] = v]
      BY <2>1, <2>3
    <3> QED BY <1>1, <2>1, <2>3, <3>1, Zenon
  <2>4. CASE a # t
    <3>1. redtbl'[a.id] = redtbl[a.id]
      BY <2>1, <2>2, <2>4
    <3> QED BY <1>1, <2>1, <2>4, <3>1, Zenon
  <2> QED BY <2>3, <2>4
<1> QED BY <1>1, <1>2

\* The lower half of an entry unmasks it, the upper half has its destination.
LEMMA WriteInv ==
  ASSUME ParseInv, RouteInv, Least, WriteLo \/ WriteHi
  PROVE  RouteInv'
<1> DEFINE old == redtbl[info.id][info.index]
           v == IF pc = "lo" THEN [info.entry EXCEPT !.dest = old.dest]
                             ELSE [old EXCEPT !.dest = info.entry.dest]
<1>1. /\ pc \in {"lo", "hi"} /\ redtbl' = [redtbl EXCEPT ![info.id][info.index] = v]
      /\ UNCHANGED <<madt, smi, io_apic, interrupt_src_override, overrides, src, info>>
      /\ IF pc = "lo" THEN pc' = "hi" /\ irq' = irq ELSE pc' = "irq" /\ irq' = irq + 1
  <2>1. CASE WriteLo
    BY <2>1 DEF WriteLo, input, settings, isos
  <2>2. CASE WriteHi
    BY <2>2 DEF WriteHi, input, settings, isos
  <2> QED BY <2>1, <2>2
<1>2. /\ madt \in Madts /\ Arrays /\ OverridesInv /\ InfoInv /\ pc \in Settled /\ pc' \in Settled
      /\ irq \in 0 .. 16 /\ DOMAIN redtbl = {a.id : a \in IoApicsOf(madt)}
      /\ \A a \in IoApicsOf(madt) : TableInv(a) /\ \A i \in 0 .. a.max : EntryInv(a, i)
  <2>1. pc # "panic" /\ pc \in Settled /\ pc' \in Settled
    BY <1>1 DEF Settled
  <2> QED BY <2>1, Zenon DEF RouteInv, ParseInv
<1>3. irq \in Irqs /\ ~Conflict(irq) /\ info.entry = MapInfo(irq).entry
  BY <1>1, <1>2, InfoRight, Zenon
<1>4. PICK t \in IoApicsOf(madt) :
        /\ info.id = t.id /\ info.index \in 0 .. t.max /\ info.index < t.max
        /\ t.gsi_base + info.index = Gsi(irq)
  BY <1>1, <1>2, InfoRight, Zenon
<1>5. /\ info.entry \in TableEntry /\ ~info.entry.mask /\ info.entry.vector = 32 + irq
      /\ info.entry.level = (TriggerMode(Flags(irq)) = 3)
      /\ info.entry.low = (Polarity(Flags(irq)) = 3) /\ info.entry.dest \in Nat
  <2>1. OwnId \in Nat
    BY ProcessorsAssumption DEF OwnId
  <2> QED BY <1>3, <2>1 DEF MapInfo, bsp_lapic_id, TableEntry, Irqs
<1>6. old \in TableEntry /\ EntryInv(t, info.index) /\ (pc = "hi" => ~old.mask)
  BY <1>1, <1>2, <1>4, Zenon DEF TableInv, InfoInv
<1>7. v \in TableEntry /\ ~v.mask
  BY <1>1, <1>5, <1>6, Zenon DEF TableEntry
<1>8. \E n \in Irqs : /\ Routed(n, t.gsi_base + info.index) /\ v.vector = 32 + n
                            /\ v.level = (TriggerMode(Flags(n)) = 3)
                            /\ v.low = (Polarity(Flags(n)) = 3)
  <2>1. CASE pc = "lo"
    <3>1. v.vector = info.entry.vector /\ v.level = info.entry.level /\ v.low = info.entry.low
      BY <1>5, <2>1 DEF TableEntry
    <3> HIDE DEF v
    <3> QED BY <1>3, <1>4, <1>5, <3>1, Zenon DEF Routed
  <2>2. CASE pc = "hi"
    <3>1. v.vector = old.vector /\ v.level = old.level /\ v.low = old.low
      BY <1>6, <2>2 DEF TableEntry
    <3>2. old = redtbl[t.id][info.index] /\ ~redtbl[t.id][info.index].mask
      BY <1>4, <1>6, <2>2, Zenon
    <3>3. \E n \in Irqs : /\ Routed(n, t.gsi_base + info.index)
                                /\ redtbl[t.id][info.index].vector = 32 + n
                                /\ redtbl[t.id][info.index].level = (TriggerMode(Flags(n)) = 3)
                                /\ redtbl[t.id][info.index].low = (Polarity(Flags(n)) = 3)
      BY <1>6, <3>2, Zenon DEF EntryInv
    <3> HIDE DEF v, old
    <3> QED BY <3>1, <3>2, <3>3, Zenon
  <2> QED BY <1>1, <2>1, <2>2, Zenon
<1> HIDE DEF v, old
<1>9. /\ DOMAIN redtbl' = DOMAIN redtbl
      /\ \A a \in IoApicsOf(madt) :
           /\ a.id \in DOMAIN redtbl' /\ DOMAIN redtbl'[a.id] = 0 .. a.max
           /\ \A i \in 0 .. a.max :
                redtbl'[a.id][i] = IF a = t /\ i = info.index THEN v ELSE redtbl[a.id][i]
  <2>1. redtbl' = [redtbl EXCEPT ![t.id][info.index] = v] /\ info.index \in 0 .. t.max
    BY <1>1, <1>4, Zenon
  <2>2. \A a \in IoApicsOf(madt) : TableInv(a)
    BY <1>2, Zenon
  <2>3. madt \in Madts /\ DOMAIN redtbl = {a.id : a \in IoApicsOf(madt)}
    BY <1>2, Zenon
  <2> QED BY <2>1, <2>2, <2>3, OneEntry, ZenonT(60)
<1>10. ASSUME NEW a \in IoApicsOf(madt)
       PROVE  TableInv(a)'
  <2>1. ASSUME NEW i \in 0 .. a.max
        PROVE  redtbl'[a.id][i] \in TableEntry
    <3>1. redtbl[a.id][i] \in TableEntry
      BY <1>2, Zenon DEF TableInv
    <3>2. redtbl'[a.id][i] = v \/ redtbl'[a.id][i] = redtbl[a.id][i]
      BY <1>9, Zenon
    <3> QED BY <1>7, <3>1, <3>2, Zenon
  <2> QED BY <1>9, <2>1, Zenon DEF TableInv
<1>11. ASSUME NEW a \in IoApicsOf(madt), NEW i \in 0 .. a.max
       PROVE  EntryInv(a, i)'
  <2>1. \A n, g : Routed(n, g)' <=> Routed(n, g)
    BY <1>1, SameRouting, Zenon DEF Routed
  <2>2. \A n : Flags(n)' = Flags(n)
    BY <1>1, SameRouting, Zenon
  <2>3. EntryInv(a, i) /\ i \in Nat
    BY <1>2, SMTT(60)
  <2>4. ~redtbl'[a.id][i].mask => \E n \in Irqs :
          /\ Routed(n, a.gsi_base + i) /\ redtbl'[a.id][i].vector = 32 + n
          /\ redtbl'[a.id][i].level = (TriggerMode(Flags(n)) = 3)
          /\ redtbl'[a.id][i].low = (Polarity(Flags(n)) = 3)
    <3>1. CASE a = t /\ i = info.index
      BY <1>8, <1>9, <3>1, Zenon
    <3>2. CASE ~(a = t /\ i = info.index)
      BY <1>9, <2>3, <3>2, ZenonT(60) DEF EntryInv
    <3> QED BY <3>1, <3>2
  <2>5. ASSUME smi, i < a.max, NEW n \in Irqs, n < irq', Routed(n, a.gsi_base + i)
        PROVE  ~redtbl'[a.id][i].mask
    <3>1. CASE n < irq
      <4>1. ~redtbl[a.id][i].mask
        BY <2>3, <2>5, <3>1, Zenon DEF EntryInv
      <4> QED BY <1>7, <1>9, <4>1, Zenon
    <3>2. CASE n = irq
      <4>1. a.gsi_base + i = t.gsi_base + info.index
        BY <1>4, <2>5, <3>2, Zenon DEF Routed
      <4>2. a = t
        BY <1>2, <1>4, <2>3, <2>5, <4>1, TheChips, SMTT(60)
      <4>3. i = info.index
        BY <1>2, <1>4, <4>1, <4>2, TheChips
      <4> QED BY <1>7, <1>9, <4>2, <4>3, Zenon
    <3> QED BY <1>1, <1>2, <2>5, <3>1, <3>2 DEF Irqs
  <2>6. ~redtbl'[a.id][i].mask => pc' \in Settled /\ \E n \in Irqs :
          /\ Routed(n, a.gsi_base + i)' /\ redtbl'[a.id][i].vector = 32 + n
          /\ redtbl'[a.id][i].level = (TriggerMode(Flags(n)') = 3)
          /\ redtbl'[a.id][i].low = (Polarity(Flags(n)') = 3)
    BY <1>2, <2>1, <2>2, <2>4, Zenon
  <2>7. smi' /\ i < a.max =>
          \A n \in Irqs : n < irq' /\ Routed(n, a.gsi_base + i)' => ~redtbl'[a.id][i].mask
    BY <1>1, <2>1, <2>5, Zenon
  <2> QED BY <2>6, <2>7, Zenon DEF EntryInv
<1>12. InfoInv'
  <2>1. /\ Conflict(irq)' <=> Conflict(irq')
        /\ MapInfo(irq)' = MapInfo(irq')
        /\ Targets(Gsi(irq))' = Targets(Gsi(irq'))
    BY <1>1, SameRouting, Zenon
  <2>2. CASE pc = "hi"
    <3>1. pc' \notin {"lo", "hi"}
      BY <1>1, <2>2
    <3> QED BY <3>1, Zenon DEF InfoInv
  <2>3. CASE pc = "lo"
    <3>1. irq' = irq /\ info' = info /\ pc' = "hi"
      BY <1>1, <2>3, Zenon
    <3>2. redtbl'[info.id][info.index] = v
      BY <1>4, <1>9, Zenon
    <3>3. /\ irq \in Irqs /\ ~Conflict(irq) /\ Targets(Gsi(irq)) # {}
          /\ info = MapInfo(irq)
      BY <1>2, <2>3, Zenon DEF InfoInv
    <3>4. irq' \in Irqs /\ info' = MapInfo(irq)'
      BY <2>1, <3>1, <3>3, Zenon
    <3>7. ~Conflict(irq)'
      BY <2>1, <3>1, <3>3
    <3>5. Targets(Gsi(irq))' # {}
      BY <2>1, <3>1, <3>3, Zenon
    <3>6. ~redtbl'[info'.id][info'.index].mask
      BY <1>7, <3>1, <3>2, Zenon
    <3> QED BY <3>4, <3>5, <3>6, <3>7, Zenon DEF InfoInv
  <2> QED BY <1>1, <2>2, <2>3
<1>13. OverridesInv'
  BY <1>1, <1>2, Zenon DEF OverridesInv
<1>14. irq' \in 0 .. 16 /\ pc' # "done"
  BY <1>1, <1>2, <1>3 DEF Irqs
<1>15. /\ IoApicsOf(madt)' = IoApicsOf(madt)
       /\ (DOMAIN redtbl)' = {a.id : a \in IoApicsOf(madt)}'
  BY <1>1, <1>2, <1>9, Zenon
<1> QED BY <1>2, <1>10, <1>11, <1>12, <1>13, <1>14, <1>15, Zenon DEF RouteInv

\* Every step of setup_io_apic.
LEMMA RouteStep ==
  ASSUME Ranking, Least, TabInv, Route
  PROVE  TabInv'
<1>1. ParseInv /\ RouteInv /\ IdsInv /\ ParseInv' /\ IdsInv'
  BY RouteRest, Zenon DEF TabInv
<1>2. CASE PushIoApics \/ OverridesDone \/ RouteDone
  BY <1>1, <1>2, RouteStages, Zenon DEF TabInv
<1>3. CASE PushOverride
  <2>1. pc # "panic"
    BY <1>3, Zenon DEF PushOverride
  <2>2. ArrayInv(interrupt_src_override, "Override", pos)
    BY <1>1, <2>1, Zenon DEF ParseInv, Arrays
  <2> QED BY <1>1, <1>3, <2>2, PushOverrideInv, Zenon DEF TabInv
<1>4. CASE Skip
  BY <1>1, <1>4, SkipInv, Zenon DEF TabInv
<1>5. CASE Map
  BY <1>1, <1>5, MapInv, Zenon DEF TabInv
<1>6. CASE WriteLo \/ WriteHi
  BY <1>1, <1>6, WriteInv, Zenon DEF TabInv
<1> QED BY <1>1, <1>2, <1>3, <1>4, <1>5, <1>6, Zenon DEF Route

-------------------------------------------------------------------------------
(***************************************************************************)
(* What the invariant says.                                                 *)
(***************************************************************************)
\* Once the table is parsed, the arrays have all of it.
LEMMA NothingLostFromInv ==
  ASSUME ParseInv, Ranking
  PROVE  NothingLost
<1> DEFINE Right(type) ==
      /\ Len(ArrayOf(type)) = Cardinality(Entries(type))
      /\ \A k \in Entries(type) : ArrayOf(type)[Rank(type, k)] = madt[k]
<1> SUFFICES ASSUME pc \notin {"parse", "panic"}, smi, NEW type \in {"LocalApic", "IoApic", "Override"}
             PROVE  Right(type)
  BY Zenon DEF NothingLost, Rank
<1>1. madt \in Madts /\ pos = Len(madt) /\ Arrays
  BY Zenon DEF ParseInv
<1>2. ArrayInv(ArrayOf(type), type, pos)
  BY <1>1, Zenon DEF Arrays, ArrayOf
<1>3. \A k \in Entries(type) : k <= pos
  BY <1>1, TheMadt DEF Entries
<1>4. Rank(type, pos) = Cardinality(Entries(type))
  BY <1>1, Zenon DEF Ranking
<1> QED BY <1>2, <1>3, <1>4, Zenon DEF ArrayInv

\* All valid overrides of the table are in SRC_OVERRIDES, each for an interrupt of its own.
LEMMA AllOverrides ==
  ASSUME ParseInv, OverridesInv, Ranking, smi, pc \in Settled
  PROVE  /\ \A o \in Valid : \E k \in DOMAIN overrides : overrides[k] = o
         /\ \A o, v \in Valid : o.irq = v.irq => o = v
<1>1. pc \notin {"parse", "panic"}
  BY DEF Settled
<1>2. madt \in Madts /\ pos = Len(madt) /\ ArrayInv(interrupt_src_override, "Override", pos)
  BY <1>1, Zenon DEF ParseInv, Arrays
<1>3. ASSUME NEW o \in Valid
      PROVE  \E k \in DOMAIN overrides : overrides[k] = o
  <2>1. PICK k \in DOMAIN madt : madt[k] = o /\ o.type = "Override" /\ ~Reserved(o.flags)
    BY Zenon DEF Valid
  <2>2. k \in Entries("Override") /\ k <= pos
    <3>1. k <= Len(madt)
      BY <1>2, TheMadt
    <3>2. Enabled(madt[k])
      BY <2>1 DEF Enabled
    <3> QED BY <1>2, <2>1, <3>1, <3>2, Zenon DEF Entries
  <2>3. /\ Rank("Override", k) \in 1 .. Len(interrupt_src_override)
        /\ interrupt_src_override[Rank("Override", k)] = o
    BY <1>2, <2>1, <2>2, Zenon DEF ArrayInv
  <2>4. src = Len(interrupt_src_override)
    BY Zenon DEF OverridesInv
  <2> QED BY <2>1, <2>3, <2>4, ZenonT(60) DEF OverridesInv
<1>4. ASSUME NEW o \in Valid, NEW v \in Valid, o.irq = v.irq
      PROVE  o = v
  <2>1. PICK j \in DOMAIN madt : madt[j] = o /\ o.type = "Override"
    BY Zenon DEF Valid
  <2>2. PICK k \in DOMAIN madt : madt[k] = v /\ v.type = "Override"
    BY Zenon DEF Valid
  <2>3. j # k => Apart(o, v)
    BY <1>2, <2>1, <2>2, TheMadt, Zenon
  <2> QED BY <1>4, <2>1, <2>2, <2>3, Zenon DEF Apart
<1> QED BY <1>3, <1>4, Zenon

\* An interrupt goes to a pin just when the MADT says so.
LEMMA RoutedRight ==
  ASSUME ParseInv, OverridesInv, Ranking, Least, smi, pc \in Settled, NEW n \in Irqs, NEW g
  PROVE  /\ Routed(n, g) => n \in IrqsAt(g) /\ Flags(n) \in FlagsAt(g)
         /\ n \in IrqsAt(g) => Routed(n, g)
<1>1. madt \in Madts /\ ArrayInv(interrupt_src_override, "Override", pos)
  <2>1. pc # "panic"
    BY DEF Settled
  <2> QED BY <2>1, Zenon DEF ParseInv, Arrays
<1>2. \A k \in DOMAIN overrides : overrides[k] \in Valid
  BY <1>1, TheOverrides, Zenon
<1>3. /\ Over(n) = {} => Gsi(n) = n /\ Flags(n) = 0
      /\ Over(n) # {} => \E o \in Valid :
           o.irq = n /\ Gsi(n) = o.gsi /\ Flags(n) = o.flags
  BY <1>1, GsiRight, Zenon
<1>4. /\ \A o \in Valid : \E k \in DOMAIN overrides : overrides[k] = o
      /\ \A o, v \in Valid : o.irq = v.irq => o = v
  BY AllOverrides, Zenon
<1>5. ASSUME Routed(n, g), Over(n) = {}
      PROVE  n \in IrqsAt(g) /\ Flags(n) \in FlagsAt(g)
  <2>1. n = g /\ ~\E k \in DOMAIN overrides : overrides[k].gsi = n
    BY <1>3, <1>5, Zenon DEF Routed, Conflict
  <2>2. \A o \in Valid : o.irq # n /\ o.gsi # g
    BY <1>4, <1>5, <2>1, Zenon DEF Over
  <2>3. n \in IrqsAt(g)
    BY <2>1, <2>2, Zenon DEF IrqsAt
  <2>4. Flags(n) \in FlagsAt(g)
    BY <1>3, <1>5, <2>2, Zenon DEF FlagsAt
  <2> QED BY <2>3, <2>4
<1>6. ASSUME Routed(n, g), Over(n) # {}
      PROVE  n \in IrqsAt(g) /\ Flags(n) \in FlagsAt(g)
  <2>1. PICK o \in Valid : o.irq = n /\ g = o.gsi /\ Flags(n) = o.flags
    BY <1>3, <1>6, Zenon DEF Routed
  <2>2. n \in IrqsAt(g)
    BY <2>1, Zenon DEF IrqsAt
  <2>3. Flags(n) \in FlagsAt(g)
    BY <2>1, Zenon DEF FlagsAt
  <2> QED BY <2>2, <2>3
<1>7. ASSUME NEW o \in Valid, o.irq = n, o.gsi = g
      PROVE  Routed(n, g)
  <2>1. Over(n) # {}
    BY <1>4, <1>7, Zenon DEF Over
  <2> QED BY <1>3, <1>4, <1>7, <2>1, Zenon DEF Routed, Conflict
<1>8. ASSUME n = g, \A o \in Valid : o.irq # n /\ o.gsi # g
      PROVE  Routed(n, g)
  <2>1. Over(n) = {}
    BY <1>2, <1>8, Zenon DEF Over
  <2> QED BY <1>2, <1>3, <1>8, <2>1, Zenon DEF Routed, Conflict
<1> QED BY <1>5, <1>6, <1>7, <1>8, Zenon DEF IrqsAt

\* At the end the tables say what the MADT says.
LEMMA RoutedFromInv ==
  ASSUME ParseInv, RouteInv, Ranking, Least
  PROVE  RoutedAsMadt
<1> SUFFICES ASSUME pc = "done", smi, NEW a \in IoApicsOf(madt), NEW i \in DOMAIN redtbl[a.id]
             PROVE  LET e == redtbl[a.id][i]
                        g == a.gsi_base + i
                    IN  /\ ~e.mask => /\ e.vector - 32 \in IrqsAt(g)
                                      /\ \E f \in FlagsAt(g) : /\ e.level = (TriggerMode(f) = 3)
                                                                     /\ e.low = (Polarity(f) = 3)
                        /\ i < Count(a) /\ IrqsAt(g) # {} => ~e.mask
  BY Zenon DEF RoutedAsMadt
<1> DEFINE e == redtbl[a.id][i]
           g == a.gsi_base + i
<1>1. pc \in Settled /\ pc # "panic"
  BY DEF Settled
<1>2. i \in 0 .. a.max /\ EntryInv(a, i) /\ OverridesInv /\ irq = 16
  BY <1>1, Zenon DEF RouteInv, TableInv
<1>3. ASSUME ~e.mask
      PROVE  /\ e.vector - 32 \in IrqsAt(g)
             /\ \E f \in FlagsAt(g) : /\ e.level = (TriggerMode(f) = 3)
                                            /\ e.low = (Polarity(f) = 3)
  <2>1. PICK n \in Irqs : /\ Routed(n, g) /\ e.vector = 32 + n
                                /\ e.level = (TriggerMode(Flags(n)) = 3)
                                /\ e.low = (Polarity(Flags(n)) = 3)
    BY <1>2, <1>3, Zenon DEF EntryInv
  <2>2. e.vector - 32 = n
    BY <2>1 DEF Irqs
  <2>3. n \in IrqsAt(g) /\ Flags(n) \in FlagsAt(g)
    BY <1>1, <1>2, <2>1, RoutedRight, Zenon
  <2> QED BY <2>1, <2>2, <2>3, Zenon
<1>4. ASSUME i < Count(a), IrqsAt(g) # {}
      PROVE  ~e.mask
  <2>1. PICK n \in Irqs : n \in IrqsAt(g)
    BY <1>4, Zenon DEF IrqsAt
  <2>2. Routed(n, g)
    BY <1>1, <1>2, <2>1, RoutedRight, Zenon
  <2>3. n < irq
    BY <1>2 DEF Irqs
  <2> QED BY <1>2, <1>4, <2>2, <2>3, Zenon DEF EntryInv, Count
<1> QED BY <1>3, <1>4, Zenon

-------------------------------------------------------------------------------
(***************************************************************************)
(* The destinations.                                                        *)
(***************************************************************************)
\* A step that writes no entry and does not end the write of one.
LEMMA SentSame ==
  ASSUME SentInv, UNCHANGED <<madt, redtbl>>, pc # "hi" \/ UNCHANGED <<pc, info>>
  PROVE  SentInv'
<1>1. IoApicsOf(madt)' = IoApicsOf(madt)
  BY DEF IoApicsOf
<1>2. \A a, i : UnderWrite(a, i) => UnderWrite(a, i)'
  BY Zenon DEF UnderWrite
<1> QED BY <1>1, <1>2, OwnFixed, ZenonT(60) DEF SentInv

\* The entry whose lower half is written keeps its destination, and is the one under
\* write; the upper half makes that the BSP.
LEMMA SentWrite ==
  ASSUME ParseInv, RouteInv, Least, SentInv, WriteLo \/ WriteHi
  PROVE  SentInv'
<1> DEFINE old == redtbl[info.id][info.index]
           v == IF pc = "lo" THEN [info.entry EXCEPT !.dest = old.dest]
                             ELSE [old EXCEPT !.dest = info.entry.dest]
<1>1. /\ pc \in {"lo", "hi"} /\ redtbl' = [redtbl EXCEPT ![info.id][info.index] = v]
      /\ UNCHANGED <<madt, info>> /\ (pc = "lo" => pc' = "hi") /\ pc # "panic"
  <2>1. CASE WriteLo
    BY <2>1 DEF WriteLo, input
  <2>2. CASE WriteHi
    BY <2>2 DEF WriteHi, input
  <2> QED BY <2>1, <2>2
<1>2. /\ madt \in Madts /\ Arrays /\ OverridesInv /\ InfoInv
      /\ DOMAIN redtbl = {a.id : a \in IoApicsOf(madt)}
      /\ \A a \in IoApicsOf(madt) : TableInv(a)
  BY <1>1, Zenon DEF RouteInv, ParseInv
<1>3. info.entry = MapInfo(irq).entry
  BY <1>1, <1>2, InfoRight, Zenon
<1>4. PICK t \in IoApicsOf(madt) : info.id = t.id /\ info.index \in 0 .. t.max
  BY <1>1, <1>2, InfoRight, Zenon
<1>5. /\ info.entry.dest = OwnId
      /\ info.entry = [mask |-> FALSE, vector |-> 32 + irq, level |-> TriggerMode(Flags(irq)) = 3,
                       low |-> Polarity(Flags(irq)) = 3, dest |-> OwnId]
  BY <1>3 DEF MapInfo, bsp_lapic_id
<1>6. old \in TableEntry /\ (old.dest = OwnId \/ old.dest = ResetDest)
  BY <1>2, <1>4, Zenon DEF TableInv, SentInv
<1>7. IF pc = "lo" THEN v.dest = old.dest ELSE v.dest = OwnId
  BY <1>5, <1>6 DEF TableEntry
<1> HIDE DEF v, old
<1>8. \A a \in IoApicsOf(madt) : \A i \in 0 .. a.max :
        redtbl'[a.id][i] = IF a = t /\ i = info.index THEN v ELSE redtbl[a.id][i]
  <2>1. redtbl' = [redtbl EXCEPT ![t.id][info.index] = v] /\ info.index \in 0 .. t.max
    BY <1>1, <1>4, Zenon
  <2>2. madt \in Madts /\ DOMAIN redtbl = {a.id : a \in IoApicsOf(madt)}
    BY <1>2, Zenon
  <2>3. \A a \in IoApicsOf(madt) : TableInv(a)
    BY <1>2, Zenon
  <2> QED BY <2>1, <2>2, <2>3, OneEntry, ZenonT(60)
<1>9. ASSUME NEW a \in IoApicsOf(madt), NEW i \in 0 .. a.max
      PROVE  \/ redtbl'[a.id][i].dest = OwnId
             \/ redtbl'[a.id][i].dest = ResetDest /\ (redtbl'[a.id][i].mask \/ UnderWrite(a.id, i)')
  <2>1. CASE a = t /\ i = info.index
    <3>1. redtbl'[a.id][i] = v
      BY <1>8, <2>1, Zenon
    <3>2. pc = "lo" => UnderWrite(a.id, i)'
      BY <1>1, <1>4, <2>1, Zenon DEF UnderWrite
    <3> QED BY <1>6, <1>7, <3>1, <3>2, Zenon
  <2>2. CASE ~(a = t /\ i = info.index)
    <3>1. redtbl'[a.id][i] = redtbl[a.id][i]
      BY <1>8, <2>2, Zenon
    <3>2. ~UnderWrite(a.id, i)
      BY <1>2, <1>4, <2>2, TheChips, Zenon DEF UnderWrite
    <3> QED BY <3>1, <3>2, Zenon DEF SentInv
  <2> QED BY <2>1, <2>2
<1>10. IoApicsOf(madt)' = IoApicsOf(madt)
  BY <1>1 DEF IoApicsOf
<1> QED BY <1>9, <1>10, OwnFixed, Zenon DEF SentInv

\* Every step of setup_io_apic.
LEMMA SentStep ==
  ASSUME ParseInv, RouteInv, Least, SentInv, Route
  PROVE  SentInv'
<1>1. CASE WriteLo \/ WriteHi
  BY <1>1, SentWrite
<1>2. CASE PushIoApics \/ PushOverride \/ OverridesDone \/ Skip \/ Map \/ RouteDone
  <2>1. pc # "hi" /\ UNCHANGED <<madt, redtbl>>
    BY <1>2 DEF PushIoApics, PushOverride, OverridesDone, Skip, Map, RouteDone, input
  <2> QED BY <2>1, SentSame
<1> QED BY <1>1, <1>2, Zenon DEF Route

\* A BSP that knows its own id puts that into the entries.
LEMMA SentFromInv ==
  ASSUME RouteInv, SentInv, OwnId = BspId
  PROVE  SentToBsp
<1>1. ASSUME NEW x \in DOMAIN redtbl, NEW i \in DOMAIN redtbl[x], ~redtbl[x][i].mask
      PROVE  redtbl[x][i].dest = BspId \/ (UnderWrite(x, i) /\ redtbl[x][i].dest = ResetDest)
  <2>1. PICK a \in IoApicsOf(madt) : a.id = x
    BY Zenon DEF RouteInv
  <2>2. i \in 0 .. a.max
    BY <2>1, Zenon DEF RouteInv, TableInv
  <2> QED BY <1>1, <2>1, <2>2, Zenon DEF SentInv
<1> QED BY <1>1, Zenon DEF SentToBsp

-------------------------------------------------------------------------------
(***************************************************************************)
(* The tables and the processors together.                                  *)
(***************************************************************************)
\* The processors are started once the table is parsed; an entry is unmasked once the BSP
\* has its IDT.
IInv ==
  /\ TabInv
  /\ SentInv
  /\ SmpInv
  /\ pc = "parse" => StartInit
  /\ Unmasked => 0 \in idts

-------------------------------------------------------------------------------
(***************************************************************************)
(* The steps of both.                                                       *)
(***************************************************************************)
\* The list of the boot loader names different processors of the machine.
LEMMA Given ==
  ASSUME TabInv
  PROVE  Lapics
<1>1. IdsInv
  BY Zenon DEF TabInv
<1>2. Len(local_apic) \in Nat /\ DOMAIN local_apic = 1 .. Len(local_apic)
  <2>1. local_apic \in Seq(MadtEntries)
    BY <1>1, Zenon DEF IdsInv
  <2> QED BY <2>1
<1>3. DOMAIN lapics = DOMAIN local_apic /\ \A k \in DOMAIN local_apic : lapics[k] = local_apic[k].id
  BY Zenon DEF lapics
<1>4. lapics \in Seq(CPUs)
  <2>1. \A k \in DOMAIN local_apic : local_apic[k].id \in CPUs
    BY <1>1, Zenon DEF IdsInv
  <2> QED BY <1>2, <2>1 DEF lapics
<1>5. DOMAIN lapics = 1 .. Len(lapics) /\ Len(lapics) \in Nat
  BY <1>4
<1> QED BY <1>1, <1>3, <1>5, Zenon DEF IdsInv, Lapics

\* What holds of the start holds of it after a step of the loader.
LEMMA InitPrimed == (StartInit => SmpInv)'
<1>1. StartInit => SmpInv
  BY SmpInitInv, Zenon
<1> QED BY <1>1, PTL

\* Nothing has run at the start.
LEMMA InitInv ==
  ASSUME Ranking, Init
  PROVE  IInv
BY SmpInitInv, TablesInitInv, Zenon DEF Init, IInv

\* The boot loader changes the arrays before anybody uses them.
LEMMA LoaderInv ==
  ASSUME Ranking, IInv, Loader
  PROVE  IInv'
<1>1. Parse /\ UNCHANGED starting /\ TabInv /\ TabInv'
  BY ParseStep, Zenon DEF Loader, IInv
<1>2. pc = "parse" /\ redtbl' = redtbl
  BY <1>1, Zenon DEF Parse, NoSmi, ParseEntry, ParseDone
<1>3. StartInit'
  BY <1>1, <1>2, Zenon DEF IInv, starting, StartInit, Nothing, Cells
<1>4. (Unmasked => 0 \in idts)'
  BY <1>1, <1>2, Zenon DEF IInv, Unmasked, starting
<1>5. SentInv'
  <2>1. UNCHANGED <<madt, redtbl>> /\ pc # "hi"
    BY <1>1 DEF Parse, NoSmi, ParseEntry, ParseDone, input
  <2> QED BY <2>1, SentSame, Zenon DEF IInv
<1> QED BY <1>1, <1>3, <1>4, <1>5, InitPrimed, Zenon DEF IInv

\* The start of the processors leaves the tables alone.
LEMMA StartInv ==
  ASSUME Counting, IInv, Start \/ \E c \in CPUs : ReceiveIpi(c) \/ RunAp(c)
  PROVE  IInv'
<1>1. /\ UNCHANGED routing
      /\ Bsp \/ \E c \in CPUs : Receive(c) \/ (c # BspId /\ Ap(c))
  BY Zenon DEF Start, ReceiveIpi, RunAp
<1>2. TabInv' /\ SentInv' /\ pc' = pc /\ redtbl' = redtbl
  BY <1>1, TableSame, SentSame, Zenon DEF IInv, routing
<1>3. SmpInv'
  BY <1>1, Given, NextInv, Zenon DEF IInv
<1>4. pc # "parse"
  BY NobodyElse, Zenon DEF IInv, Start, ReceiveIpi, RunAp
<1>5. (Unmasked => 0 \in idts)'
  BY <1>1, <1>2, IdtsGrow, Zenon DEF IInv, Unmasked
<1> QED BY <1>2, <1>3, <1>4, <1>5, Zenon DEF IInv

\* setup_io_apic runs when the BSP has its IDT.
LEMMA SetupInv ==
  ASSUME Ranking, Least, IInv, SetupIoApic
  PROVE  IInv'
<1>1. Route /\ UNCHANGED starting /\ TabInv' /\ SentInv'
  BY RouteStep, SentStep, Zenon DEF SetupIoApic, IInv, TabInv
<1>2. pc' # "parse" /\ local_apic' = local_apic
  BY <1>1, Zenon DEF Route, PushIoApics, PushOverride, OverridesDone, Skip, Map, WriteLo, WriteHi,
                     RouteDone, settings
<1>3. SmpInv'
  BY <1>1, <1>2, SmpSame, Zenon DEF IInv, lapics
<1>4. 0 \in idts'
  BY <1>1, BspHasIdt, Zenon DEF SetupIoApic, IInv, starting
<1> QED BY <1>1, <1>2, <1>3, <1>4, Zenon DEF IInv

\* A step of nothing.
LEMMA NoStepInv ==
  ASSUME IInv, UNCHANGED vars
  PROVE  IInv'
<1>1. UNCHANGED routing /\ UNCHANGED starting /\ UNCHANGED lapics
  BY Zenon DEF vars, routing, lapics
<1>2. TabInv' /\ SentInv' /\ SmpInv' /\ pc' = pc /\ redtbl' = redtbl /\ idts' = idts
  BY <1>1, SmpSame, TableSame, SentSame, Zenon DEF IInv, routing, starting
<1>3. (pc = "parse" => StartInit)'
  BY <1>1, <1>2, Zenon DEF IInv, starting, StartInit, Nothing, Cells
<1> QED BY <1>2, <1>3, Zenon DEF IInv, Unmasked

-------------------------------------------------------------------------------
(***************************************************************************)
(* Finite sets and numbers: what the lemmas above take as given.            *)
(***************************************************************************)
LOCAL Sets == INSTANCE FiniteSetTheorems

\* The operators of the library are those of this module.
LEMMA SameSets ==
  ASSUME NEW S
  PROVE  Sets!Cardinality(S) = Cardinality(S) /\ (Sets!IsFiniteSet(S) <=> IsFiniteSet(S))
BY Zenon DEF Sets!Cardinality, Cardinality, Sets!IsFiniteSet, IsFiniteSet

\* An interval is finite.
LEMMA Interval ==
  ASSUME NEW i \in Int, NEW j \in Int
  PROVE  IsFiniteSet(i .. j)
BY SameSets, Sets!FS_Interval, Zenon

\* A part of a finite set is finite.
LEMMA Part ==
  ASSUME NEW S, IsFiniteSet(S), NEW T \in SUBSET S
  PROVE  IsFiniteSet(T)
BY SameSets, Sets!FS_Subset, Zenon

\* The empty set counts nothing.
LEMMA CountedNone == Cardinality({}) = 0
BY SameSets, Sets!FS_EmptySet, Zenon

\* An element that was not there counts one.
LEMMA CountedOne ==
  ASSUME NEW S, IsFiniteSet(S), NEW x, x \notin S
  PROVE  Cardinality(S) \in Nat /\ Cardinality(S \cup {x}) = Cardinality(S) + 1
<1>1. Sets!IsFiniteSet(S)
  BY SameSets, Zenon
<1>2. Sets!Cardinality(S) \in Nat
  BY <1>1, Sets!FS_CardinalityType, Zenon
<1>3. Sets!Cardinality(S \cup {x}) = Sets!Cardinality(S) + 1
  BY <1>1, Sets!FS_AddElement, Zenon
<1>4. Sets!Cardinality(S) = Cardinality(S)
  BY SameSets, Zenon
<1>5. Sets!Cardinality(S \cup {x}) = Cardinality(S \cup {x})
  BY SameSets, Zenon
<1> QED BY <1>2, <1>3, <1>4, <1>5, Zenon

\* A set of numbers has a smallest one.
LEMMA LeastOf == Least
<1> SUFFICES ASSUME NEW S \in SUBSET Nat, S # {}
             PROVE  Min(S) \in S
  BY Zenon DEF Least
<1>1. PICK x \in S : \A y \in S : ~(<<y, x>> \in Sets!OpToRel(<, Nat))
  BY Sets!WFMin, Sets!NatLessThanWellFounded, Zenon
<1>2. \A y \in S : ~(y < x)
  BY <1>1, Zenon DEF Sets!OpToRel
<1>3. \A y \in S : x <= y
  BY <1>2
<1> QED BY <1>3, Zenon DEF Min

\* The elements of E up to k, and what is said of their number for k from 0 to N.
UpTo(E, k) == {j \in E : j <= k}
Places(E, N) == \A j \in E : j \in 1 .. N
CountsUp(E, N) ==
  /\ UpTo(E, 0) = {} /\ UpTo(E, N) = E
  /\ \A n \in Nat :
       /\ Cardinality(UpTo(E, n)) \in Nat
       /\ Cardinality(UpTo(E, n + 1)) =
            IF n + 1 \in E THEN Cardinality(UpTo(E, n)) + 1 ELSE Cardinality(UpTo(E, n))

\* The rank of an entry of the MADT is that of the one before it, and one more if it
\* counts; at first nothing has a rank, and at the end every entry.
LEMMA Ranks ==
  ASSUME NEW N \in Nat, NEW E, Places(E, N)
  PROVE  CountsUp(E, N)
<1> DEFINE S(k) == {j \in E : j <= k}
<1> USE DEF Places
<1>1. S(0) = {} /\ S(N) = E
  OBVIOUS
<1>2. ASSUME NEW n \in Nat
      PROVE  /\ Cardinality(S(n)) \in Nat
             /\ Cardinality(S(n + 1)) = IF n + 1 \in E THEN Cardinality(S(n)) + 1 ELSE Cardinality(S(n))
  <2>1. 1 \in Int /\ N \in Int
    OBVIOUS
  <2>2. IsFiniteSet(1 .. N)
    BY <2>1, Interval, Zenon
  <2>3. S(n) \in SUBSET (1 .. N)
    BY Zenon
  <2>4. n + 1 \notin S(n)
    OBVIOUS
  <2>5. CASE n + 1 \in E
    <3>1. S(n + 1) = S(n) \cup {n + 1}
      BY <2>5
    <3> HIDE DEF S
    <3>2. IsFiniteSet(S(n))
      BY <2>2, <2>3, Part, Zenon
    <3> QED BY <2>4, <2>5, <3>1, <3>2, CountedOne, Zenon
  <2>6. CASE n + 1 \notin E
    <3>1. S(n + 1) = S(n)
      BY <2>6, SMTT(60)
    <3> HIDE DEF S
    <3>2. IsFiniteSet(S(n))
      BY <2>2, <2>3, Part, Zenon
    <3> QED BY <2>4, <2>6, <3>1, <3>2, CountedOne, Zenon
  <2> QED BY <2>5, <2>6, Zenon
<1> QED BY <1>1, <1>2, Zenon DEF UpTo, CountsUp

\* What the lemmas about the arrays take as given.
LEMMA Ranked ==
  ASSUME madt \in Madts
  PROVE  Ranking
<1>1. Len(madt) \in Nat /\ DOMAIN madt = 1 .. Len(madt)
  <2>1. madt \in Seq(MadtEntries)
    BY MadtAssumption, Zenon
  <2> QED BY <2>1
<1>2. ASSUME NEW type
      PROVE  /\ Rank(type, 0) = 0 /\ Rank(type, Len(madt)) = Cardinality(Entries(type))
             /\ \A n \in Nat :
                  /\ Rank(type, n) \in Nat
                  /\ Rank(type, n + 1) = IF n + 1 \in Entries(type) THEN Rank(type, n) + 1 ELSE Rank(type, n)
  <2> DEFINE E == Entries(type)
  <2>1. Places(E, Len(madt))
    BY <1>1, Zenon DEF Entries, Places
  <2>2. \A k : Rank(type, k) = Cardinality(UpTo(E, k))
    BY Zenon DEF Rank, UpTo
  <2> HIDE DEF E
  <2>3. CountsUp(E, Len(madt))
    BY <1>1, <2>1, Ranks, Zenon
  <2> QED BY <2>2, <2>3, CountedNone, Zenon DEF E, CountsUp
<1> QED BY <1>2, Zenon DEF Ranking

\* A list of numbers without duplicates, and what is said of its n-th number when the
\* others than own are counted: it is one more than those before it.
Distinct(s, N) ==
  /\ N \in Nat /\ \A k \in 1 .. N : s[k] \in 0 .. 255
  /\ \A j, k \in 1 .. N : j # k => s[j] # s[k]
OneAfter(s, n, own) ==
  /\ Cardinality({s[k] : k \in 1 .. n - 1} \ {own}) \in Nat
  /\ Cardinality({s[k] : k \in 1 .. n} \ {own}) = Cardinality({s[k] : k \in 1 .. n - 1} \ {own}) + 1

\* The n-th number is not among those before it.
LEMMA OneMore ==
  ASSUME NEW s, NEW N, Distinct(s, N), NEW n \in 1 .. N, NEW own, s[n] # own
  PROVE  OneAfter(s, n, own)
<1> DEFINE S == {s[k] : k \in 1 .. n - 1} \ {own}
<1>0. N \in Nat
  BY Zenon DEF Distinct
<1>1. n \in 1 .. n /\ \A k \in 1 .. n : k = n \/ k \in 1 .. n - 1
  BY <1>0
<1>2. \A k \in 1 .. n - 1 : k \in 1 .. n /\ k \in 1 .. N /\ k # n
  BY <1>0
<1>3. {s[k] : k \in 1 .. n} \ {own} = S \cup {s[n]}
  BY <1>1, <1>2, Zenon
<1>4. s[n] \notin S
  BY <1>2, ZenonT(60) DEF Distinct
<1>5. S \in SUBSET (0 .. 255)
  <2>1. \A k \in 1 .. n - 1 : s[k] \in 0 .. 255
    BY <1>2, Zenon DEF Distinct
  <2> QED BY <2>1
<1> HIDE DEF S
<1>6. IsFiniteSet(S)
  <2>1. 0 \in Int /\ 255 \in Int
    OBVIOUS
  <2>2. IsFiniteSet(0 .. 255)
    BY <2>1, Interval, Zenon
  <2> QED BY <1>5, <2>2, Part, Zenon
<1>7. Cardinality(S \cup {s[n]}) = Cardinality(S) + 1 /\ Cardinality(S) \in Nat
  BY <1>4, <1>6, CountedOne, Zenon
<1> QED BY <1>3, <1>7, Zenon DEF S, OneAfter

\* With the invariant all of it holds.
LEMMA CountingHolds ==
  ASSUME TabInv
  PROVE  Counting /\ Ranking /\ Least
<1>1. Lapics
  BY Given, Zenon
<1>2. Distinct(lapics, Len(lapics)) /\ DOMAIN lapics = 1 .. Len(lapics)
  BY <1>1, ProcessorsAssumption, Zenon DEF Lapics, Distinct
<1>3. ASSUME NEW n \in DOMAIN lapics, lapics[n] # OwnId
      PROVE  OneAfter(lapics, n, OwnId)
  <2>1. n \in 1 .. Len(lapics)
    BY <1>2, Zenon
  <2> QED BY <1>2, <1>3, <2>1, OneMore, Zenon
<1>4. Counting
  BY <1>3, CountedNone, Zenon DEF Counting, OneAfter
<1> QED BY <1>4, LeastOf, Ranked, Zenon DEF TabInv, ParseInv

-------------------------------------------------------------------------------
(***************************************************************************)
(* The theorems.                                                            *)
(***************************************************************************)
\* The inductive invariant: where the BSP is in the list of processors, where each of the
\* others is in its start and what it has of its own by then (ap_startup.rs:16-91), that
\* the arrays have what was read of the MADT (acpi.rs:105-150), that an entry of a
\* redirection table is unmasked just when an interrupt looked at belongs there
\* (io_apic.rs:237-287), and where it sends.
THEOREM AcpiBootInvariant == Spec => []IInv
<1>1. Init => IInv
  <2>1. Init => madt \in Madts
    BY Zenon DEF Init, TablesInit
  <2> QED BY <2>1, Ranked, InitInv, Zenon
<1>2. IInv /\ [Next]_vars => IInv'
  BY CountingHolds, LoaderInv, StartInv, SetupInv, NoStepInv, Zenon DEF Next, IInv
<1> QED BY <1>1, <1>2, PTL DEF Spec

\* Every processor that has loaded its GDT has its own id and the stack that the BSP put
\* into the trampoline for it (ap_startup.rs:36-56, main.rs:192-205), for any number of
\* processors and whichever of them the BSP is.
THEOREM OwnIdAndStackAlways == Spec => []OwnIdAndStack
<1>1. IInv => OwnIdAndStack
  BY OwnFromInv, Zenon DEF IInv
<1> QED BY <1>1, AcpiBootInvariant, PTL

\* No two processors are inside the frame allocator or the heap at once, whose cells panic
\* at a second borrow (uni_processor.rs:14), although nothing but the two flags of the
\* start keeps them apart.
THEOREM NoBorrowPanicAlways == Spec => []NoBorrowPanic
<1>1. IInv => NoBorrowPanic
  BY NoPanicFromInv, Zenon DEF IInv
<1> QED BY <1>1, AcpiBootInvariant, PTL

\* If LOCAL_APIC.id() gives the BSP's own id (x2APIC mode, or id 0), then once
\* setup_ap_startup has returned every processor of the MADT that can be enabled has been
\* counted and waits with its IDT (ap_startup.rs:78-83), and nothing of the MADT was lost.
THEOREM AllReadyAfterwards ==
  ASSUME OwnId = BspId
  PROVE  Spec => []AllReady
<1>1. IInv => AllReady
  BY CountingHolds, Given, NothingLostFromInv, ReadyFromInv, Zenon DEF IInv, TabInv, AllReady
<1> QED BY <1>1, AcpiBootInvariant, PTL

\* For any MADT that keeps to the ACPI specification, any number of I/O APICs and of
\* overrides in any order: at the end an entry is unmasked only for the interrupt, trigger
\* mode and polarity the MADT gives it, and no pin in reach is left out (io_apic.rs:237-287).
THEOREM RoutedAsMadtAlways == Spec => []RoutedAsMadt
<1>1. IInv => RoutedAsMadt
  BY CountingHolds, RoutedFromInv, Zenon DEF IInv, TabInv
<1> QED BY <1>1, AcpiBootInvariant, PTL

\* If LOCAL_APIC.id() gives the BSP's own id, then whatever that is and wherever the
\* firmware left the entries: an interrupt that arrives at any time goes to the BSP, which
\* has loaded its IDT by then, and only the entry between its two writes may still send
\* where it was left (io_apic.rs:70-71).
THEOREM HandledWhereSentAlways ==
  ASSUME OwnId = BspId
  PROVE  Spec => []HandledWhereSent
<1>1. IInv => HandledWhereSent
  BY SentFromInv, Zenon DEF IInv, TabInv, Unmasked, HandledWhereSent
<1> QED BY <1>1, AcpiBootInvariant, PTL

===============================================================================
