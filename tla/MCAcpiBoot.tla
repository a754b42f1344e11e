------------------------------ MODULE MCAcpiBoot ------------------------------
(***************************************************************************)
(* MADTs with one or two I/O APICs, overrides that move an interrupt to a   *)
(* free number, to the number of another one or to the second I/O APIC, one *)
(* with a reserved flag, processors that cannot be enabled or do not fit;   *)
(* and four processors in every order of the table.  The BSP has id 5, the  *)
(* destination that the firmware left is an AP.                             *)
(***************************************************************************)
EXTENDS AcpiBoot

Lapic(n, f) == [type |-> "LocalApic", id |-> n, flags |-> f]
Chip(n, r, base, last) == [type |-> "IoApic", id |-> n, reg_id |-> r, gsi_base |-> base, max |-> last]
Override(n, g, f) == [type |-> "Override", irq |-> n, gsi |-> g, flags |-> f]

Lapics == {<<Lapic(5, 1), Lapic(1, 0), Lapic(2, 2)>>}
TooMany == <<Lapic(0, 1), Lapic(1, 1), Lapic(2, 1), Lapic(5, 1), Lapic(6, 1)>>
Orders == {s \in [1 .. 4 -> {0, 1, 2, 5}] : IsInjective(s)}
AllEnabled(s) == [k \in 1 .. 4 |-> Lapic(s[k], 1)]
Chips == {<<Chip(0, 0, 0, 23)>>, <<Chip(0, 0, 0, 8), Chip(1, 1, 9, 15)>>,
          <<Chip(1, 1, 16, 23), Chip(0, 0, 0, 16)>>, <<Chip(0, 4, 0, 23)>>, <<Chip(0, 0, 0, 40)>>}
Pool == {Override(0, 2, 0), Override(9, 9, 15), Override(5, 10, 5), Override(10, 5, 13),
         Override(7, 20, 15), Override(3, 4, 2), Override(11, 30, 15),
         Override(12, 23, 0)}

\* Two overrides never name the same source or the same number.
Differ(o, p) == o.irq # p.irq /\ o.gsi # p.gsi
OverrideLists == {<<>>} \cup {<<o>> : o \in Pool} \cup
                 {<<o, p>> : <<o, p>> \in {q \in Pool \X Pool : Differ(q[1], q[2])}}
MCMadts ==
  {l \o c \o o : <<l, c, o>> \in Lapics \X Chips \X OverrideLists}
  \cup {AllEnabled(s) \o <<Chip(0, 0, 0, 23)>> : s \in Orders}
  \cup {TooMany}
===============================================================================
