------------------------------ MODULE FrameSource ------------------------------
(***************************************************************************)
(* What the kernel expects of its source of physical memory, whatever the   *)
(* algorithm behind it: blocks are granted one at a time, and a granted     *)
(* block shares no byte with memory that is reserved or already owned.      *)
(* A request that is turned down changes nothing here.                      *)
(***************************************************************************)
EXTENDS Integers

VARIABLES
  reserved,   \* memory regions, [start, length]
  owned       \* blocks granted so far, [start, size]

Overlap(s1, n1, s2, n2) == s1 < s2 + n2 /\ s2 < s1 + n1

Grant(b) ==
  /\ \A r \in reserved : ~Overlap(b.start, b.size, r.start, r.length)
  /\ \A c \in owned : ~Overlap(b.start, b.size, c.start, c.size)
  /\ owned' = owned \cup {b}
  /\ UNCHANGED reserved

Init == owned = {}

Next == \E b \in owned' : Grant(b)

Spec == Init /\ [][Next]_<<reserved, owned>>
===============================================================================
