----------------------------- MODULE MCBootMemory -----------------------------
(***************************************************************************)
(* Two firmware memory maps (one with memory behind a hole no descriptor    *)
(* covers, when Holes says so), files that end inside a frame, an argument  *)
(* that straddles two frames, and a machine without a framebuffer.  Files   *)
(* and the argument lie in memory of the boot services, as allocate_pages   *)
(* and the firmware's stack put them there.                                 *)
(***************************************************************************)
EXTENDS BootMemory

CONSTANTS
  MCHoles,         \* leave a hole between two descriptors
  MCLongBootstrap, \* let the bootstrap file be longer than the kernel file
  MCFramebuffers   \* BOOLEAN subset: with or without a framebuffer

D(frame, count, ty) == [frame |-> frame, count |-> count, ty |-> ty]

\* Frames 0-1 are low memory; six frames at `at` hold the files and the stack,
\* the one above them the memory map.  The files lie in the middle of free
\* memory or above all of it.
At(tail, high) == IF high THEN 6 + tail ELSE 6

MCMap(tail, high, hole) ==
  LET at == At(tail, high) IN
  <<D(0, 2, "conventional"), D(2, at - 2, "conventional"), D(at, 6, "boot_services"),
    D(at + 6, 1, "loader")>>
  \o (IF high THEN <<>> ELSE <<D(13, tail, "conventional")>>)
  \o <<D(13 + tail + hole, 2, "runtime"), D(15 + tail + hole, 1, "conventional")>>

MCMachines ==
  {[map         |-> MCMap(tail, high, IF MCHoles THEN 1 ELSE 0),
    kernel      |-> [start |-> 2 * At(tail, high), length |-> klen],
    bootstrap   |-> [start |-> 2 * At(tail, high) + 4, length |-> blen],
    arg         |-> [start |-> 2 * At(tail, high) + arg, length |-> 2],
    framebuffer |-> IF fb THEN [start |-> 2 * (17 + tail) + 1, length |-> 3] ELSE NoFramebuffer,
    lapic       |-> 2 * (20 + tail),
    io_apics    |-> [k \in 1 .. apics |-> 2 * (20 + tail + k)]] :
     tail \in {8, 13}, high \in BOOLEAN, klen \in {2, 3},
     blen \in IF MCLongBootstrap THEN {5} ELSE {1, 2},
     arg \in {10, 9}, fb \in MCFramebuffers, apics \in {1, 2}}
===============================================================================
