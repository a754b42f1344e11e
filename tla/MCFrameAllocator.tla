--------------------------- MODULE MCFrameAllocator ---------------------------
(***************************************************************************)
(* Every sorted list of at most three regions over a small memory: regions  *)
(* that overlap, touch, contain one another, are empty, start inside a      *)
(* frame, lie below or across Start, or reach past the end of memory.       *)
(***************************************************************************)
EXTENDS FrameAllocator

CONSTANTS MCStarts, MCLengths, MCMaxRegions

MCRegion == [start : MCStarts, length : MCLengths]
MCRegionLists ==
  UNION { { rs \in [1 .. n -> MCRegion] :
              \A k \in 1 .. n - 1 : rs[k].start <= rs[k + 1].start } :
          n \in 1 .. MCMaxRegions }
===============================================================================
