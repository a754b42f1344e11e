------------------------------ MODULE MCConsole ------------------------------
(***************************************************************************)
(* Two CPUs on screens of every size around one to three glyphs, with rows *)
(* as long as the stride or shorter.                                       *)
(***************************************************************************)
EXTENDS Console

CONSTANTS MCWidths, MCHeights, MCPads

MCFramebuffers ==
  { [width |-> w, height |-> h, stride |-> w + p, len |-> 4 * (w + p) * h] :
      w \in MCWidths, h \in MCHeights, p \in MCPads }
===============================================================================
