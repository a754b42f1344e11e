----------------------------- MODULE MCContextIds -----------------------------
(* The id allocator with three callers. *)
EXTENDS ContextIds
===============================================================================
