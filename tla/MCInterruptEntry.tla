---------------------------- MODULE MCInterruptEntry ----------------------------
(***************************************************************************)
(* A user program, kmain or a new context, and handlers that interrupt each *)
(* other at every point of their entry and exit.                            *)
(***************************************************************************)
EXTENDS InterruptEntry
===============================================================================
