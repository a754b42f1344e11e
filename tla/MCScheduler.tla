------------------------------ MODULE MCScheduler ------------------------------
(***************************************************************************)
(* Instances of the scheduler: one CPU as the kernel runs today, and two    *)
(* CPUs as its locks are made for.                                          *)
(***************************************************************************)
EXTENDS Scheduler

\* Threads may share an address space, or have none.
AnySpace == NewIds \cup {None}
===============================================================================
