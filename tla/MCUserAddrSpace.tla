--------------------------- MODULE MCUserAddrSpace ---------------------------
(* Pages of three bytes: small buffers of 1, medium ones of 2, large ones of   *)
(* less than, just over and more than two pages.                               *)
EXTENDS UserAddrSpace
===============================================================================
