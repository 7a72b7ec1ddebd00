--------------------------- MODULE MCOvsdbIfaces ---------------------------
(***************************************************************************)
(* Two interfaces, two directions, a few changes in any order.             *)
(***************************************************************************)
EXTENDS OvsdbIfaces

=============================================================================
