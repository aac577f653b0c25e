------------------------------ MODULE MCClient ------------------------------
(***************************************************************************)
(* Three descriptors, so that one is used again while the others belong to *)
(* connections; two addresses for handlers; delays of 1, 2 and 3.          *)
(***************************************************************************)
EXTENDS Client
=============================================================================
