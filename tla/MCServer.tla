------------------------------ MODULE MCServer ------------------------------
(***************************************************************************)
(* Three loops, two descriptor numbers and three connections, so that a    *)
(* number is used again; one connection on the base loop is "many".        *)
(***************************************************************************)
EXTENDS Server, TLC
=============================================================================
