---------------------------- MODULE MCConnection ----------------------------
(***************************************************************************)
(* Two messages of two parts each, one message of the peer, and at most    *)
(* one user, with code on the connection's loop and on another thread.     *)
(* The tail of one may fill the blocks of the output buffer exactly; that  *)
(* of the other may be refused, and has a NUL byte before its second part. *)
(***************************************************************************)
EXTENDS Connection, TLC

CONSTANTS user, m1, m2

MCData == {m1, m2}
MCNulPart == {<<m2, 2>>}
=============================================================================
