----------------------------- MODULE MCKBuffer ------------------------------
(***************************************************************************)
(* Blocks of two bytes and a limit of three blocks: what is written stays  *)
(* in a block, fills it exactly, crosses one or two ends; what waits in    *)
(* the socket also fills the blocks and the extra buffer, or exceeds both. *)
(* What sendInLoop has left is also more than half the limit, all of it    *)
(* and more than it.                                                       *)
(***************************************************************************)
EXTENDS KBuffer

CONSTANTS x, nl

MCChunk == {<<>>, <<x>>, <<nl, x>>, <<x, x, nl>>}
MCWaiting == {<<nl>>, <<x, nl, x>>, <<x, x, nl, x, nl>>, <<nl, x, x, x, x, nl, x, x>>}

MCMessage == {<<x>>, <<nl, x>>, <<x, nl, x>>, <<x, x, nl, x, x>>, <<nl, x, x, x, nl, x>>,
              <<x, nl, x, x, nl, x, x>>}

MCLeftover == {-1, 30}

\* Also a write of more than half the limit.
MCLargeChunk == {<<x, nl>>, <<nl, x, x, nl>>, <<x, nl, x, x, nl>>}
=============================================================================
