----------------------------- MODULE MCLruOrder -----------------------------
(***************************************************************************)
(* LruOrder without loaded_blocks, which grows with every refill and which *)
(* no operation of the device reads.                                       *)
(***************************************************************************)
EXTENDS LruOrder

Contents == <<[dev EXCEPT !.loaded = 0], order, followed>>
=============================================================================
