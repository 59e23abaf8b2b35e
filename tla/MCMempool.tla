----------------------------- MODULE MCMempool -----------------------------
(* The message pool with a slab of four chunks, which mb_slab_init may get  *)
(* only in part, and two chunks of the arena.                               *)
EXTENDS Mempool
=============================================================================
