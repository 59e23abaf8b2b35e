---------------------------- MODULE MCLifecycle ----------------------------
(***************************************************************************)
(* Instances of Lifecycle for TLC.  Each .cfg chooses the calls the        *)
(* threads make (Ops): one question per run.                               *)
(***************************************************************************)
EXTENDS Lifecycle, TLC

(* Threads, sockets and endpoints are interchangeable model values. *)
Symmetry == Permutations(Threads) \cup Permutations(Socks) \cup Permutations(Eps)

BlockedOps == {"socket", "close", "shutdown", "term", "io", "coro"}

FiniteAndInfinite == {-1, 1}
Infinite == {-1}
=============================================================================
