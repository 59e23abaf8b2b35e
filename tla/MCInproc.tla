------------------------------ MODULE MCInproc ------------------------------
(***************************************************************************)
(* A socket that accepts one pipe and is its own peer, and one that        *)
(* accepts several and is not, on one address; two threads that bind and   *)
(* connect.                                                                *)
(***************************************************************************)
EXTENDS Inproc, TLC

CONSTANTS s1, s2, c1, c2

TwoSocks == {s1, s2}
TwoCallers == {c1, c2}
AllButOne == (TwoSocks \X TwoSocks) \ {<<s2, s2>>}
OnePipe == s1 :> 1 @@ s2 :> 3
Alike == Permutations(TwoCallers)
=============================================================================
