----------------------------- MODULE MCEndpoints ----------------------------
(***************************************************************************)
(* The endpoints TLC explores.  Three sessions: one in the socket, one     *)
(* that has failed, one that is being made.                                *)
(***************************************************************************)
EXTENDS Endpoints

Base == [kind |-> "cipc", ivl |-> 2, ivl_max |-> 5, sess |-> 3, flips |-> 1, faults |-> {}]

ConnectKinds == {"cipc", "ctcp", "ctls", "cws", "cwss"}
BindKinds == {"bipc", "btcp", "btls", "bws", "bwss"}

(* Nothing fails but connections. *)
Plain == {[Base EXCEPT !.kind = k] : k \in ConnectKinds \cup BindKinds}

(* Handshakes, allocations and the pattern's consent fail. *)
Faults ==
  {[Base EXCEPT !.kind = k, !.faults = {"handshake", "alloc", "start", "reject", "spawn"}] :
     k \in {"ctcp", "cwss", "btcp", "bwss"}}

(* The event functions meet the errors of other sessions. *)
Events == {[Base EXCEPT !.kind = k, !.faults = {"events"}] : k \in {"cipc", "bipc"}}

(* Without reconnection, and with intervals that do not grow or start      *)
(* above their maximum.                                                    *)
Intervals ==
  {[Base EXCEPT !.ivl = 0], [Base EXCEPT !.ivl_max = 0, !.flips = 2], [Base EXCEPT !.ivl = 7, !.flips = 2]}

AllNets == Plain \cup Faults \cup Events \cup Intervals
=============================================================================
