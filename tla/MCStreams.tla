----------------------------- MODULE MCStreams ------------------------------
(***************************************************************************)
(* The connections TLC explores.  The kernel buffers fewer units than a    *)
(* frame has, so that every frame is written and read in pieces.           *)
(***************************************************************************)
EXTENDS Streams

Base ==
  [kind |-> "ipc", cap |-> 3, limit |-> [e \in Ends |-> 2], hwm |-> 0, linger |-> 0,
   sends |-> 2, lens |-> {0, 2}, closers |-> {}, ooms |-> {"none"}, script |-> <<>>, app |-> "none"]

Kinds == {"ipc", "tls", "ws", "wss"}

Frame(op, body) ==
  [opcode |-> op, body |-> body, masked |-> TRUE, whole |-> TRUE, high |-> FALSE]
Binary1 == Frame("BINARY", Body(1, 2))
Binary2 == Frame("BINARY", Body(2, 1))

(* Both ends stay open and messages of every length encoding pass. *)
Steady ==
  {[Base EXCEPT !.kind = k, !.hwm = 1, !.lens = {0, 2}, !.app = a] : k \in Kinds, a \in {"recv", "poll"}}
  \cup {[Base EXCEPT !.kind = k, !.cap = n, !.lens = {0, 1, 2}, !.sends = 1] : k \in Kinds, n \in 1..2}

(* An end stops while messages are under way, without and with linger. *)
Closing == {[Base EXCEPT !.kind = k, !.closers = Ends, !.sends = 1] : k \in Kinds}
Lingering == {[Base EXCEPT !.kind = k, !.closers = {"client"}, !.linger = 1] : k \in Kinds}

(* The server takes less than the client sends. *)
Limits == {[Base EXCEPT !.kind = k, !.limit = [e \in Ends |-> IF e = "client" THEN 2 ELSE 1]] :
             k \in Kinds}

(* A call may find no memory. *)
Starved == {[Base EXCEPT !.kind = k, !.ooms = {"none", "msg"}, !.sends = 1] : k \in Kinds}

(* A foreign peer: control frames between messages, frames that end it. *)
Talk == [Base EXCEPT !.kind = "ws", !.sends = 1]
Foreigners ==
  {[Talk EXCEPT !.script = s, !.kind = k, !.closers = c] :
     s \in {<<Binary1, Frame("PING", Body(7, 1)), Binary2>>, <<Frame("PING", Body(7, 0)), Frame("PING", Body(7, 1)), Binary1>>,
            <<Binary1, Frame("PONG", Body(7, 1)), Frame("CLOSE", Body(7, 0))>>,
            <<Binary1, Frame("TEXT", Body(7, 1))>>, <<Frame("PING", Body(7, 2))>>,
            <<Binary1, [Binary2 EXCEPT !.masked = FALSE]>>,
            <<Binary1, [Binary2 EXCEPT !.whole = FALSE]>>,
            <<Binary2, [Binary1 EXCEPT !.high = TRUE]>>},
     k \in {"ws", "wss"}, c \in {{}, {"client"}}}
Pinging == {[n EXCEPT !.app = "recv"] : n \in Foreigners}
StarvedPinging ==
  {[n EXCEPT !.app = "recv", !.ooms = {"none", "ctrl", "msg"}] :
     n \in {n \in Foreigners : n.closers = {} /\ \E i \in DOMAIN n.script : n.script[i].opcode = "PING"}}

AllNets == Steady \cup Closing \cup Lingering \cup Limits \cup Starved \cup Pinging
             \cup StarvedPinging

(* An end stops with linger while the other may stop as well. *)
BothStop == {[Base EXCEPT !.closers = Ends, !.linger = 1]}
=============================================================================
