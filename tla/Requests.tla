------------------------------ MODULE Requests ------------------------------
(***************************************************************************)
(* What a REQ socket promises its application: at most one request is      *)
(* open, the reply that is returned answers that request, and a request    *)
(* whose peer goes away is given up, never answered later.                 *)
(***************************************************************************)
CONSTANTS Clients, Ids, None

VARIABLES
  open,   \* open[c]: the request client c waits on, or None
  got     \* got[c]: the request answered by the reply c got since it last asked

Init == open = [c \in Clients |-> None] /\ got = [c \in Clients |-> None]

Ask(c) ==
  /\ open[c] = None
  /\ open'[c] \in Ids
  /\ open' = [open EXCEPT ![c] = open'[c]]
  /\ got' = [got EXCEPT ![c] = None]

Answer(c) ==
  /\ open[c] # None
  /\ got' = [got EXCEPT ![c] = open[c]]
  /\ open' = [open EXCEPT ![c] = None]

GiveUp(c) ==
  /\ open[c] # None
  /\ open' = [open EXCEPT ![c] = None]
  /\ UNCHANGED got

Next == \E c \in Clients : Ask(c) \/ Answer(c) \/ GiveUp(c)

Spec == Init /\ [][Next]_<<open, got>>
=============================================================================
