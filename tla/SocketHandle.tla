---------------------------- MODULE SocketHandle ----------------------------
(***************************************************************************)
(* What the socket table promises the rest of the library: a socket is     *)
(* opened, used by calls in flight, closed, and its memory goes away only  *)
(* when the last of these calls has let go of it.  A call can only begin   *)
(* while the socket is open.                                               *)
(***************************************************************************)
CONSTANTS Socks, Users

VARIABLES phase, users

hvars == <<phase, users>>

Init ==
  /\ phase = [o \in Socks |-> "none"]
  /\ users = [o \in Socks |-> {}]

Open(o) ==
  /\ phase[o] = "none"
  /\ phase' = [phase EXCEPT ![o] = "open"]
  /\ UNCHANGED users

Acquire(o, u) ==
  /\ phase[o] = "open" /\ u \notin users[o]
  /\ users' = [users EXCEPT ![o] = @ \cup {u}]
  /\ UNCHANGED phase

Release(o, u) ==
  /\ u \in users[o]
  /\ users' = [users EXCEPT ![o] = @ \ {u}]
  /\ UNCHANGED phase

Close(o) ==
  /\ phase[o] = "open"
  /\ phase' = [phase EXCEPT ![o] = "closing"]
  /\ UNCHANGED users

Free(o) ==
  /\ phase[o] = "closing" /\ users[o] = {}
  /\ phase' = [phase EXCEPT ![o] = "freed"]
  /\ UNCHANGED users

Next ==
  /\ hvars' # hvars
  /\ \E o \in Socks :
       \/ Open(o) \/ Close(o) \/ Free(o)
       \/ \E u \in Users : Acquire(o, u) \/ Release(o, u)

Spec == Init /\ [][Next]_hvars
=============================================================================
