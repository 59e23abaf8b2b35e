----------------------------- MODULE OneToMany ------------------------------
(***************************************************************************)
(* The sockets without roles or state beyond their pipes:                  *)
(* src/protocol/bus/{bus,xbus}.c, src/protocol/pair/{pair,xpair}.c and     *)
(* src/protocol/pipeline/{push,pull,xpush,xpull}.c.                        *)
(***************************************************************************)
EXTENDS Balancers

(* BUS: to every peer, from any peer. *)

mb_bus_create == [pipes |-> <<>>]

mb_bus_add(st, p) == Added([pipes |-> Append(st.pipes, p)])

mb_bus_rm(st, p) == [pipes |-> Without(st.pipes, p)]

mb_bus_events(st, io) == Events(st, io, Ready(st.pipes, io, TRUE, TRUE))

mb_bus_send(st, io, m) == SendToAll(st, io, m)

mb_bus_recv(st, io) == RecvFromAny(st, io)

mb_xbus_create == [pipes |-> <<>>]

mb_xbus_add(st, p) == Added([pipes |-> Append(st.pipes, p)])

mb_xbus_rm(st, p) == [pipes |-> Without(st.pipes, p)]

mb_xbus_events(st, io) == Events(st, io, Ready(st.pipes, io, TRUE, TRUE))

mb_xbus_send(st, io, m) == SendToAll(st, io, m)

mb_xbus_recv(st, io) == RecvFromAny(st, io)

-----------------------------------------------------------------------------
(* PAIR: one peer; a second one is refused. *)

mb_pair_create == [ptr |-> NoPipe]

mb_pair_add(st, p) ==
  IF st.ptr # NoPipe THEN [rc |-> "EISCONN", st |-> st] ELSE Added([ptr |-> p])

mb_pair_rm(st, p) == IF st.ptr = p THEN mb_pair_create ELSE st

mb_pair_events(st, io) ==
  Events(st, io, IF st.ptr = NoPipe THEN {} ELSE Ready(<<st.ptr>>, io, TRUE, TRUE))

mb_pair_send(st, io, m) ==
  LET r == mb_pipe_send(io, st.ptr, m)
  IN IF st.ptr = NoPipe THEN Sent("EAGAIN", st, io) ELSE Sent(r.rc, st, r.io)

mb_pair_recv(st, io) ==
  LET r == mb_pipe_recv(io, st.ptr)
  IN IF st.ptr = NoPipe THEN Received("EAGAIN", st, io, <<>>)
     ELSE Received(r.rc, st, r.io, r.msg)

\* The raw pair accepts any number of peers and sends to all of them.
mb_xpair_create == [pipes |-> <<>>]

mb_xpair_add(st, p) == Added([pipes |-> Append(st.pipes, p)])

mb_xpair_rm(st, p) == [pipes |-> Without(st.pipes, p)]

mb_xpair_events(st, io) == Events(st, io, Ready(st.pipes, io, TRUE, TRUE))

mb_xpair_send(st, io, m) == SendToAll(st, io, m)

mb_xpair_recv(st, io) == RecvFromAny(st, io)

-----------------------------------------------------------------------------
(* PUSH and PULL: each message to one peer. *)

mb_push_create == [pipes |-> <<>>]

mb_push_add(st, p) == Added([pipes |-> mb_lb_activate(mb_lb_add(st.pipes, p), p)])

mb_push_rm(st, p) == [pipes |-> mb_lb_rm(st.pipes, p)]

mb_push_events(st, io) == Events(st, io, Ready(st.pipes, io, FALSE, TRUE))

(* Mutant: the message goes to every peer. *)
mb_push_send_ToAll(st, io, m) == SendToAll(st, io, m)

mb_push_send(st, io, m) == SendToOne(st, io, m)

mb_pull_create == [pipes |-> <<>>]

mb_pull_add(st, p) == Added([pipes |-> mb_fq_activate(mb_fq_add(st.pipes, p), p)])

mb_pull_rm(st, p) == [pipes |-> mb_fq_rm(st.pipes, p)]

mb_pull_events(st, io) == Events(st, io, Ready(st.pipes, io, TRUE, FALSE))

mb_pull_recv(st, io) == RecvFromAny(st, io)

mb_xpush_create == [pipes |-> <<>>]

mb_xpush_add(st, p) == Added([pipes |-> mb_lb_activate(mb_lb_add(st.pipes, p), p)])

mb_xpush_rm(st, p) == [pipes |-> mb_lb_rm(st.pipes, p)]

mb_xpush_events(st, io) == Events(st, io, Ready(st.pipes, io, FALSE, TRUE))

mb_xpush_send(st, io, m) == SendToOne(st, io, m)

mb_xpull_create == [pipes |-> <<>>]

mb_xpull_add(st, p) == Added([pipes |-> mb_fq_activate(mb_fq_add(st.pipes, p), p)])

mb_xpull_rm(st, p) == [pipes |-> mb_fq_rm(st.pipes, p)]

mb_xpull_events(st, io) == Events(st, io, Ready(st.pipes, io, TRUE, FALSE))

mb_xpull_recv(st, io) == RecvFromAny(st, io)
=============================================================================
