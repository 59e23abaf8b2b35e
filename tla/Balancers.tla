------------------------------ MODULE Balancers ------------------------------
(***************************************************************************)
(* What a protocol sees of its pipes, and the two lists it keeps them in:  *)
(* the load balancer of src/utils/lb.c and the fair queue of               *)
(* src/utils/fq.c.                                                         *)
(*                                                                         *)
(* The pipes are inproc sessions (sinproc.c).  io is one socket's view:    *)
(* io.in[p] is the queue of messages for it on pipe p, io.out[p] the queue *)
(* of what it sent to its peer, io.lim[p] the largest message both ends    *)
(* accept.  A queue is what MsgFifo specifies and MsgQueue refines: bytes  *)
(* bounded by RCVBUF, and the size of the last push it refused.            *)
(*                                                                         *)
(* A balancer is the sequence of its pipes.  The active flag of its items  *)
(* is left out: a call probes every pipe, and the flag only decides        *)
(* whether the first one is tried once or twice.                           *)
(***************************************************************************)
EXTENDS Integers, SequencesExt

CONSTANTS RCVBUF, NoPipe

ASSUME RcvbufAssumption == RCVBUF \in Nat \ {0}

EmptyQueue == [msgs |-> <<>>, mem |-> 0, pending |-> 0]

Fits(c, sz) == c.mem + sz <= RCVBUF

\* The refused size is forgotten as soon as it fits.
Settle(c) == IF Fits(c, c.pending) THEN [c EXCEPT !.pending = 0] ELSE c

Pushed(c, m) == Settle([c EXCEPT !.msgs = Append(@, m), !.mem = @ + m.size])

Popped(c) == Settle([c EXCEPT !.msgs = Tail(@), !.mem = @ - Head(c.msgs).size])

mb_pipe_has_msg(io, p) == io.in[p].msgs # <<>>

(* Mutant: one free byte is enough, whatever was refused. *)
mb_pipe_can_send_AnyRoom(io, p) == Fits(io.out[p], 1)

\* After a refusal there is room when the refused message fits.
mb_pipe_can_send(io, p) ==
  Fits(io.out[p], IF io.out[p].pending # 0 THEN io.out[p].pending ELSE 1)

mb_pipe_send(io, p, m) ==
  IF m.size > io.lim[p] THEN [rc |-> "EMSGSIZE", io |-> io]
  ELSE IF ~Fits(io.out[p], m.size)
  THEN [rc |-> "EAGAIN", io |-> [io EXCEPT !.out[p].pending = m.size]]
  ELSE [rc |-> "OK", io |-> [io EXCEPT !.out[p] = Pushed(@, m)]]

\* A message is returned as a sequence of at most one message.
mb_pipe_recv(io, p) ==
  IF ~mb_pipe_has_msg(io, p) THEN [rc |-> "EAGAIN", io |-> io, msg |-> <<>>]
  ELSE [rc |-> "OK", io |-> [io EXCEPT !.in[p] = Popped(@)],
        msg |-> <<Head(io.in[p].msgs)>>]

-----------------------------------------------------------------------------
(* Lists of pipes *)

Without(l, p) == SelectSeq(l, LAMBDA x : x # p)

Rotate(l, p) == Append(Without(l, p), p)

mb_lb_add(l, p) == Append(l, p)

mb_lb_rm(l, p) == Without(l, p)

\* An activated pipe moves to the front.
mb_lb_activate(l, p) == <<p>> \o Without(l, p)

mb_lb_can_send(l, io) == \E i \in DOMAIN l : mb_pipe_can_send(io, l[i])

\* The message is offered to every pipe of a list: it is queued or its size
\* is remembered.
FanOut(io, l, m) ==
  [io EXCEPT !.out = [p \in DOMAIN @ |->
     IF p \in Range(l) THEN mb_pipe_send(io, p, m).io.out[p] ELSE @[p]]]

\* The first pipe that does not answer EAGAIN decides; the one that takes the
\* message goes to the end.
mb_lb_send(l, io, m) ==
  LET ready == {i \in DOMAIN l : mb_pipe_send(io, l[i], m).rc # "EAGAIN"}
      p == l[Min(ready)]
      rc == mb_pipe_send(io, p, m).rc
  IN IF ready = {} THEN [rc |-> "EAGAIN", io |-> FanOut(io, l, m), list |-> l]
     ELSE [rc |-> rc, io |-> FanOut(io, SubSeq(l, 1, Min(ready)), m),
           list |-> IF rc = "OK" THEN Rotate(l, p) ELSE l]

mb_fq_add(l, p) == Append(l, p)

mb_fq_rm(l, p) == Without(l, p)

mb_fq_activate(l, p) == <<p>> \o Without(l, p)

mb_fq_can_recv(l, io) == \E i \in DOMAIN l : mb_pipe_has_msg(io, l[i])

(* Mutant: the pipe that delivered stays at the front. *)
mb_fq_recv_pipe_Sticky(l, io) ==
  LET full == {i \in DOMAIN l : mb_pipe_has_msg(io, l[i])}
      p == l[Min(full)]
      r == mb_pipe_recv(io, p)
  IN IF full = {} THEN [rc |-> "EAGAIN", io |-> io, list |-> l, msg |-> <<>>, pipe |-> NoPipe]
     ELSE [rc |-> "OK", io |-> r.io, list |-> l, msg |-> r.msg, pipe |-> p]

mb_fq_recv_pipe(l, io) ==
  LET full == {i \in DOMAIN l : mb_pipe_has_msg(io, l[i])}
      p == l[Min(full)]
      r == mb_pipe_recv(io, p)
  IN IF full = {} THEN [rc |-> "EAGAIN", io |-> io, list |-> l, msg |-> <<>>, pipe |-> NoPipe]
     ELSE [rc |-> "OK", io |-> r.io, list |-> Rotate(l, p), msg |-> r.msg, pipe |-> p]

mb_fq_recv(l, io) == mb_fq_recv_pipe(l, io)

-----------------------------------------------------------------------------
(* The loops that protocols without a balancer repeat over their list *)

Takers(io, l, m) == {p \in Range(l) : mb_pipe_send(io, p, m).rc = "OK"}

Ready(l, io, in, out) ==
  (IF in /\ mb_fq_can_recv(l, io) THEN {"IN"} ELSE {})
    \cup (IF out /\ mb_lb_can_send(l, io) THEN {"OUT"} ELSE {})

(***************************************************************************)
(* A sockbase's calls return the result code, the new state of the socket  *)
(* and the new view of its pipes.                                          *)
(***************************************************************************)
Sent(rc, st, io) == [rc |-> rc, st |-> st, io |-> io]

Received(rc, st, io, msg) == [rc |-> rc, st |-> st, io |-> io, msg |-> msg]

Events(st, io, ev) == [st |-> st, io |-> io, ev |-> ev]

Added(st) == [rc |-> "OK", st |-> st]

\* Every peer gets a copy; nobody took one: EAGAIN.
SendToAll(st, io, m) ==
  Sent(IF Takers(io, st.pipes, m) = {} THEN "EAGAIN" ELSE "OK", st,
       FanOut(io, st.pipes, m))

\* The first pipe with a message, which goes to the end of the list.
RecvFromAny(st, io) ==
  LET r == mb_fq_recv_pipe(st.pipes, io)
  IN Received(r.rc, [st EXCEPT !.pipes = r.list], r.io, r.msg)

SendToOne(st, io, m) ==
  LET r == mb_lb_send(st.pipes, io, m)
  IN Sent(r.rc, [st EXCEPT !.pipes = r.list], r.io)
=============================================================================
