------------------------------- MODULE ReqRep -------------------------------
(***************************************************************************)
(* The request/reply sockets: src/protocol/reqrep/{req,rep,xreq,xrep}.c.   *)
(* One operator per function of a sockbase; the in and out callbacks are   *)
(* not wired to anything and are left out.                                 *)
(***************************************************************************)
EXTENDS Balancers

(* REQ: pipes is the balancer; ptr the pipe the reply is awaited on; busy is
   req->sending. *)

mb_req_create == [pipes |-> <<>>, ptr |-> NoPipe, busy |-> FALSE]

mb_req_add(st, p) ==
  Added([st EXCEPT !.pipes = mb_lb_activate(mb_lb_add(@, p), p),
                   !.ptr = IF @ = NoPipe THEN p ELSE @])

(* Mutant: the half-open request outlives its pipe. *)
mb_req_rm_KeepsRequest(st, p) ==
  LET l == mb_lb_rm(st.pipes, p)
  IN [st EXCEPT !.pipes = l,
                !.ptr = IF @ # p THEN @ ELSE IF l = <<>> THEN NoPipe ELSE l[1]]

\* With the pipe of the request the request goes too; another peer takes its
\* place as the current pipe.
mb_req_rm(st, p) ==
  LET l == mb_lb_rm(st.pipes, p)
  IN IF st.ptr # p THEN [st EXCEPT !.pipes = l]
     ELSE [pipes |-> l, ptr |-> IF l = <<>> THEN NoPipe ELSE l[1], busy |-> FALSE]

mb_req_events(st, io) ==
  Events(st, io,
    (IF ~st.busy /\ mb_lb_can_send(st.pipes, io) THEN {"OUT"} ELSE {})
      \cup (IF st.busy /\ st.ptr # NoPipe /\ mb_pipe_has_msg(io, st.ptr)
            THEN {"IN"} ELSE {}))

(* Mutant: the pipe that took the request is not remembered. *)
mb_req_send_Unrouted(st, io, m) ==
  LET r == mb_lb_send(st.pipes, io, m)
  IN IF st.busy THEN Sent("EFSM", st, io)
     ELSE IF r.rc # "OK" THEN Sent(r.rc, st, r.io)
     ELSE Sent("OK", [st EXCEPT !.pipes = r.list, !.busy = TRUE], r.io)

\* The pipe that took the request is the last one of the list now.
mb_req_send(st, io, m) ==
  LET r == mb_lb_send(st.pipes, io, m)
  IN IF st.busy THEN Sent("EFSM", st, io)
     ELSE IF r.rc # "OK" THEN Sent(r.rc, st, r.io)
     ELSE Sent("OK", [pipes |-> r.list, ptr |-> Last(r.list), busy |-> TRUE], r.io)

mb_req_recv(st, io) ==
  LET r == mb_pipe_recv(io, st.ptr)
  IN IF ~st.busy THEN Received("EFSM", st, io, <<>>)
     ELSE IF st.ptr = NoPipe THEN Received("EAGAIN", st, io, <<>>)
     ELSE Received(r.rc, [st EXCEPT !.busy = r.rc # "OK"], r.io, r.msg)

-----------------------------------------------------------------------------
(* REP: pipes is the fair queue, lb the balancer, ptr is last_pipe. *)

mb_rep_create == [pipes |-> <<>>, lb |-> <<>>, ptr |-> NoPipe]

\* The second allocation may fail: the first list is rolled back.
mb_rep_add(st, p) ==
  Added([st EXCEPT !.pipes = mb_fq_activate(mb_fq_add(@, p), p),
                   !.lb = mb_lb_activate(mb_lb_add(@, p), p)])

mb_rep_rm(st, p) ==
  [pipes |-> mb_fq_rm(st.pipes, p), lb |-> mb_lb_rm(st.lb, p),
   ptr |-> IF st.ptr = p THEN NoPipe ELSE st.ptr]

mb_rep_events(st, io) ==
  Events(st, io,
    IF st.ptr # NoPipe
    THEN IF mb_pipe_can_send(io, st.ptr) THEN {"OUT"} ELSE {}
    ELSE IF mb_fq_can_recv(st.pipes, io) THEN {"IN"} ELSE {})

mb_rep_recv(st, io) ==
  LET r == mb_fq_recv_pipe(st.pipes, io)
  IN IF st.ptr # NoPipe THEN Received("EFSM", st, io, <<>>)
     ELSE Received(r.rc, [st EXCEPT !.pipes = r.list, !.ptr = r.pipe], r.io, r.msg)

\* EAGAIN keeps the route for a retry; any other answer ends it.
mb_rep_send(st, io, m) ==
  LET r == mb_pipe_send(io, st.ptr, m)
  IN IF st.ptr = NoPipe THEN Sent("EFSM", st, io)
     ELSE Sent(r.rc, [st EXCEPT !.ptr = IF r.rc = "EAGAIN" THEN @ ELSE NoPipe], r.io)

-----------------------------------------------------------------------------
(* XREQ: the balancer alone, read by probing its pipes. *)

mb_xreq_create == [pipes |-> <<>>]

mb_xreq_add(st, p) == Added([pipes |-> mb_lb_activate(mb_lb_add(st.pipes, p), p)])

mb_xreq_rm(st, p) == [pipes |-> mb_lb_rm(st.pipes, p)]

mb_xreq_events(st, io) == Events(st, io, Ready(st.pipes, io, TRUE, TRUE))

mb_xreq_send(st, io, m) == SendToOne(st, io, m)

mb_xreq_recv(st, io) == RecvFromAny(st, io)

(* XREP: no reply route; what is sent goes to the next pipe of the balancer. *)

mb_xrep_create == [pipes |-> <<>>, lb |-> <<>>]

mb_xrep_add(st, p) ==
  Added([pipes |-> mb_fq_activate(mb_fq_add(st.pipes, p), p),
         lb |-> mb_lb_activate(mb_lb_add(st.lb, p), p)])

mb_xrep_rm(st, p) == [pipes |-> mb_fq_rm(st.pipes, p), lb |-> mb_lb_rm(st.lb, p)]

mb_xrep_events(st, io) ==
  Events(st, io, Ready(st.pipes, io, TRUE, FALSE) \cup Ready(st.lb, io, FALSE, TRUE))

mb_xrep_send(st, io, m) ==
  LET r == mb_lb_send(st.lb, io, m)
  IN Sent(r.rc, [st EXCEPT !.lb = r.list], r.io)

mb_xrep_recv(st, io) == RecvFromAny(st, io)
=============================================================================
