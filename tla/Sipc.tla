-------------------------------- MODULE Sipc --------------------------------
(***************************************************************************)
(* The session of the ipc and tcp transports: messages framed by a length  *)
(* header on a non-blocking descriptor.                                    *)
(***************************************************************************)
EXTENDS StreamCall

(* MB_SIPC_HDR_SIZE, in units: long enough to arrive in two reads. *)
HDR == 2

mb_wire_put_uint32(n) == [i \in 1..HDR |-> Unit("h", n)]
mb_wire_get_uint32(hdr) == hdr[HDR].v

mb_sipc_create == NewSession

(* The pipe leaves the socket.  A frame still pending is lingered for      *)
(* (mb_sipc_linger_flush), if the socket asks for it; then the descriptor  *)
(* is closed.                                                              *)
mb_sipc_stop(c) ==
  IF c.s.outbuf # <<>> /\ c.s.open /\ c.linger > 0
  THEN [c EXCEPT !.s.phase = "linger"]
  ELSE Closed(c, 1)

(* The first error calls the endpoint, which stops the session under its   *)
(* lock (mb_cipc_on_disconnect, mb_bipc_on_session_error).  An endpoint    *)
(* that is lingering holds that lock already, and never gets it again.     *)
mb_sipc_report_error(c) ==
  LET d == [c EXCEPT !.s.disc = TRUE]
  IN  IF c.s.disc THEN c
      ELSE IF c.s.phase = "linger" THEN [d EXCEPT !.s.phase = "stuck"]
      ELSE mb_sipc_stop(d)

(* Writes what the kernel takes of outbuf. *)
mb_sipc_send_fd(c) ==
  LET w == Write(c, c.s.outbuf)
  IN  [w.c EXCEPT !.s.outbuf = Rest(@, w.n)]

(* Drains the accepted frame as far as the kernel takes it: sent is what   *)
(* the transport's send leaves of the connection c.                        *)
Flushed(c, sent) ==
  IF c.s.outbuf = <<>> THEN Ret(c, "ok")
  ELSE IF ~c.s.open THEN Ret(c, "ECONNRESET")
  ELSE Then(sent, LAMBDA d :
         IF d.rc = "EPIPE" THEN mb_sipc_report_error(d)
         ELSE IF d.s.outbuf # <<>> THEN Ret(d, "EAGAIN")
         ELSE Ret([d EXCEPT !.s.flight = Max({@ - 1, 0})], "ok"))

mb_sipc_flush_outbuf(c) == Flushed(c, mb_sipc_send_fd(c))

(* One turn of the linger loop: the deadline passes, or the descriptor is  *)
(* writable and the frame moves on.  The outcome is 1 when it all left.    *)
mb_sipc_linger_flush(c, expired) ==
  LET d == mb_sipc_flush_outbuf(c)
  IN  IF expired THEN Closed(c, 2)
      ELSE IF d.rc = "EAGAIN" \/ d.s.phase = "stuck" THEN d
      ELSE Closed(d, IF d.s.outbuf = <<>> THEN 1 ELSE 2)

(* Mutant: a new frame replaces one that has not left completely. *)
mb_sipc_send_Overwrites(c, body) ==
  LET t == [c EXCEPT !.took = TRUE, !.s.flight = 1,
                     !.s.outbuf = mb_wire_put_uint32(Len(body)) \o BodyUnits(body)]
      f == mb_sipc_flush_outbuf(t)
  IN  IF f.rc = "EAGAIN" THEN Ret(f, "ok") ELSE f

(* A message is taken only once the previous frame has left; EAGAIN after  *)
(* that means it is pending, not that it was refused.                      *)
mb_sipc_send(c, body) ==
  LET d == mb_sipc_flush_outbuf(c)
      t == [d EXCEPT !.took = TRUE, !.s.flight = @ + 1,
                     !.s.outbuf = mb_wire_put_uint32(Len(body)) \o BodyUnits(body)]
      f == mb_sipc_flush_outbuf(t)
  IN  IF ~c.s.open THEN Ret(mb_sipc_report_error(c), "ECONNRESET")
      ELSE IF d.rc # "ok" THEN d
      ELSE IF Len(body) > c.limit THEN Ret(d, "EMSGSIZE")
      ELSE IF c.hwm > 0 /\ d.s.flight >= c.hwm THEN Ret(d, "EAGAIN")
      ELSE IF c.oom = "msg" THEN Ret(d, "ENOMEM")
      ELSE IF f.rc = "EAGAIN" THEN Ret(f, "ok")
      ELSE f

(* Reads up to n units. *)
mb_sipc_recv_fd(c, n) ==
  IF c.rx = <<>>
  THEN Ret([c EXCEPT !.data = <<>>], IF c.up THEN "EAGAIN" ELSE "ECONNRESET")
  ELSE Ret([c EXCEPT !.data = Take(c.rx, n), !.rx = Rest(c.rx, Len(Take(c.rx, n)))], "ok")

(* The states HDR and BODY of mb_sipc_recv, for the reader that delivers   *)
(* the units: mb_sipc_recv_fd(c, n) or mb_stls_recv_ssl(c, n).             *)
RecvBody(c, Read(_, _)) ==
  IF c.s.inlen = 0 THEN Deliver(c)
  ELSE Then(Read(c, c.s.inlen - Len(c.s.inmsg)), LAMBDA d :
         LET e == [d EXCEPT !.s.inmsg = @ \o d.data]
         IN  IF d.rc = "EAGAIN" THEN d
             ELSE IF d.rc = "ECONNRESET" THEN mb_sipc_report_error(d)
             ELSE IF Len(e.s.inmsg) < e.s.inlen THEN Ret(e, "EAGAIN")
             ELSE Deliver(e))

RecvHdr(c, Read(_, _)) ==
  Then(Read(c, HDR - Len(c.s.inhdr)), LAMBDA d :
    LET e == [d EXCEPT !.s.inhdr = @ \o d.data]
        size == mb_wire_get_uint32(e.s.inhdr)
    IN  IF d.rc = "EAGAIN" THEN d
        ELSE IF d.rc = "ECONNRESET" THEN mb_sipc_report_error(d)
        ELSE IF Len(e.s.inhdr) < HDR THEN Ret(e, "EAGAIN")
        ELSE IF size > e.limit THEN mb_sipc_report_error(Ret(e, "EMSGSIZE"))
        ELSE IF size > 0 /\ e.oom = "msg" THEN mb_sipc_report_error(Ret(e, "ENOMEM"))
        ELSE Then([e EXCEPT !.s.instate = "BODY", !.s.inlen = size, !.s.inmsg = <<>>],
                  LAMBDA b : RecvBody(b, Read)))

(* Pending output is moved on first, and does not hold up the input. *)
mb_sipc_recv(c) ==
  IF ~c.s.open THEN Ret(mb_sipc_report_error(c), "ECONNRESET")
  ELSE Then(mb_sipc_flush_outbuf(c), LAMBDA d :
         IF d.rc \notin {"ok", "EAGAIN"} THEN d
         ELSE IF d.rx = <<>> /\ d.up THEN Ret(d, "EAGAIN")
         ELSE IF d.s.instate = "HDR" THEN RecvHdr(d, mb_sipc_recv_fd)
         ELSE RecvBody(d, mb_sipc_recv_fd))

(* Mutant: a caller that waits for input leaves the output where it is. *)
mb_sipc_has_msg_NoFlush(c) ==
  Ret(c, IF c.s.open /\ ~c.s.disc /\ (c.rx # <<>> \/ ~c.up) THEN "yes" ELSE "no")

(* Is there something to read?  Moves pending output on as well. *)
mb_sipc_has_msg(c) ==
  IF ~c.s.open \/ c.s.disc THEN Ret(c, "no")
  ELSE Then(mb_sipc_flush_outbuf(c), LAMBDA d :
         IF d.rc \notin {"ok", "EAGAIN"} THEN Ret(d, "no")
         ELSE Ret(d, IF d.rx # <<>> \/ ~d.up THEN "yes" ELSE "no"))

(* Can a message be taken?  Only when the previous frame has left. *)
mb_sipc_can_send(c) ==
  LET d == mb_sipc_flush_outbuf(c)
      writable == Len(c.tx) < c.cap \/ ~c.up
  IN  IF ~c.s.open \/ c.s.disc THEN Ret(c, "no")
      ELSE IF c.s.outbuf = <<>> THEN Ret(c, "yes")
      ELSE IF ~writable THEN Ret(c, "no")
      ELSE Ret(d, IF d.rc = "ok" THEN "yes" ELSE "no")
=============================================================================
