-------------------------------- MODULE Stls --------------------------------
(***************************************************************************)
(* The session of the tls transport: the frames of Sipc inside TLS         *)
(* records.  SSL_read takes a whole record from the descriptor and keeps   *)
(* what it was not asked for (s.pend), where poll cannot see it.           *)
(***************************************************************************)
EXTENDS Sipc

mb_stls_create == mb_sipc_create
mb_stls_report_error(c) == mb_sipc_report_error(c)
mb_stls_stop(c) == mb_sipc_stop(c)
mb_stls_send_ssl(c) == mb_sipc_send_fd(c)
mb_stls_flush_outbuf(c) == Flushed(c, mb_stls_send_ssl(c))
mb_stls_linger_flush(c, expired) == mb_sipc_linger_flush(c, expired)
mb_stls_send(c, body) == mb_sipc_send(c, body)

(* SSL_read: from what is left of the last record, or from the next one. *)
SSL_read(c, n) ==
  LET units == IF c.s.pend # <<>> THEN c.s.pend ELSE c.rx
      left == IF c.s.pend # <<>> THEN c.rx ELSE <<>>
  IN  Ret([c EXCEPT !.data = Take(units, n), !.s.pend = Rest(units, Len(Take(units, n))),
                    !.rx = left],
          IF units # <<>> THEN "ok" ELSE IF c.up THEN "EAGAIN" ELSE "ECONNRESET")

(* Reads until n units are there or nothing is left: at most two records. *)
mb_stls_recv_ssl(c, n) ==
  Then(SSL_read(c, n), LAMBDA d :
    LET e == SSL_read(d, n - Len(d.data))
    IN  IF d.rc # "ok" \/ Len(d.data) = n \/ e.rc # "ok" THEN d
        ELSE [e EXCEPT !.data = d.data \o e.data])

mb_stls_recv(c) ==
  IF ~c.s.open THEN Ret(mb_stls_report_error(c), "ECONNRESET")
  ELSE Then(mb_stls_flush_outbuf(c), LAMBDA d :
         IF d.rc \notin {"ok", "EAGAIN"} THEN d
         ELSE IF d.s.instate = "HDR" THEN RecvHdr(d, mb_stls_recv_ssl)
         ELSE RecvBody(d, mb_stls_recv_ssl))

(* Mutant: only the descriptor is asked. *)
mb_stls_has_msg_PollOnly(c) == mb_sipc_has_msg(c)

(* Bytes that SSL_read has kept count as readable. *)
mb_stls_has_msg(c) ==
  Then(mb_sipc_has_msg(c), LAMBDA d :
    IF d.rc = "no" /\ d.s.open /\ ~d.s.disc /\ d.s.pend # <<>> THEN Ret(d, "yes") ELSE d)

mb_stls_can_send(c) == mb_sipc_can_send(c)
=============================================================================
