-------------------------------- MODULE Sws ---------------------------------
(***************************************************************************)
(* The session of the ws and wss transports: each message is one binary    *)
(* WebSocket frame, control frames of the peer come in between.  Over wss  *)
(* (c.ssl) the bytes go through TLS as in Stls.                            *)
(*                                                                         *)
(* The three length encodings of a frame start at 126 and 65536 bytes in   *)
(* the code, at SHORT and MID + 1 units here.  A mask key is one bit.      *)
(***************************************************************************)
EXTENDS Stls

SHORT == 2
MID == 2
PFX == 1         \* the length prefix in front of the body
CTRLMAX == 1     \* the longest control frame, 125 bytes
KEY == 1

mb_sws_create == NewSession
mb_sws_report_error(c) == mb_sipc_report_error(c)
mb_sws_stop(c) == mb_sipc_stop(c)
mb_sws_send_raw(c) == mb_sipc_send_fd(c)
mb_sws_flush_outbuf(c) == mb_sipc_flush_outbuf(c)
mb_sws_linger_flush(c, expired) == mb_sipc_linger_flush(c, expired)
mb_sws_can_send(c) == mb_sipc_can_send(c)
mb_sws_has_msg(c) == IF c.ssl THEN mb_stls_has_msg(c) ELSE mb_sipc_has_msg(c)

mb_ws_mask(units, key) == [i \in DOMAIN units |-> [units[i] EXCEPT !.x = (@ + key) % 2]]

(* The frame of a payload, masked when this end is the client: a whole     *)
(* frame (FIN is set, RSV is not) and its opcode, the mask bit and the     *)
(* length, or its encoding and the length; the longest encoding has a      *)
(* high part, which is 0.                                                  *)
mb_sws_build_frame(c, opcode, payload) ==
  LET len == Len(payload)
      masked == IF c.client THEN 1 ELSE 0
      code == IF len < SHORT THEN len ELSE IF len <= MID THEN SHORT ELSE SHORT + 1
      ext == IF len < SHORT THEN <<>>
             ELSE IF len <= MID THEN <<Unit("x", len)>>
             ELSE <<Unit("x", 0), Unit("x", len)>>
  IN  <<Unit("op", <<TRUE, opcode>>), Unit("ln", <<masked, code>>)>> \o ext
      \o (IF c.client THEN <<Unit("key", KEY)>> ELSE <<>>)
      \o mb_ws_mask(payload, masked * KEY)

(* A control frame is written past outbuf; when it does not fit, what fits *)
(* of it has been written.                                                 *)
mb_sws_send_all(c, units) ==
  LET w == Write(c, units)
  IN  IF w.c.rc = "ok" /\ w.n < Len(units) THEN Ret(w.c, "EAGAIN") ELSE w.c

mb_sws_send_frame(c, opcode, payload) ==
  IF c.oom = "ctrl" THEN Ret(c, "ENOMEM")
  ELSE mb_sws_send_all(c, mb_sws_build_frame(c, opcode, payload))

mb_sws_send_pong(c, payload) == mb_sws_send_frame(c, "PONG", payload)

(* Mutant: the pong is taken for sent whatever happens to it. *)
mb_sws_flush_pending_pong_Never(c) == Ret(c, "ok")

(* The answer to the last ping, if it is still owed. *)
mb_sws_flush_pending_pong(c) ==
  IF ~c.s.ponging THEN Ret(c, "ok")
  ELSE Then(mb_sws_send_pong(c, c.s.pong), LAMBDA d :
         LET e == [d EXCEPT !.s.ponging = FALSE, !.s.pong = <<>>]
         IN  IF d.rc = "EAGAIN" THEN d
             ELSE IF d.rc = "ok" THEN e
             ELSE mb_sws_report_error(e))

(* The answer that is owed, as long as no frame is half written. *)
TryPong(c) == IF c.s.outbuf = <<>> THEN mb_sws_flush_pending_pong(c) ELSE Ret(c, "ok")

mb_sws_send(c, body) ==
  LET p == TryPong(c)
      d == mb_sws_flush_outbuf(p)
      payload == <<Unit("h", Len(body))>> \o BodyUnits(body)
      t == [d EXCEPT !.took = TRUE, !.s.flight = @ + 1,
                     !.s.outbuf = mb_sws_build_frame(c, "BINARY", payload)]
      f == mb_sws_flush_outbuf(t)
  IN  IF ~c.s.open THEN Ret(mb_sws_report_error(c), "ECONNRESET")
      ELSE IF p.rc # "ok" THEN p
      ELSE IF d.rc # "ok" THEN d
      ELSE IF Len(body) > c.limit THEN Ret(d, "EMSGSIZE")
      ELSE IF c.oom = "msg" THEN Ret(d, "ENOMEM")
      ELSE IF c.hwm > 0 /\ d.s.flight >= c.hwm THEN Ret(d, "EAGAIN")
      ELSE IF f.rc = "EAGAIN" THEN Ret(f, "ok")
      ELSE IF f.rc # "ok" THEN f
      ELSE Ret(mb_sws_flush_pending_pong(f), "ok")

(* One read of at most n units. *)
mb_sws_do_recv(c, n) == IF c.ssl THEN SSL_read(c, n) ELSE mb_sipc_recv_fd(c, n)

(* Reads on until n units have been gathered. *)
ReadOn(c, n) == IF c.ssl THEN mb_stls_recv_ssl(c, n) ELSE mb_sipc_recv_fd(c, n)

Whole(hdr) == hdr[1].v[1]
Opcode(hdr) == hdr[1].v[2]
Masked(hdr) == hdr[2].v[1] = 1
LenCode(hdr) == hdr[2].v[2]
Extension(hdr) == IF LenCode(hdr) < SHORT THEN 0 ELSE LenCode(hdr) - SHORT + 1
Need(hdr) == 2 + Extension(hdr) + (IF Masked(hdr) THEN 1 ELSE 0)
PayloadLen(hdr) == IF LenCode(hdr) < SHORT THEN LenCode(hdr) ELSE hdr[2 + Extension(hdr)].v
TooLong(hdr) == LenCode(hdr) = SHORT + 1 /\ hdr[3].v # 0
MaskKey(hdr) == IF Masked(hdr) THEN hdr[Len(hdr)].v ELSE 0

Fail(c, rc) == mb_sws_report_error(Ret(c, rc))

NextFrame(c) == [c EXCEPT !.s.instate = "HDR", !.s.inhdr = <<>>, !.s.inmsg = <<>>]

(* A complete header decides how the payload is read: the peer must mask   *)
(* exactly when it is the client, send whole frames, use a known opcode,   *)
(* and stay within the limits.  A close frame is answered and ends it, and *)
(* so does a payload there is no memory for.                               *)
Header(c) ==
  LET hdr == c.s.inhdr
      opcode == Opcode(hdr)
      len == PayloadLen(hdr)
      quiet == [c EXCEPT !.s.outbuf = <<>>, !.s.ponging = FALSE]
  IN  IF Masked(hdr) = c.client \/ ~Whole(hdr) \/ opcode \notin {"BINARY", "CLOSE", "PING", "PONG"}
      THEN Fail(c, "EPROTO")
      ELSE IF TooLong(hdr) THEN Fail(c, "EMSGSIZE")
      ELSE IF opcode = "CLOSE"
      THEN Fail(mb_sws_send_frame(quiet, "CLOSE", <<>>), "ECONNRESET")
      ELSE IF opcode # "BINARY" /\ len > CTRLMAX THEN Fail(c, "EPROTO")
      ELSE IF opcode = "BINARY" /\ (len < PFX \/ len - PFX > c.limit) THEN Fail(c, "EMSGSIZE")
      ELSE IF len > 0 /\ c.oom = "msg" THEN Fail(c, "ENOMEM")
      ELSE [c EXCEPT !.s.instate = IF opcode = "BINARY" THEN "BODY" ELSE "CTRL",
                     !.s.inlen = len, !.s.inmsg = <<>>]

(* The header, first its two fixed units and then the rest. *)
RecvFixed(c) ==
  IF Len(c.s.inhdr) >= 2 THEN Ret(c, "ok")
  ELSE Then(mb_sws_do_recv(c, 2 - Len(c.s.inhdr)), LAMBDA d :
         LET e == [d EXCEPT !.s.inhdr = @ \o d.data]
         IN  IF d.rc = "EAGAIN" THEN d
             ELSE IF d.rc # "ok" THEN mb_sws_report_error(d)
             ELSE Ret(e, IF Len(e.s.inhdr) < 2 THEN "EAGAIN" ELSE "ok"))

RecvRest(c) ==
  LET need == Need(c.s.inhdr) - Len(c.s.inhdr)
  IN  IF need = 0 THEN Header(c)
      ELSE Then(ReadOn(c, need), LAMBDA d :
             LET e == [d EXCEPT !.s.inhdr = @ \o d.data]
             IN  IF d.rc = "EAGAIN" THEN d
                 ELSE IF d.rc # "ok" THEN mb_sws_report_error(d)
                 ELSE IF Len(d.data) < need THEN Ret(e, "EAGAIN")
                 ELSE Header(e))

RecvHeader(c) ==
  Then(RecvFixed(c), LAMBDA d : IF d.rc # "ok" THEN d ELSE RecvRest(d))

(* The payload of the frame, unmasked when it is all there. *)
RecvPayload(c) ==
  LET need == c.s.inlen - Len(c.s.inmsg)
      Unmasked(m) == Ret([m EXCEPT !.s.inmsg = mb_ws_mask(@, MaskKey(c.s.inhdr))], "ok")
  IN  IF need = 0 THEN Unmasked(c)
      ELSE Then(ReadOn(c, need), LAMBDA d :
             LET e == [d EXCEPT !.s.inmsg = @ \o d.data]
             IN  IF d.rc = "EAGAIN" THEN d
                 ELSE IF d.rc # "ok" THEN mb_sws_report_error(d)
                 ELSE IF Len(d.data) < need THEN Ret(e, "EAGAIN")
                 ELSE Unmasked(e))

(* A ping is owed a pong with its payload, which is tried at once; a pong  *)
(* is ignored.  Whatever is owed is tried once more after either.          *)
Control(c) ==
  Then(IF Opcode(c.s.inhdr) # "PING" THEN c
       ELSE TryPong([c EXCEPT !.s.ponging = TRUE, !.s.pong = c.s.inmsg]), LAMBDA d :
    IF d.rc \notin {"ok", "EAGAIN"} THEN NextFrame(d)
    ELSE Ret(TryPong(NextFrame(d)), "again"))

(* The body of a binary frame starts with the length of the message. *)
Binary(c) ==
  LET len == c.s.inmsg[1].v
  IN  IF len > c.s.inlen - PFX \/ len > c.limit THEN Fail(c, "EMSGSIZE")
      ELSE IF len > 0 /\ c.oom = "msg" THEN Fail(NextFrame(c), "ENOMEM")
      ELSE Deliver([c EXCEPT !.s.inmsg = SubSeq(@, PFX + 1, PFX + len)])

(* The loop of mb_sws_recv: frames until one is a message. *)
RECURSIVE Frames(_)
Frames(c) ==
  Then(IF c.s.instate = "HDR" THEN RecvHeader(Ret(c, "ok")) ELSE Ret(c, "ok"), LAMBDA b :
    IF b.rc # "ok" THEN b
    ELSE Then(RecvPayload(b), LAMBDA p :
           IF p.rc # "ok" THEN p
           ELSE IF p.s.instate = "BODY" THEN Binary(p)
           ELSE Then(Control(p), LAMBDA k :
                  IF k.rc # "again" THEN k
                  ELSE IF k.s.phase # "active" THEN Ret(k, "EBADF") ELSE Frames(k))))

mb_sws_recv(c) ==
  IF ~c.s.open THEN Ret(mb_sws_report_error(c), "ECONNRESET")
  ELSE Then(mb_sws_flush_outbuf(c), LAMBDA d :
         IF d.rc \notin {"ok", "EAGAIN"} THEN d
         ELSE Then(TryPong(d), LAMBDA p :
                IF p.s.phase # "active" THEN Ret(p, "EBADF") ELSE Frames(p)))
=============================================================================
