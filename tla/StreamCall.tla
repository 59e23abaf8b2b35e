----------------------------- MODULE StreamCall -----------------------------
(***************************************************************************)
(* What the stream sessions (mb_sipc, mb_stls, mb_sws) share: the bytes of *)
(* a connection and one call into a session.                               *)
(*                                                                         *)
(* A byte is a unit [k, v, x]: its role in the frame, its value, and the   *)
(* mask bit it is XORed with (0 when it travels in the clear).  A call c   *)
(* carries the session c.s it works on, the bytes that have arrived (c.rx) *)
(* and those on their way to the peer (c.tx, at most c.cap: the kernel's   *)
(* buffers), whether the peer's end is open (c.up), the options of the     *)
(* socket, what there is no memory for during the call (c.oom: "msg" for a *)
(* message, "ctrl" for a control frame, "none"), and the result: c.rc, the *)
(* bytes read c.data, the message c.msg, and whether the session took the  *)
(* message it was given (c.took).  A position (inpos, outpos) is what has  *)
(* been gathered or is still to go.                                        *)
(***************************************************************************)
EXTENDS Integers, Sequences, FiniteSetsExt

Unit(k, v) == [k |-> k, v |-> v, x |-> 0]

(* The bytes of the id-th message, n of them, all different. *)
Body(id, n) == [i \in 1..n |-> 8 * id + i]
BodyUnits(body) == [i \in DOMAIN body |-> Unit("b", body[i])]

(* The rest of a call, Op, goes on from the outcome v of a step of it. *)
Then(v, Op(_)) == CHOOSE r \in {Op(w) : w \in {v}} : TRUE

Ret(c, rc) == [c EXCEPT !.rc = rc]

Take(units, n) == SubSeq(units, 1, Min({n, Len(units)}))
Rest(units, n) == SubSeq(units, n + 1, Len(units))

(* What the kernel accepts of the units: nothing when its buffer is full,  *)
(* an error when the peer is gone.                                         *)
Write(c, units) ==
  LET n == Min({c.cap - Len(c.tx), Len(units)})
  IN  IF ~c.up THEN [n |-> 0, c |-> Ret(c, "EPIPE")]
      ELSE [n |-> n, c |-> [c EXCEPT !.tx = @ \o SubSeq(units, 1, n),
                                     !.rc = IF n = 0 THEN "EAGAIN" ELSE "ok"]]

(* mb_sipc_create: a session on a connected descriptor, its pipe started   *)
(* and its error callback set.                                             *)
NewSession ==
  [open |-> TRUE, disc |-> FALSE, phase |-> "active",
   instate |-> "HDR", inhdr |-> <<>>, inlen |-> 0, inmsg |-> <<>>,
   outbuf |-> <<>>, flight |-> 0, pend |-> <<>>,
   ponging |-> FALSE, pong |-> <<>>, outcome |-> 0]

(* The end of mb_sipc_stop: what was not written is dropped, the           *)
(* descriptor is closed.                                                   *)
Closed(c, outcome) ==
  [c EXCEPT !.s.outbuf = <<>>, !.s.pend = <<>>, !.s.open = FALSE,
            !.s.phase = "stopped", !.s.outcome = outcome]

(* The message gathered in inmsg goes to the caller. *)
Deliver(c) ==
  [c EXCEPT !.rc = "ok", !.msg = [i \in DOMAIN c.s.inmsg |-> c.s.inmsg[i].v],
            !.s.instate = "HDR", !.s.inhdr = <<>>, !.s.inmsg = <<>>]
=============================================================================
