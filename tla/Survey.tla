------------------------------- MODULE Survey -------------------------------
(***************************************************************************)
(* The survey sockets: src/protocol/survey/{surveyor,respondent,           *)
(* xsurveyor,xrespondent}.c.                                               *)
(*                                                                         *)
(* Time: left is survey_expire_ms - mb_clock_ms(), never below 0, so that  *)
(* "the clock has reached survey_expire_ms" is left = 0.  A survey sent    *)
(* without a deadline has survey_expire_ms = 0, hence left = 0.            *)
(***************************************************************************)
EXTENDS Balancers

CONSTANT Deadline   \* MB_SURVEYOR_DEFAULT_DEADLINE_MS, in ticks of the clock

mb_surveyor_create ==
  [pipes |-> <<>>, surveying |-> FALSE, timed_out |-> FALSE,
   deadline |-> Deadline, left |-> 0]

\* Every reply that is queued is dropped.
mb_surveyor_drain(st, io) ==
  [io EXCEPT !.in = [p \in DOMAIN @ |-> IF p \in Range(st.pipes)
                                      THEN Settle([@[p] EXCEPT !.msgs = <<>>, !.mem = 0]) ELSE @[p]]]

(* Mutant: an open survey is never closed by the clock. *)
mb_surveyor_check_deadline_Never(st, io) == [st |-> st, io |-> io]

mb_surveyor_check_deadline(st, io) ==
  IF st.surveying /\ st.deadline > 0 /\ st.left = 0
  THEN [st |-> [st EXCEPT !.surveying = FALSE, !.timed_out = TRUE],
        io |-> mb_surveyor_drain(st, io)]
  ELSE [st |-> st, io |-> io]

mb_surveyor_add(st, p) == Added([st EXCEPT !.pipes = Append(@, p)])

\* Nobody is left to answer: the survey is abandoned.
mb_surveyor_rm(st, p) ==
  LET l == Without(st.pipes, p)
  IN [st EXCEPT !.pipes = l, !.surveying = @ /\ l # <<>>]

mb_surveyor_events(st, io) ==
  LET c == mb_surveyor_check_deadline(st, io)
  IN Events(c.st, c.io, Ready(c.st.pipes, c.io, c.st.surveying, ~c.st.surveying))

mb_surveyor_send(st, io, m) ==
  LET c == mb_surveyor_check_deadline(st, io)
      d == mb_surveyor_drain(c.st, c.io)
      r == SendToAll(c.st, d, m)
  IN IF c.st.surveying THEN Sent("EFSM", c.st, c.io)
     ELSE IF r.rc # "OK" THEN Sent("EAGAIN", c.st, r.io)
     ELSE Sent("OK", [c.st EXCEPT !.surveying = TRUE, !.timed_out = FALSE,
                                  !.left = c.st.deadline], r.io)

mb_surveyor_recv(st, io) ==
  LET c == mb_surveyor_check_deadline(st, io)
  IN IF c.st.surveying THEN RecvFromAny(c.st, c.io)
     ELSE IF c.st.timed_out
     THEN Received("ETIMEDOUT", [c.st EXCEPT !.timed_out = FALSE], c.io, <<>>)
     ELSE Received("EFSM", c.st, c.io, <<>>)

\* A negative deadline is refused; an open survey keeps its expiry time.
mb_surveyor_setopt(st, ms) == IF ms < 0 THEN st ELSE [st EXCEPT !.deadline = ms]

-----------------------------------------------------------------------------
(* RESPONDENT: ptr is last_pipe. *)

mb_respondent_create == [pipes |-> <<>>, ptr |-> NoPipe]

mb_respondent_add(st, p) == Added([st EXCEPT !.pipes = Append(@, p)])

mb_respondent_rm(st, p) ==
  [pipes |-> Without(st.pipes, p), ptr |-> IF st.ptr = p THEN NoPipe ELSE st.ptr]

mb_respondent_events(st, io) ==
  Events(st, io,
    IF st.ptr # NoPipe
    THEN IF mb_pipe_can_send(io, st.ptr) THEN {"OUT"} ELSE {}
    ELSE Ready(st.pipes, io, TRUE, FALSE))

mb_respondent_recv(st, io) ==
  LET r == mb_fq_recv_pipe(st.pipes, io)
  IN IF st.ptr # NoPipe THEN Received("EFSM", st, io, <<>>)
     ELSE Received(r.rc, [pipes |-> r.list, ptr |-> r.pipe], r.io, r.msg)

(* Mutant: the reply goes to the first peer instead of the one that asked. *)
mb_respondent_send_Misrouted(st, io, m) ==
  LET r == mb_pipe_send(io, st.pipes[1], m)
  IN IF st.ptr = NoPipe THEN Sent("EFSM", st, io)
     ELSE Sent(r.rc, [st EXCEPT !.ptr = IF r.rc = "EAGAIN" THEN @ ELSE NoPipe], r.io)

mb_respondent_send(st, io, m) ==
  LET r == mb_pipe_send(io, st.ptr, m)
  IN IF st.ptr = NoPipe THEN Sent("EFSM", st, io)
     ELSE Sent(r.rc, [st EXCEPT !.ptr = IF r.rc = "EAGAIN" THEN @ ELSE NoPipe], r.io)

-----------------------------------------------------------------------------
(* The raw sockets keep no survey and no route. *)

mb_xsurveyor_create == [pipes |-> <<>>]

mb_xsurveyor_add(st, p) == Added([pipes |-> Append(st.pipes, p)])

mb_xsurveyor_rm(st, p) == [pipes |-> Without(st.pipes, p)]

mb_xsurveyor_events(st, io) == Events(st, io, Ready(st.pipes, io, TRUE, TRUE))

mb_xsurveyor_send(st, io, m) == SendToAll(st, io, m)

mb_xsurveyor_recv(st, io) == RecvFromAny(st, io)

mb_xrespondent_create == [pipes |-> <<>>]

mb_xrespondent_add(st, p) == Added([pipes |-> Append(st.pipes, p)])

mb_xrespondent_rm(st, p) == [pipes |-> Without(st.pipes, p)]

mb_xrespondent_events(st, io) == Events(st, io, Ready(st.pipes, io, TRUE, TRUE))

mb_xrespondent_send(st, io, m) == SendToOne(st, io, m)

mb_xrespondent_recv(st, io) == RecvFromAny(st, io)
=============================================================================
