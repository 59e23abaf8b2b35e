------------------------------ MODULE Streams -------------------------------
(***************************************************************************)
(* One connection of a stream transport: a session at each end, the bytes  *)
(* in both directions, and the calls the sockets make into the sessions.   *)
(*                                                                         *)
(* A net says which transport it is, how much the kernel buffers (cap),    *)
(* the options of the sockets (limit of a message by end, hwm, linger),    *)
(* how many messages of which lengths each end sends, which ends may be    *)
(* closed, what a call may find no memory for (ooms), and the script of    *)
(* frames that a foreign WebSocket peer sends: with a script the client    *)
(* end is not this program.  Its app says what the applications do for     *)
(* ever ("none": whatever they like).                                      *)
(***************************************************************************)
EXTENDS Sws, SequencesExt

CONSTANT Nets

VARIABLES net,     \* the net of this behaviour
          sess,    \* [End -> session]
          wire,    \* [End -> the bytes that End has sent and nobody has read]
          sent,    \* [End -> the messages that its session has taken]
          got,     \* [End -> the messages that its session has delivered]
          pos      \* how much of the script the foreign peer has sent

vars == <<net, sess, wire, sent, got, pos>>

Ends == {"client", "server"}
Peer(e) == IF e = "client" THEN "server" ELSE "client"

Foreign(e) == e = "client" /\ net.script # <<>>

Call(e) ==
  [oom |-> "none", s |-> sess[e], rx |-> wire[Peer(e)], tx |-> wire[e], up |-> sess[Peer(e)].open,
   cap |-> net.cap, limit |-> net.limit[e], hwm |-> net.hwm, linger |-> net.linger,
   client |-> e = "client", ssl |-> net.kind = "wss",
   rc |-> "ok", data |-> <<>>, msg |-> <<>>, took |-> FALSE]

(* The virtual functions of the pipe, by transport. *)
SessionSend(c, body) ==
  CASE net.kind = "ipc" -> mb_sipc_send(c, body)
    [] net.kind = "tls" -> mb_stls_send(c, body)
    [] net.kind \in {"ws", "wss"} -> mb_sws_send(c, body)

SessionRecv(c) ==
  CASE net.kind = "ipc" -> mb_sipc_recv(c)
    [] net.kind = "tls" -> mb_stls_recv(c)
    [] net.kind \in {"ws", "wss"} -> mb_sws_recv(c)

SessionHasMsg(c) ==
  CASE net.kind = "ipc" -> mb_sipc_has_msg(c)
    [] net.kind = "tls" -> mb_stls_has_msg(c)
    [] net.kind \in {"ws", "wss"} -> mb_sws_has_msg(c)

SessionCanSend(c) ==
  CASE net.kind = "ipc" -> mb_sipc_can_send(c)
    [] net.kind = "tls" -> mb_stls_can_send(c)
    [] net.kind \in {"ws", "wss"} -> mb_sws_can_send(c)

SessionStop(c) ==
  CASE net.kind = "ipc" -> mb_sipc_stop(c)
    [] net.kind = "tls" -> mb_stls_stop(c)
    [] net.kind \in {"ws", "wss"} -> mb_sws_stop(c)

SessionLinger(c, expired) ==
  CASE net.kind = "ipc" -> mb_sipc_linger_flush(c, expired)
    [] net.kind = "tls" -> mb_stls_linger_flush(c, expired)
    [] net.kind \in {"ws", "wss"} -> mb_sws_linger_flush(c, expired)

SessionCreate ==
  CASE net.kind = "ipc" -> mb_sipc_create
    [] net.kind = "tls" -> mb_stls_create
    [] net.kind \in {"ws", "wss"} -> mb_sws_create

Init ==
  /\ net \in Nets
  /\ sess = [e \in Ends |-> SessionCreate]
  /\ wire = [e \in Ends |-> <<>>]
  /\ sent = [e \in Ends |-> <<>>]
  /\ got = [e \in Ends |-> <<>>]
  /\ pos = 0

(* What a call of end e leaves behind. *)
Return(e, c) ==
  /\ sess' = [sess EXCEPT ![e] = c.s]
  /\ wire' = [wire EXCEPT ![e] = c.tx, ![Peer(e)] = c.rx]
  /\ UNCHANGED <<net, pos>>

(* The socket calls a session only while its pipe is registered. *)
Registered(e) == sess[e].phase = "active" /\ ~Foreign(e)

Send(e) ==
  /\ Registered(e)
  /\ Len(sent[e]) < net.sends
  /\ \E n \in net.lens : \E body \in {Body(Len(sent[e]) + 1, n)} :
       \E c \in {SessionSend([Call(e) EXCEPT !.oom = m], body) : m \in net.ooms} :
         /\ Return(e, c)
         /\ sent' = IF c.took THEN [sent EXCEPT ![e] = Append(@, body)] ELSE sent
  /\ UNCHANGED got

Recv(e) ==
  /\ Registered(e)
  /\ \E c \in {SessionRecv([Call(e) EXCEPT !.oom = m]) : m \in net.ooms} :
       /\ Return(e, c)
       /\ got' = IF c.rc = "ok" THEN [got EXCEPT ![e] = Append(@, c.msg)] ELSE got
  /\ UNCHANGED sent

(* The event functions of the socket, from any thread. *)
HasMsg(e) ==
  /\ Registered(e)
  /\ \E c \in {SessionHasMsg(Call(e))} : Return(e, c)
  /\ UNCHANGED <<sent, got>>

CanSend(e) ==
  /\ Registered(e)
  /\ \E c \in {SessionCanSend(Call(e))} : Return(e, c)
  /\ UNCHANGED <<sent, got>>

(* The endpoint is stopped. *)
Stop(e) ==
  /\ Registered(e)
  /\ e \in net.closers
  /\ \E c \in {SessionStop(Call(e))} : Return(e, c)
  /\ UNCHANGED <<sent, got>>

(* A turn of the linger loop, when the descriptor is writable. *)
Linger(e) ==
  /\ sess[e].phase = "linger"
  /\ Len(wire[e]) < net.cap \/ ~sess[Peer(e)].open
  /\ \E c \in {SessionLinger(Call(e), FALSE)} : Return(e, c)
  /\ UNCHANGED <<sent, got>>

LingerExpires(e) ==
  /\ sess[e].phase = "linger"
  /\ \E c \in {SessionLinger(Call(e), TRUE)} : Return(e, c)
  /\ UNCHANGED <<sent, got>>

(* A closed connection takes what was under way with it. *)
Reset(e) ==
  /\ ~sess[e].open
  /\ wire[e] # <<>>
  /\ wire' = [wire EXCEPT ![e] = <<>>]
  /\ UNCHANGED <<net, sess, sent, got, pos>>

(* A frame as the foreign client sends it: masked or not, whole or not,    *)
(* with a high part of its length or without.                              *)
ForeignFrame(f, units) ==
  LET frame == mb_sws_build_frame([Call("client") EXCEPT !.client = f.masked], f.opcode, units)
      cut == [frame EXCEPT ![1].v[1] = f.whole]
  IN  IF f.high THEN [cut EXCEPT ![3].v = 1] ELSE cut

(* A foreign client sends the frames of the script, as the kernel takes    *)
(* them, reads what it is sent, and may go away.                           *)
ForeignSend ==
  /\ sess["client"].open /\ sess["client"].outbuf = <<>> /\ pos < Len(net.script)
  /\ \E f \in {net.script[pos + 1]} :
       \E units \in {IF f.opcode = "BINARY" THEN <<Unit("h", Len(f.body))>> \o BodyUnits(f.body)
                     ELSE BodyUnits(f.body)} :
         /\ sess' = [sess EXCEPT !["client"].outbuf = ForeignFrame(f, units)]
         /\ sent' = IF f.opcode = "BINARY" THEN [sent EXCEPT !["client"] = Append(@, f.body)]
                    ELSE sent
  /\ pos' = pos + 1
  /\ UNCHANGED <<net, wire, got>>

ForeignWrite ==
  /\ Foreign("client") /\ sess["client"].outbuf # <<>>
  /\ sess["client"].open /\ sess["server"].open /\ Len(wire["client"]) < net.cap
  /\ \E c \in {mb_sws_send_raw(Call("client"))} : Return("client", c)
  /\ UNCHANGED <<sent, got>>

ForeignRead ==
  /\ Foreign("client") /\ wire["server"] # <<>>
  /\ wire' = [wire EXCEPT !["server"] = <<>>]
  /\ UNCHANGED <<net, sess, sent, got, pos>>

ForeignClose ==
  /\ Foreign("client") /\ sess["client"].open /\ "client" \in net.closers
  /\ Return("client", Closed(Call("client"), 0))
  /\ UNCHANGED <<sent, got>>

Next ==
  \/ \E e \in Ends : \/ Send(e) \/ Recv(e) \/ HasMsg(e) \/ CanSend(e)
                     \/ Stop(e) \/ Linger(e) \/ LingerExpires(e) \/ Reset(e)
  \/ ForeignSend \/ ForeignWrite \/ ForeignRead \/ ForeignClose

Spec == Init /\ [][Next]_vars

(* What the applications of a net do for ever: one blocked in mb_recv      *)
(* tries every pipe each millisecond; one in mb_poll asks for events in    *)
(* slices and receives when it is told to.                                 *)
Receiving(e) == net.app = "recv" /\ Recv(e)
Polling(e) == net.app = "poll" /\ HasMsg(e)
Readable(e) == net.app = "poll" /\ SessionHasMsg(Call(e)).rc = "yes" /\ Recv(e)

(* The foreign peer reads, and what it has begun to write goes out. *)
Fairness ==
  /\ \A e \in Ends : WF_vars(Receiving(e)) /\ WF_vars(Polling(e)) /\ WF_vars(Readable(e))
  /\ WF_vars(ForeignWrite) /\ WF_vars(ForeignRead)

FairSpec == Spec /\ Fairness

-----------------------------------------------------------------------------

(* The buffers of a session and of the kernel stay within their bounds. *)
TypeOK ==
  /\ net \in Nets
  /\ \A e \in Ends :
       /\ sess[e].phase \in {"active", "linger", "stuck", "stopped"}
       /\ sess[e].instate \in {"HDR", "BODY", "CTRL"}
       /\ sess[e].flight \in 0..1
       /\ Len(wire[e]) <= net.cap
       /\ sess[e].instate # "HDR" => Len(sess[e].inmsg) < sess[e].inlen

(* Whatever the kernel takes and returns at a time, an end delivers the    *)
(* messages its peer's session has taken, complete, unchanged and in       *)
(* order, and none it has not taken (mb_sipc_recv, mb_stls_recv,           *)
(* mb_sws_recv against the send of the same transport).                    *)
InOrder == \A e \in Ends : IsPrefix(got[Peer(e)], sent[e])

(* Bytes that have arrived are never invisible to a caller that waits for  *)
(* input: not behind the TLS layer, not behind a half-read frame           *)
(* (mb_sipc_has_msg, mb_stls_has_msg, mb_sws_has_msg).                     *)
NoHiddenInput ==
  \A e \in Ends :
    /\ Registered(e)
    /\ sess[Peer(e)].open
    /\ sess[e].pend # <<>> \/ wire[Peer(e)] # <<>>
    => SessionHasMsg(Call(e)).rc = "yes"

(* The linger of test_linger.c: a close with MB_LINGER waits until the     *)
(* frame has drained or the deadline has expired; it never waits for       *)
(* anything else.                                                          *)
StopReturns == \A e \in Ends : sess[e].phase # "stuck"

(* A message that a session has taken arrives, although both applications  *)
(* only wait for input, be it in mb_recv or in mb_poll: waiting for input  *)
(* moves the pending output on.  (In the nets with applications both ends  *)
(* stay open and take what the other may send.)                            *)
TakenArrives ==
  net.app # "none" /\ net.script = <<>> =>
    \A e \in Ends : []<>(got[Peer(e)] = sent[e])

(* A ping that arrives while a frame is pending is not forgotten: the      *)
(* application blocked in mb_recv answers it once the frame has left,      *)
(* unless the session ends.                                                *)
PingAnswered ==
  net.script # <<>> /\ net.app = "recv" =>
    (sess["server"].ponging ~> (~sess["server"].ponging \/ ~Registered("server")))
=============================================================================
