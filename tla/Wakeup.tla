------------------------------- MODULE Wakeup -------------------------------
(***************************************************************************)
(* Readiness of two connected inproc PAIR sockets, A sending to B: the     *)
(* pollable descriptors A.sndfd and B.rcvfd (pal/efd.c) against the queue  *)
(* of B's pipe, under every interleaving of a thread in mb_sock_send (A)   *)
(* (inside A's ctx), one in mb_sock_recv (B) (inside B's ctx) and one in   *)
(* mb_setsockopt (B, MB_RCVBUF), which takes no ctx.  The sender touches   *)
(* B's queue and B.rcvfd, the receiver and the option thread touch A.sndfd.*)
(* The other direction has a queue and descriptors of its own.             *)
(*                                                                         *)
(* A call is a stack of frames, the innermost first; a frame is one atomic *)
(* access to the shared state and is replaced by the frames it leads to.   *)
(***************************************************************************)
EXTENDS FifoOps

VARIABLES q,          \* queue of B's pipe
          rcvbuf,     \* B's MB_RCVBUF
          signaled,   \* struct mb_efd.signaled of "rcv" (B.rcvfd) and "snd" (A.sndfd)
          readable,   \* their eventfd counter is not zero: poll () reports them
          stack       \* the frames of the three threads

vars == <<q, rcvbuf, signaled, readable, stack>>

Threads == {"sender", "receiver", "option"}
Efds == {"rcv", "snd"}

Frame(label, arg) == [label |-> label, arg |-> arg]
Top(t, label) == stack[t] # <<>> /\ Head(stack[t]).label = label
Arg(t) == Head(stack[t]).arg
Replace(t, frames) == stack' = [stack EXCEPT ![t] = frames \o Tail(@)]

(* The calls other functions are made of. *)
Signal(e) == <<Frame("signal", e)>>
Unsignal(e) == <<Frame("unsignal", e)>>
SyncMaxmem == <<Frame("read_rcvbuf", 0)>>
SyncSndfd == SyncMaxmem \o <<Frame("sync_sndfd", 1)>>
SyncRcvfd == <<Frame("sync_rcvfd", 1)>>

(* Right after mb_sinproc_connect: writable, nothing to read. *)
Init ==
  /\ rcvbuf \in Limits
  /\ q = EmptyQueue(rcvbuf)
  /\ signaled = [e \in Efds |-> e = "snd"]
  /\ readable = [e \in Efds |-> e = "snd"]
  /\ stack = [t \in Threads |-> <<>>]

-----------------------------------------------------------------------------
(* pal/efd.c *)

EfdSignal(t) ==
  /\ Top(t, "signal")
  /\ IF signaled[Arg(t)] THEN Replace(t, <<>>) /\ UNCHANGED signaled
     ELSE /\ signaled' = [signaled EXCEPT ![Arg(t)] = TRUE]
          /\ Replace(t, <<Frame("write", Arg(t))>>)
  /\ UNCHANGED <<q, rcvbuf, readable>>

EfdWrite(t) ==
  /\ Top(t, "write")
  /\ readable' = [readable EXCEPT ![Arg(t)] = TRUE]
  /\ Replace(t, <<>>)
  /\ UNCHANGED <<q, rcvbuf, signaled>>

EfdUnsignal(t) ==
  /\ Top(t, "unsignal")
  /\ signaled' = [signaled EXCEPT ![Arg(t)] = FALSE]
  /\ Replace(t, <<Frame("drain", Arg(t))>>)
  /\ UNCHANGED <<q, rcvbuf, readable>>

EfdDrain(t) ==
  /\ Top(t, "drain")
  /\ readable' = [readable EXCEPT ![Arg(t)] = FALSE]
  /\ Replace(t, <<Frame("rearm", Arg(t))>>)
  /\ UNCHANGED <<q, rcvbuf, signaled>>

(* A signal that came after the flag was cleared may have been drained. *)
EfdRearm(t) ==
  /\ Top(t, "rearm")
  /\ Replace(t, IF signaled[Arg(t)] THEN <<Frame("write", Arg(t))>> ELSE <<>>)
  /\ UNCHANGED <<q, rcvbuf, signaled, readable>>

-----------------------------------------------------------------------------
(* mb_sinproc_sync_maxmem reads B's option without a lock, then sets the    *)
(* limit under the queue's mutex.                                           *)

ReadRcvbuf(t) ==
  /\ Top(t, "read_rcvbuf")
  /\ Replace(t, <<Frame("set_maxmem", rcvbuf)>>)
  /\ UNCHANGED <<q, rcvbuf, signaled, readable>>

QueueSetMaxmem(t) ==
  /\ Top(t, "set_maxmem")
  /\ q' = SetMaxmem(q, Arg(t))
  /\ Replace(t, <<>>)
  /\ UNCHANGED <<rcvbuf, signaled, readable>>

(* mb_sock_sync_sndfd (A) / mb_sock_sync_rcvfd (B): events (), and when the  *)
(* event is absent unsignal and events () once more.                         *)
SyncSnd(t) ==
  /\ Top(t, "sync_sndfd")
  /\ Replace(t, CASE CanPush(q) -> Signal("snd")
                  [] ~CanPush(q) /\ Arg(t) = 1 ->
                       Unsignal("snd") \o SyncMaxmem \o <<Frame("sync_sndfd", 2)>>
                  [] OTHER -> <<>>)
  /\ UNCHANGED <<q, rcvbuf, signaled, readable>>

SyncRcv(t) ==
  /\ Top(t, "sync_rcvfd")
  /\ Replace(t, CASE q.msgs # <<>> -> Signal("rcv")
                  [] q.msgs = <<>> /\ Arg(t) = 1 ->
                       Unsignal("rcv") \o <<Frame("sync_rcvfd", 2)>>
                  [] OTHER -> <<>>)
  /\ UNCHANGED <<q, rcvbuf, signaled, readable>>

-----------------------------------------------------------------------------
(* mb_sock_send (A) *)

Send(sz) ==
  /\ stack["sender"] = <<>>
  /\ stack' = [stack EXCEPT !["sender"] =
                 SyncMaxmem \o <<Frame("push", sz)>> \o SyncSndfd]
  /\ UNCHANGED <<q, rcvbuf, signaled, readable>>

(* Mutant: the answer of the push is taken the wrong way round. *)
PushWakesWrongly(t) ==
  /\ Top(t, "push")
  /\ q' = IF Fits(q, CheckSz(Arg(t))) THEN Pushed(q, Arg(t)) ELSE Refused(q, Arg(t))
  /\ Replace(t, IF q.msgs # <<>> THEN Signal("rcv") ELSE <<>>)
  /\ UNCHANGED <<rcvbuf, signaled, readable>>

(* The push tells whether the queue was empty: only then B is woken. *)
Push(t) ==
  /\ Top(t, "push")
  /\ IF Fits(q, CheckSz(Arg(t)))
     THEN /\ q' = Pushed(q, Arg(t))
          /\ Replace(t, IF q.msgs = <<>> THEN Signal("rcv") ELSE <<>>)
     ELSE q' = Refused(q, Arg(t)) /\ Replace(t, <<>>)
  /\ UNCHANGED <<rcvbuf, signaled, readable>>

-----------------------------------------------------------------------------
(* mb_sock_recv (B) *)

Recv ==
  /\ stack["receiver"] = <<>>
  /\ stack' = [stack EXCEPT !["receiver"] = <<Frame("is_empty", 0)>> \o SyncRcvfd]
  /\ UNCHANGED <<q, rcvbuf, signaled, readable>>

IsEmpty(t) ==
  /\ Top(t, "is_empty")
  /\ Replace(t, IF q.msgs = <<>> THEN <<>>
                ELSE <<Frame("pop", 0)>> \o Unsignal("rcv") \o <<Frame("more", 0)>>
                     \o SyncMaxmem \o <<Frame("room", 0)>>)
  /\ UNCHANGED <<q, rcvbuf, signaled, readable>>

Pop(t) ==
  /\ Top(t, "pop")
  /\ q' = Popped(q)
  /\ Replace(t, <<>>)
  /\ UNCHANGED <<rcvbuf, signaled, readable>>

More(t) ==
  /\ Top(t, "more")
  /\ Replace(t, IF q.msgs # <<>> THEN Signal("rcv") ELSE <<>>)
  /\ UNCHANGED <<q, rcvbuf, signaled, readable>>

(* Mutant: the receiver does not wake a sender blocked on its buffer. *)
RoomUnannounced(t) ==
  /\ Top(t, "room")
  /\ Replace(t, <<>>)
  /\ UNCHANGED <<q, rcvbuf, signaled, readable>>

(* The peer may have been blocked on B's buffer. *)
Room(t) ==
  /\ Top(t, "room")
  /\ Replace(t, IF CanPush(q) THEN Signal("snd") ELSE <<>>)
  /\ UNCHANGED <<q, rcvbuf, signaled, readable>>

(* mb_sock_setopt (B, MB_RCVBUF) and mb_sinproc_on_rcvbuf *)
SetRcvbuf(n) ==
  /\ stack["option"] = <<>>
  /\ rcvbuf' = n
  /\ stack' = [stack EXCEPT !["option"] = SyncMaxmem \o SyncSndfd]
  /\ UNCHANGED <<q, signaled, readable>>

Begin == \/ \E sz \in Sizes : Send(sz)
         \/ Recv
         \/ \E n \in Limits : SetRcvbuf(n)

Step(t) == \/ EfdSignal(t) \/ EfdWrite(t) \/ EfdUnsignal(t) \/ EfdDrain(t) \/ EfdRearm(t)
           \/ ReadRcvbuf(t) \/ QueueSetMaxmem(t) \/ SyncSnd(t) \/ SyncRcv(t)
           \/ Push(t) \/ IsEmpty(t) \/ Pop(t) \/ More(t) \/ Room(t)

Next == Begin \/ \E t \in Threads : Step(t)

(* A call that has begun is scheduled; nobody has to begin one. *)
Spec == Init /\ [][Next]_vars
FairSpec == Spec /\ \A t \in Threads : WF_vars(Step(t))

-----------------------------------------------------------------------------
(* Properties *)

(* The queue never holds more than its limit allowed when a message was     *)
(* pushed, the flags are flags and a call runs to its end.                  *)
TypeOK ==
  /\ rcvbuf \in Limits
  /\ q.msgs \in Seq(Sizes) /\ q.maxmem \in Limits /\ q.pending \in Nat
  /\ \E n \in Limits : Mem(q.msgs) <= n
  /\ signaled \in [Efds -> BOOLEAN] /\ readable \in [Efds -> BOOLEAN]
  /\ \A t \in Threads : Len(stack[t]) <= 6

AtRest == \A t \in Threads : stack[t] = <<>>

(* What events () would say of A, with B's option taken over. *)
Writable == CanPush(SetMaxmem(q, rcvbuf))

(* No POLLOUT is lost: when no call is in progress, room in B's buffer      *)
(* shows on A's MB_SNDFD: "Inproc peers may be blocked on the old maxmem -  *)
(* wake them" (core/sock.c:266), "Peer may have blocked on our RCVBUF -     *)
(* wake its POLLOUT" (sinproc.c:207).                                       *)
NoLostPollOut == AtRest /\ Writable => readable["snd"]

(* While other calls go on and on, a message that stays in the queue makes  *)
(* B's MB_RCVFD readable (mb_sinproc_send).                                 *)
MessageAnnounced == q.msgs # <<>> ~> (q.msgs = <<>> \/ readable["rcv"])

(* Room that stays under the limit the queue works with makes A's MB_SNDFD  *)
(* readable, whether a receive or a larger MB_RCVBUF made it                *)
(* (mb_sinproc_recv, mb_sinproc_on_rcvbuf).  The limit may be older than    *)
(* the option: NoLostPollOut, about the option, fails.                      *)
RoomAnnounced == CanPush(q) ~> (~CanPush(q) \/ readable["snd"])

(* "Keep MB_SNDFD / MB_RCVFD aligned with sockbase events() after ...       *)
(* send/recv FSM transitions" (core/sock.c:21-22): at rest MB_RCVFD is not  *)
(* readable when nothing is queued.                                         *)
NoStickyPollIn == AtRest /\ readable["rcv"] => q.msgs # <<>>
=============================================================================
