------------------------------ MODULE Patterns ------------------------------
(***************************************************************************)
(* Sockets of every protocol joined by inproc pipes.  The sockets' states  *)
(* and operations are those of ReqRep, Survey, PubSub and OneToMany; this  *)
(* module adds what src/core/sock.c does around a protocol's operation     *)
(* (mb_sock_send, mb_sock_recv, mb_sock_pipe_add, mb_sock_pipe_rm and the  *)
(* synchronisation of the event descriptors after each of them), and the   *)
(* device of src/core/device.c.                                            *)
(*                                                                         *)
(* A call holds its socket's context for its whole length and looks at     *)
(* each pipe once, so it is one step here; mb_pub_send, which looks at its *)
(* pipes again and again, takes one step for each pass over them.          *)
(***************************************************************************)
EXTENDS ReqRep, Survey, PubSub, OneToMany

CONSTANTS
  Topologies,   \* sequence of networks to explore, see MCPatterns
  MaxSend       \* messages are numbered below MaxSend

VARIABLES
  topo,   \* the network explored: an index into Topologies
  st,     \* st[s]: state of the protocol of socket s
  live,   \* pipes that are connected; a pipe is <<connector, binder>>
  q,      \* q[p][i]: queue of the messages for end i of pipe p
  n,      \* n[s]: number of the next message of s
  ask,    \* ask[s]: the last request or survey of s (history)
  cur,    \* cur[s]: the last message s received, since it asked (history)
  seen,   \* seen[s]: the messages s has received (history)
  subs,   \* subs[s]: the words s is subscribed to (history)
  call,   \* call[s]: progress of an mb_pub_send
  dev     \* the device thread: message in hand and direction

vars == <<topo, st, live, q, n, ask, cur, seen, subs, call, dev>>

\* (A definition of its own: TLC then evaluates the sequence only once.)
Networks == Topologies
Net == Networks[topo]
AllSocks == UNION {DOMAIN t.type : t \in Range(Topologies)}
Socks == DOMAIN Net.type
Links == Net.links
Type(s) == Net.type[s]

Idle == [phase |-> "idle", msg |-> <<>>, tries |-> 0]

End(p, s) == IF p[1] = s THEN 1 ELSE 2
Peer(p, s) == IF p[1] = s THEN p[2] ELSE p[1]
Mine(s, L) == {p \in L : p[1] = s \/ p[2] = s}

Id(m) == <<m.src, m.num>>

Askers == {"REQ", "SURVEYOR"}
Answerers == {"REP", "RESPONDENT"}

-----------------------------------------------------------------------------
(* The virtual functions of a sockbase *)

Create(t) ==
  CASE t = "REQ" -> mb_req_create [] t = "REP" -> mb_rep_create
    [] t = "XREQ" -> mb_xreq_create [] t = "XREP" -> mb_xrep_create
    [] t = "SURVEYOR" -> mb_surveyor_create [] t = "RESPONDENT" -> mb_respondent_create
    [] t = "XSURVEYOR" -> mb_xsurveyor_create [] t = "XRESPONDENT" -> mb_xrespondent_create
    [] t = "PUB" -> mb_pub_create [] t = "SUB" -> mb_sub_create
    [] t = "XPUB" -> mb_xpub_create [] t = "XSUB" -> mb_xsub_create
    [] t = "BUS" -> mb_bus_create [] t = "XBUS" -> mb_xbus_create
    [] t = "PAIR" -> mb_pair_create [] t = "XPAIR" -> mb_xpair_create
    [] t = "PUSH" -> mb_push_create [] t = "PULL" -> mb_pull_create
    [] t = "XPUSH" -> mb_xpush_create [] t = "XPULL" -> mb_xpull_create

AddPipe(t, x, p) ==
  CASE t = "REQ" -> mb_req_add(x, p) [] t = "REP" -> mb_rep_add(x, p)
    [] t = "XREQ" -> mb_xreq_add(x, p) [] t = "XREP" -> mb_xrep_add(x, p)
    [] t = "SURVEYOR" -> mb_surveyor_add(x, p) [] t = "RESPONDENT" -> mb_respondent_add(x, p)
    [] t = "XSURVEYOR" -> mb_xsurveyor_add(x, p) [] t = "XRESPONDENT" -> mb_xrespondent_add(x, p)
    [] t = "PUB" -> mb_pub_add(x, p) [] t = "SUB" -> mb_sub_add(x, p)
    [] t = "XPUB" -> mb_xpub_add(x, p) [] t = "XSUB" -> mb_xsub_add(x, p)
    [] t = "BUS" -> mb_bus_add(x, p) [] t = "XBUS" -> mb_xbus_add(x, p)
    [] t = "PAIR" -> mb_pair_add(x, p) [] t = "XPAIR" -> mb_xpair_add(x, p)
    [] t = "PUSH" -> mb_push_add(x, p) [] t = "PULL" -> mb_pull_add(x, p)
    [] t = "XPUSH" -> mb_xpush_add(x, p) [] t = "XPULL" -> mb_xpull_add(x, p)

RmPipe(t, x, p) ==
  CASE t = "REQ" -> mb_req_rm(x, p) [] t = "REP" -> mb_rep_rm(x, p)
    [] t = "XREQ" -> mb_xreq_rm(x, p) [] t = "XREP" -> mb_xrep_rm(x, p)
    [] t = "SURVEYOR" -> mb_surveyor_rm(x, p) [] t = "RESPONDENT" -> mb_respondent_rm(x, p)
    [] t = "XSURVEYOR" -> mb_xsurveyor_rm(x, p) [] t = "XRESPONDENT" -> mb_xrespondent_rm(x, p)
    [] t = "PUB" -> mb_pub_rm(x, p) [] t = "SUB" -> mb_sub_rm(x, p)
    [] t = "XPUB" -> mb_xpub_rm(x, p) [] t = "XSUB" -> mb_xsub_rm(x, p)
    [] t = "BUS" -> mb_bus_rm(x, p) [] t = "XBUS" -> mb_xbus_rm(x, p)
    [] t = "PAIR" -> mb_pair_rm(x, p) [] t = "XPAIR" -> mb_xpair_rm(x, p)
    [] t = "PUSH" -> mb_push_rm(x, p) [] t = "PULL" -> mb_pull_rm(x, p)
    [] t = "XPUSH" -> mb_xpush_rm(x, p) [] t = "XPULL" -> mb_xpull_rm(x, p)

EventsOf(t, x, io) ==
  CASE t = "REQ" -> mb_req_events(x, io) [] t = "REP" -> mb_rep_events(x, io)
    [] t = "XREQ" -> mb_xreq_events(x, io) [] t = "XREP" -> mb_xrep_events(x, io)
    [] t = "SURVEYOR" -> mb_surveyor_events(x, io) [] t = "RESPONDENT" -> mb_respondent_events(x, io)
    [] t = "XSURVEYOR" -> mb_xsurveyor_events(x, io) [] t = "XRESPONDENT" -> mb_xrespondent_events(x, io)
    [] t = "PUB" -> mb_pub_events(x, io) [] t = "SUB" -> mb_sub_events(x, io)
    [] t = "XPUB" -> mb_xpub_events(x, io) [] t = "XSUB" -> mb_xsub_events(x, io)
    [] t = "BUS" -> mb_bus_events(x, io) [] t = "XBUS" -> mb_xbus_events(x, io)
    [] t = "PAIR" -> mb_pair_events(x, io) [] t = "XPAIR" -> mb_xpair_events(x, io)
    [] t = "PUSH" -> mb_push_events(x, io) [] t = "PULL" -> mb_pull_events(x, io)
    [] t = "XPUSH" -> mb_xpush_events(x, io) [] t = "XPULL" -> mb_xpull_events(x, io)

SendOn(t, x, io, m) ==
  CASE t = "REQ" -> mb_req_send(x, io, m) [] t = "REP" -> mb_rep_send(x, io, m)
    [] t = "XREQ" -> mb_xreq_send(x, io, m) [] t = "XREP" -> mb_xrep_send(x, io, m)
    [] t = "SURVEYOR" -> mb_surveyor_send(x, io, m) [] t = "RESPONDENT" -> mb_respondent_send(x, io, m)
    [] t = "XSURVEYOR" -> mb_xsurveyor_send(x, io, m) [] t = "XRESPONDENT" -> mb_xrespondent_send(x, io, m)
    [] t = "PUB" -> mb_pub_send(x, io, m) [] t = "XPUB" -> mb_xpub_send(x, io, m)
    [] t = "XSUB" -> mb_xsub_send(x, io, m)
    [] t = "BUS" -> mb_bus_send(x, io, m) [] t = "XBUS" -> mb_xbus_send(x, io, m)
    [] t = "PAIR" -> mb_pair_send(x, io, m) [] t = "XPAIR" -> mb_xpair_send(x, io, m)
    [] t = "PUSH" -> mb_push_send(x, io, m) [] t = "XPUSH" -> mb_xpush_send(x, io, m)

RecvOn(t, x, io) ==
  CASE t = "REQ" -> mb_req_recv(x, io) [] t = "REP" -> mb_rep_recv(x, io)
    [] t = "XREQ" -> mb_xreq_recv(x, io) [] t = "XREP" -> mb_xrep_recv(x, io)
    [] t = "SURVEYOR" -> mb_surveyor_recv(x, io) [] t = "RESPONDENT" -> mb_respondent_recv(x, io)
    [] t = "XSURVEYOR" -> mb_xsurveyor_recv(x, io) [] t = "XRESPONDENT" -> mb_xrespondent_recv(x, io)
    [] t = "SUB" -> mb_sub_recv(x, io) [] t = "XPUB" -> mb_xpub_recv(x, io)
    [] t = "XSUB" -> mb_xsub_recv(x, io)
    [] t = "BUS" -> mb_bus_recv(x, io) [] t = "XBUS" -> mb_xbus_recv(x, io)
    [] t = "PAIR" -> mb_pair_recv(x, io) [] t = "XPAIR" -> mb_xpair_recv(x, io)
    [] t = "PULL" -> mb_pull_recv(x, io) [] t = "XPULL" -> mb_xpull_recv(x, io)

\* MB_SOCKTYPE_FLAG_NOSEND, MB_SOCKTYPE_FLAG_NORECV, and the raw ends of the
\* pipeline, whose vfptr has no function there.
NoSend == {"SUB", "PULL", "XPULL"}
NoRecv == {"PUB", "PUSH", "XPUSH"}

-----------------------------------------------------------------------------
(* The view of a socket, and the network after it acted *)

View(s, L, Q) ==
  LET mine == Mine(s, L)
  IN [in  |-> [p \in mine |-> Q[p][End(p, s)]],
      out |-> [p \in mine |-> Q[p][3 - End(p, s)]],
      lim |-> [p \in mine |-> Min({Net.maxsize[s], Net.maxsize[Peer(p, s)]})]]

Queues(s, io, Q) ==
  [p \in Links |->
     IF p \notin DOMAIN io.in THEN Q[p]
     ELSE [i \in 1..2 |-> IF i = End(p, s) THEN io.in[p] ELSE io.out[p]]]

\* mb_sock_sync_sndfd and mb_sock_sync_rcvfd ask the protocol for its events,
\* which may change its state.
Sync(s, x, io) == EventsOf(Type(s), x, io)

\* (Here and below a result is bound by \E over a singleton rather than by
\* LET, so that it is computed once.)
Apply(s, r) ==
  \E z \in {Sync(s, r.st, r.io)} :
    /\ st' = [st EXCEPT ![s] = z.st]
    /\ q' = Queues(s, z.io, q)

Next1(s) == IF n[s] + 1 = Net.sends /\ Net.wraps THEN 0 ELSE n[s] + 1
Numbered(s) == n[s] < Net.sends

\* What an application on s may send: it answers what it received last.
Outgoing(s) ==
  [src : {s}, num : {n[s]}, re : {IF Type(s) \in Answerers /\ cur[s] # <<>> THEN Id(cur[s][1]) ELSE <<>>},
   size : Net.sizes, body : Net.bodies, sphdr : Net.sphdrs]

-----------------------------------------------------------------------------
Init ==
  /\ topo \in DOMAIN Topologies
  /\ st = [s \in Socks |-> Create(Type(s))]
  /\ live = {}
  /\ q = [p \in Links |-> <<EmptyQueue, EmptyQueue>>]
  /\ n = [s \in Socks |-> 0]
  /\ ask = [s \in Socks |-> <<>>]
  /\ cur = [s \in Socks |-> <<>>]
  /\ seen = [s \in Socks |-> {}]
  /\ subs = [s \in Socks |-> {}]
  /\ call = [s \in Socks |-> Idle]
  /\ dev = [hand |-> <<>>, from |-> 1, on |-> Net.device # <<>>]

Quiet(s) == call[s] = Idle

\* mb_sock_send
Send(s) ==
  /\ Type(s) \notin NoSend \cup {"PUB"} /\ Numbered(s) /\ Quiet(s)
  /\ s \notin Range(Net.device)
  /\ \E m \in Outgoing(s), io \in {View(s, live, q)} :
       \E r \in {SendOn(Type(s), st[s], io, m)} :
          /\ Apply(s, r)
          /\ n' = [n EXCEPT ![s] = IF r.rc = "OK" THEN Next1(s) ELSE @]
          /\ ask' = [ask EXCEPT ![s] = IF r.rc = "OK" /\ Type(s) \in Askers
                                       THEN <<m>> ELSE @]
          /\ cur' = [cur EXCEPT ![s] = IF r.rc = "OK" /\ Type(s) \in Askers
                                       THEN <<>> ELSE @]
  /\ UNCHANGED <<topo, live, seen, subs, call, dev>>

\* mb_sock_recv
Recv(s) ==
  /\ Type(s) \notin NoRecv /\ Quiet(s) /\ s \notin Range(Net.device)
  /\ \E io \in {View(s, live, q)} : \E r \in {RecvOn(Type(s), st[s], io)} :
        /\ Apply(s, r)
        /\ cur' = [cur EXCEPT ![s] = IF r.rc = "OK" /\ Type(s) \in Askers \cup Answerers
                                     THEN r.msg ELSE @]
        /\ seen' = [seen EXCEPT ![s] = IF r.rc = "OK" /\ ~Net.wraps
                                       THEN @ \cup {Id(r.msg[1])} ELSE @]
  /\ UNCHANGED <<topo, live, n, ask, subs, call, dev>>

-----------------------------------------------------------------------------
(* mb_sock_send on a PUB socket: drain, then publish.  Between two passes
   over the pipes their readers go on. *)

PubPhase(s) == IF DrainStarts(st[s], View(s, live, q)) THEN "drain" ELSE "fan"

PubCall(s) ==
  /\ Type(s) = "PUB" /\ Numbered(s) /\ Quiet(s)
  /\ \E m \in Outgoing(s) :
       call' = [call EXCEPT ![s] = [phase |-> PubPhase(s), msg |-> <<m>>, tries |-> 1]]
  /\ n' = [n EXCEPT ![s] = Next1(s)]
  /\ UNCHANGED <<topo, st, live, q, ask, cur, seen, subs, dev>>

PubDrain(s) ==
  /\ call[s].phase = "drain"
  /\ \E io \in {View(s, live, q)} : \E r \in {mb_pub_drain_buckets(st[s], io)} :
        /\ st' = [st EXCEPT ![s] = r.st]
        /\ q' = Queues(s, r.io, q)
        /\ call' = [call EXCEPT ![s].phase = IF r.sent THEN @ ELSE "fan"]
  /\ UNCHANGED <<topo, live, n, ask, cur, seen, subs, dev>>

\* A caller told EAGAIN may try again with what is left of the message, as
\* the loop of mb_sendmsg does (at most Net.tries times here).
PubFan(s) ==
  /\ call[s].phase = "fan"
  /\ \E m \in Range(call[s].msg), io \in {View(s, live, q)} :
       \E r \in {SendOn(Type(s), st[s], io, m)} :
        /\ Apply(s, r)
        /\ \/ call' = [call EXCEPT ![s] = Idle]
           \/ /\ r.rc = "EAGAIN" /\ call[s].tries < Net.tries
              /\ call' = [call EXCEPT ![s] = [phase |-> "again", msg |-> <<Stripped(m)>>,
                                              tries |-> @.tries + 1]]
  /\ UNCHANGED <<topo, live, n, ask, cur, seen, subs, dev>>

PubAgain(s) ==
  /\ call[s].phase = "again"
  /\ call' = [call EXCEPT ![s].phase = PubPhase(s)]
  /\ UNCHANGED <<topo, st, live, q, n, ask, cur, seen, subs, dev>>

-----------------------------------------------------------------------------
(* Pipes come and go.  mb_sinproc_connect starts the connecting end, then the
   accepting one; when the second start fails the first is cancelled. *)

Added2(p, i, oom) ==
  IF oom = i THEN [rc |-> "ENOMEM", st |-> st[p[i]]] ELSE AddPipe(Type(p[i]), st[p[i]], p)

Connect(p) ==
  /\ p \notin live /\ Quiet(p[1]) /\ Quiet(p[2])
  /\ \E oom \in 0..(IF Net.oom THEN 2 ELSE 0) :
       LET a == Added2(p, 1, oom)
           b == Added2(p, 2, oom)
           L == live \cup {p}
           x == Sync(p[1], a.st, View(p[1], L, q))
           Q == Queues(p[1], x.io, q)
           y == Sync(p[2], b.st, View(p[2], L, Q))
           c == Sync(p[1], RmPipe(Type(p[1]), x.st, p), View(p[1], L, Q))
       IN /\ a.rc = "OK"
          /\ IF b.rc = "OK"
             THEN /\ st' = [st EXCEPT ![p[1]] = x.st, ![p[2]] = y.st]
                  /\ q' = Queues(p[2], y.io, Q)
                  /\ live' = L
             ELSE /\ st' = [st EXCEPT ![p[1]] = c.st]
                  /\ q' = Queues(p[1], c.io, Q)
                  /\ live' = live
  /\ UNCHANGED <<topo, n, ask, cur, seen, subs, call, dev>>

\* mb_sinproc_stop: under both contexts both ends leave their sockets, and
\* what is queued on the pipe is lost.
Disconnect(p) ==
  /\ p \in live /\ Quiet(p[1]) /\ Quiet(p[2]) /\ Net.breaks
  /\ LET x == Sync(p[1], RmPipe(Type(p[1]), st[p[1]], p), View(p[1], live, q))
         Q == Queues(p[1], x.io, q)
         y == Sync(p[2], RmPipe(Type(p[2]), st[p[2]], p), View(p[2], live, Q))
     IN /\ st' = [st EXCEPT ![p[1]] = x.st, ![p[2]] = y.st]
        /\ q' = [Queues(p[2], y.io, Q) EXCEPT ![p] = <<EmptyQueue, EmptyQueue>>]
  /\ live' = live \ {p}
  /\ UNCHANGED <<topo, n, ask, cur, seen, subs, call, dev>>

-----------------------------------------------------------------------------
(* Time and options *)

Tick ==
  /\ \E s \in Socks : Type(s) = "SURVEYOR" /\ st[s].left > 0
  /\ st' = [s \in Socks |-> IF Type(s) = "SURVEYOR"
                            THEN [st[s] EXCEPT !.left = Minus1(@)] ELSE st[s]]
  /\ UNCHANGED <<topo, live, q, n, ask, cur, seen, subs, call, dev>>

SetDeadline(s) ==
  /\ Type(s) = "SURVEYOR"
  /\ \E ms \in Net.deadlines :
       st' = [st EXCEPT ![s] = mb_surveyor_setopt(@, ms)]
  /\ UNCHANGED <<topo, live, q, n, ask, cur, seen, subs, call, dev>>

\* mb_sock_setopt does not enter the context: a subscription made while
\* another thread receives on the socket races on the tree.  One thread uses
\* a SUB socket here, so the option and the calls come one after the other.
Subscribe(s) ==
  /\ Type(s) = "SUB"
  /\ \E word \in Net.words, allocs \in Net.allocs :
       /\ st' = [st EXCEPT ![s] = mb_sub_subscribe(@, word, allocs)]
       /\ subs' = [subs EXCEPT ![s] =
                     IF mb_trie_add(st[s].trie, word, allocs).rc = "ENOMEM" THEN @
                     ELSE @ \cup {word}]
  /\ UNCHANGED <<topo, live, q, n, ask, cur, seen, call, dev>>

Unsubscribe(s) ==
  /\ Type(s) = "SUB"
  /\ \E word \in Net.words :
       /\ st' = [st EXCEPT ![s] = mb_sub_unsubscribe(@, word)]
       /\ subs' = [subs EXCEPT ![s] = @ \ {word}]
  /\ UNCHANGED <<topo, live, q, n, ask, cur, seen, call, dev>>

-----------------------------------------------------------------------------
(* mb_device: one message at a time, each direction in turn. *)

(* Mutant: the device keeps to one direction while it has nothing to forward. *)
DevRecv_OneWay ==
  /\ dev.on /\ dev.hand = <<>>
  /\ LET s == Net.device[dev.from]
     IN \E io \in {View(s, live, q)} : \E r \in {RecvOn(Type(s), st[s], io)} :
        /\ Apply(s, r)
        /\ dev' = IF r.rc = "OK" THEN [dev EXCEPT !.hand = r.msg] ELSE dev
  /\ UNCHANGED <<topo, live, n, ask, cur, seen, subs, call>>

DevRecv ==
  /\ dev.on /\ dev.hand = <<>>
  /\ LET s == Net.device[dev.from]
     IN \E io \in {View(s, live, q)} : \E r \in {RecvOn(Type(s), st[s], io)} :
        /\ Apply(s, r)
        /\ dev' = IF r.rc = "OK" THEN [dev EXCEPT !.hand = r.msg]
                  ELSE IF r.rc = "EAGAIN" THEN [dev EXCEPT !.from = 3 - @]
                  ELSE [dev EXCEPT !.on = FALSE]
  /\ UNCHANGED <<topo, live, n, ask, cur, seen, subs, call>>

\* The message is kept over EAGAIN and lost with any other error.
DevSend ==
  /\ dev.on /\ dev.hand # <<>>
  /\ LET s == Net.device[3 - dev.from]
     IN \E io \in {View(s, live, q)} : \E r \in {SendOn(Type(s), st[s], io, dev.hand[1])} :
        /\ Apply(s, r)
        /\ dev' = IF r.rc = "EAGAIN" THEN dev
                  ELSE [hand |-> <<>>, from |-> 3 - dev.from, on |-> r.rc = "OK"]
  /\ UNCHANGED <<topo, live, n, ask, cur, seen, subs, call>>

\* One of the sockets is STOPPING: the message in hand is dropped.
DevStop ==
  /\ dev.on /\ Net.breaks
  /\ dev' = [dev EXCEPT !.hand = <<>>, !.on = FALSE]
  /\ UNCHANGED <<topo, st, live, q, n, ask, cur, seen, subs, call>>

Step(s) == Send(s) \/ Recv(s)
Publish(s) == PubCall(s) \/ PubDrain(s) \/ PubFan(s) \/ PubAgain(s)

Next ==
  \/ \E s \in Socks : Step(s) \/ Publish(s)
  \/ \E p \in Links : Connect(p) \/ Disconnect(p)
  \/ Tick
  \/ \E s \in Socks : SetDeadline(s) \/ Subscribe(s) \/ Unsubscribe(s)
  \/ DevRecv \/ DevSend \/ DevStop

Spec == Init /\ [][Next]_vars

\* The thread of an application that receives, and answers what it received,
\* is in the loop of mb_sendmsg and mb_recvmsg that tries again every
\* millisecond; the device never sleeps for long; the clock goes on.  Nobody
\* has to ask, connect or disconnect.
Serve(s) == s \in Socks /\ (Recv(s) \/ (Type(s) \in Answerers /\ Send(s)))

Fairness ==
  /\ \A s \in AllSocks : WF_vars(Serve(s))
  /\ WF_vars(Tick)
  /\ WF_vars(DevRecv \/ DevSend)

FairSpec == Spec /\ Fairness

-----------------------------------------------------------------------------
(* Properties *)

\* Every queue is bounded by MB_RCVBUF and empty when its pipe is down, the
\* clock of a survey stays in range and PUB's caller is in a known phase.
TypeOK ==
  /\ live \subseteq Links
  /\ \A p \in Links, i \in 1..2 :
       Fits(q[p][i], 0) /\ (p \notin live => q[p][i] = EmptyQueue)
  /\ \A s \in Socks :
       /\ n[s] \in 0..Net.sends
       /\ call[s].phase \in {"idle", "drain", "fan", "again"}
       /\ Type(s) = "SURVEYOR" => st[s].left \in 0..Max(Net.deadlines \cup {Deadline})

\* A request travels as one token: queued for the REP, held by it as its
\* reply route, or queued back as the reply.  While a REQ waits the token is
\* on the pipe it waits on, and no token is anywhere else.  (A reply refused
\* with EMSGSIZE takes the token out: mb_rep_send forgets the route.)
RouteToken ==
  \A p \in {x \in live : Type(x[1]) = "REQ" /\ Type(x[2]) = "REP"} :
    LET tokens == Len(q[p][1].msgs) + Len(q[p][2].msgs) + (IF st[p[2]].ptr = p THEN 1 ELSE 0)
        waits == st[p[1]].busy /\ st[p[1]].ptr = p
    IN /\ tokens <= 1
       /\ tokens = 1 => waits
       /\ waits => tokens = 1 \/ Max(Net.sizes) > Net.maxsize[p[1]]

\* A reply of a REP or a RESPONDENT is only ever queued for the socket that
\* asked (last_pipe), whatever connects or disconnects in between.
RepliesComeHome ==
  \A p \in live, i \in 1..2 :
    Type(p[3 - i]) \in Answerers =>
      \A m \in Range(q[p][i].msgs) : m.re # <<>> /\ m.re[1] = p[i]

\* The places where a copy of a message is, each with the socket it is for:
\* queues, what a SUB has pending, the device's hand, what was received.
Places(id) ==
  UNION {{<<p[i], p, k>> : k \in {j \in DOMAIN q[p][i].msgs : Id(q[p][i].msgs[j]) = id}} :
           p \in live, i \in 1..2}
    \cup {<<r, "pending">> : r \in {x \in Socks : /\ Type(x) = "SUB"
                                                 /\ st[x].pending # <<>>
                                                 /\ Id(st[x].pending[1]) = id}}
    \cup {<<Net.device[3 - dev.from], "hand">> : h \in {y \in Range(dev.hand) : Id(y) = id}}
    \cup {<<r, "seen">> : r \in {x \in Socks : id \in seen[x]}}

NotTwice(places) == \A x, y \in places : x[1] = y[1] => x = y

Unicast == {"REQ", "REP", "XREQ", "XREP", "RESPONDENT", "XRESPONDENT", "PAIR", "PUSH", "XPUSH"}

\* No socket gets a message twice; a message of a one-to-one or balanced
\* protocol is at one place only and, as long as no pipe breaks and the
\* device runs, it is never lost once mb_send accepted it.  PUB is not
\* included: see PublishedOnce.
DeliveredOnce ==
  \A s \in {x \in Socks : Type(x) # "PUB"} : \A k \in 0..n[s] - 1 :
    LET at == Places(<<s, k>>)
    IN /\ NotTwice(at)
       /\ Type(s) \in Unicast => Cardinality(at) <= 1
       /\ Type(s) \in Unicast /\ ~Net.breaks => at # {}

\* The events of a socket tell the truth.  IN: exactly when a receive would
\* return a message.  OUT: at least one byte would be accepted; a send that is
\* refused takes OUT back, so that the caller who polls does not spin; and OUT
\* is missing only when not even one byte would be accepted or a refused size
\* is remembered.  (PUB excepted: its drain may use up the room.)
EventsTruthful ==
  \A s \in {x \in Socks : Quiet(x)} :
    LET io == View(s, live, q)
        e == EventsOf(Type(s), st[s], io)
        SendOf(k) == SendOn(Type(s), e.st, e.io,
                            [src |-> s, num |-> 0, re |-> <<>>, size |-> k,
                             body |-> <<>>, sphdr |-> <<>>])
        one == SendOf(1).rc
    IN /\ Type(s) \notin NoRecv =>
            ("IN" \in e.ev <=> RecvOn(Type(s), e.st, e.io).rc = "OK")
       /\ Type(s) \notin NoSend \cup {"PUB"} =>
            /\ "OUT" \in e.ev => one = "OK"
            /\ \A k \in 1..RCVBUF : \E r \in {SendOf(k)} :
                 r.rc = "EAGAIN" => "OUT" \notin EventsOf(Type(s), r.st, r.io).ev
            /\ one = "OK" /\ "OUT" \notin e.ev =>
                 (\E p \in Mine(s, live) : io.out[p].pending # 0) \/ Mine(s, live) = {}

\* The tree, its reference counts and nsubs agree with the subscriptions
\* made, whatever was added twice, failed half-way or was removed: a message
\* passes the filter exactly when a subscribed word is a prefix of its body.
SubscriptionsExact ==
  \A s \in {x \in Socks : Type(x) = "SUB"} :
    /\ st[s].nsubs = Cardinality(subs[s])
    /\ \A w \in DOMAIN st[s].trie :
         st[s].trie[w].refcount = Cardinality({v \in subs[s] : IsPrefix(w, v)})
    /\ \A b \in Net.bodies :
         mb_sub_msg_matches(st[s], [body |-> b]) <=> \E w \in subs[s] : IsPrefix(w, b)

Buckets(s) == st[s].bucket

\* A message leaves its bucket only into some subscriber's queue, and only
\* when nothing of a higher priority is retained.
HighestFirst ==
  [][\A s \in Socks : Type(s) = "PUB" =>
       \A i \in DOMAIN Buckets(s) : Len(st'[s].bucket[i]) < Len(st[s].bucket[i]) =>
         /\ \A j \in DOMAIN Buckets(s) : j > i => Buckets(s)[j] = <<>>
         /\ \E p \in Mine(s, live) : LET k == 3 - End(p, s)
                                     IN q'[p][k].msgs = Append(q[p][k].msgs, Head(Buckets(s)[i]))]_vars

IsReq(s) == s \in Socks /\ Type(s) = "REQ"
AllReqs == UNION {{s \in DOMAIN t.type : t.type[s] = "REQ"} : t \in Range(Topologies)}

R == INSTANCE Requests WITH
       Clients <- AllReqs, Ids <- AllReqs \X (0..MaxSend - 1), None <- <<>>,
       open <- [s \in AllReqs |-> IF IsReq(s) /\ st[s].busy THEN Id(ask[s][1]) ELSE <<>>],
       got <- [s \in AllReqs |-> IF IsReq(s) /\ cur[s] # <<>> THEN cur[s][1].re ELSE <<>>]

\* A REQ socket implements Requests: no reply is returned but the one to the
\* open request, also after its pipe broke and another took its place.
ImplementsRequests == R!Spec

\* "The PUB retains messages rejected by all peers": a subscriber gets what
\* was published once.
PublishedOnce ==
  \A s \in {x \in Socks : Type(x) = "PUB"} :
    \A k \in 0..n[s] - 1 : NotTwice(Places(<<s, k>>))

\* "Drop pending replies so a closed survey cannot contaminate the next one":
\* what a surveyor receives answers its last survey.
SurveyNotContaminated ==
  \A s \in Socks : Type(s) = "SURVEYOR" /\ cur[s] # <<>> => cur[s][1].re = Id(ask[s][1])

-----------------------------------------------------------------------------
(* Liveness, under FairSpec *)

\* A request is answered or given up, however often other clients of the same
\* REP ask: mb_fq_recv_pipe passes over nobody.
RequestAnswered ==
  \A s \in AllSocks : (IsReq(s) /\ st[s].busy) ~> ~(IsReq(s) /\ st[s].busy)

Surveying(s) == s \in Socks /\ Type(s) = "SURVEYOR" /\ st[s].surveying

\* A survey is over once its deadline has passed or its respondents are gone,
\* even if nobody answers; the next one may follow at once (n has changed).
SurveyEnds ==
  \A s \in AllSocks, k \in 0..MaxSend - 1 :
    (Surveying(s) /\ n[s] = k) ~> ~(Surveying(s) /\ n[s] = k)

\* Where no pipe breaks, what mb_send accepted is received in the end, through
\* a device too, in both directions.  (Numbers that wrap name no message.)
EverythingArrives ==
  \A s \in AllSocks, k \in 0..MaxSend - 1 :
    (s \in Socks /\ ~Net.breaks /\ ~Net.wraps /\ live = Links /\ Type(s) \in Unicast /\ n[s] > k)
      ~> (\E r \in Socks : <<s, k>> \in seen[r])
=============================================================================
