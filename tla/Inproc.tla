------------------------------- MODULE Inproc -------------------------------
(***************************************************************************)
(* The inproc transport: the registry of addresses (ins.c), the binding    *)
(* and connecting endpoints (inproc_binproc.c, inproc_cinproc.c), their    *)
(* sessions (sinproc.c), and what pipe.c, ep.c and sock.c do when a        *)
(* session starts, is refused, is cancelled or stops.                      *)
(*                                                                         *)
(* The registry has no lock.  mb_bind and mb_connect take three steps:     *)
(* they look for the owner of the address, register or connect, and hand   *)
(* the endpoint to the socket, or take it down if the socket was closed    *)
(* meanwhile.  A teardown takes a step for each endpoint and three for     *)
(* each session.  All of these interleave, but an operation on one of the  *)
(* registry's lists is not torn.                                           *)
(*                                                                         *)
(* An owner that was looked up, or a peer that was read, may be freed      *)
(* before it is used.  The step that would use it is then not taken: what  *)
(* a program does after it read freed memory is not modelled.  A freed     *)
(* identifier is not given out again while somebody holds it.              *)
(***************************************************************************)
EXTENDS Integers, Sequences, FiniteSets, Functions

CONSTANTS
  Socks,       \* sockets
  Callers,     \* threads that call mb_bind and mb_connect
  Addrs,       \* addresses
  Ispeer,      \* pairs of sockets whose protocols go together
  Cap,         \* Cap[s]: pipes the protocol of s accepts (PAIR: one)
  MaxEps,      \* endpoints that exist or are being made at a time
  MaxSess,     \* sessions that exist at a time
  MaxOpen,     \* sockets opened in all
  MaxErrors    \* errors counted by a socket before no more connects are made

ASSUME InprocAssumption ==
  /\ \A p \in Ispeer : <<p[2], p[1]>> \in Ispeer
  /\ \A s \in Socks : Cap[s] \in Nat \ {0}
  /\ MaxEps \in Nat /\ MaxSess \in Nat /\ MaxOpen \in Nat
  /\ Socks \cap Callers = {}

VARIABLES
  eps,     \* the endpoints, a function on those that exist
  sess,    \* the sessions, likewise
  bound,   \* mb_ins_bound
  lazy,    \* mb_ins_lazy
  pipes,   \* pipes[s]: the sessions in the pipe lists of s
  stat,    \* stat[s]: statistics of s
  call,    \* call[c]: the call that c makes, and the owner it found
  td,      \* td[t]: the endpoints of the socket or of the call t, and how
           \* far their teardown is
  opened   \* sockets opened so far

vars == <<eps, sess, bound, lazy, pipes, stat, call, td, opened>>

None == 0
EpIds == 1..MaxEps
SessIds == 1..MaxSess
Actors == Socks \cup Callers

NoStat == [current |-> 0, established |-> 0, accepted |-> 0, broken |-> 0, errors |-> 0]
At(pc, l, x, y) == [pc |-> pc, eps |-> l, cur |-> x, peer |-> y]
Down == At("closed", <<>>, None, None)
NoCall == [sock |-> None, bind |-> FALSE, addr |-> None, owner |-> None]

With(f, x, v) == [y \in DOMAIN f \cup {x} |-> IF y = x THEN v ELSE f[y]]
Drop(f, x) == Restrict(f, DOMAIN f \ {x})
Fresh(S, f) == CHOOSE x \in S : x \notin DOMAIN f

\* What may be given out: nobody holds it as an owner, or as a peer.
FreeEps == EpIds \ {call[c].owner : c \in Callers}
FreeSess == SessIds \ {td[t].peer : t \in Actors}

\* The list l without e, which is in it once at most.
Erased(l, e) ==
  LET i == CHOOSE i \in DOMAIN l : l[i] = e
  IN IF e \in Range(l) THEN [k \in 1 .. Len(l) - 1 |-> IF k < i THEN l[k] ELSE l[k + 1]] ELSE l

Stopping(s) == td[s].pc # "up"

Go(t, pc, l, x, y) == td' = [td EXCEPT ![t] = At(pc, l, x, y)]

-----------------------------------------------------------------------------
(* What the operations below change, passed from one to the next. *)

WorldOf(e, x, p, t) == [eps |-> e, sess |-> x, pipes |-> p, stat |-> t]
World == WorldOf(eps, sess, pipes, stat)

SockOf(w, x) == w.eps[w.sess[x].ep].sock

mb_ep_set_error(w, e, err) ==
  LET d == (IF err THEN 1 ELSE 0) - (IF w.eps[e].err THEN 1 ELSE 0)
  IN WorldOf([w.eps EXCEPT ![e].err = err], w.sess, w.pipes,
             [w.stat EXCEPT ![w.eps[e].sock].errors = @ + d])

mb_sinproc_create(w, x, e) ==
  WorldOf(w.eps, With(w.sess, x, [ep |-> e, peer |-> None, state |-> "IDLE"]), w.pipes, w.stat)

mb_sinproc_term(w, x) ==
  WorldOf(w.eps, Drop(w.sess, x), [s \in Socks |-> Erased(w.pipes[s], x)], w.stat)

Kind(w, x) == IF w.eps[w.sess[x].ep].bind THEN "accepted" ELSE "established"

mb_sock_pipe_add(w, x, oom) ==
  LET s == SockOf(w, x)
  IN IF Stopping(s) THEN "EBADF"
     ELSE IF Len(w.pipes[s]) >= Cap[s] THEN "EISCONN"
     ELSE IF oom THEN "ENOMEM" ELSE "OK"

mb_pipebase_start(w, x, oom) ==
  LET s == SockOf(w, x)
      rc == mb_sock_pipe_add(w, x, oom)
      c == mb_ep_set_error(w, w.sess[x].ep, rc # "OK")
  IN [rc |-> rc,
      w |-> IF rc = "OK"
            THEN WorldOf(c.eps, [w.sess EXCEPT ![x].state = "ACTIVE"],
                         [w.pipes EXCEPT ![s] = Append(@, x)],
                         [c.stat EXCEPT ![s].current = @ + 1, ![s][Kind(w, x)] = @ + 1])
            ELSE WorldOf(c.eps, [w.sess EXCEPT ![x].state = "FAILED"], w.pipes, c.stat)]

mb_sock_pipe_rm(w, x) ==
  WorldOf(w.eps, [w.sess EXCEPT ![x].state = "IDLE"],
          [w.pipes EXCEPT ![SockOf(w, x)] = Erased(@, x)], w.stat)

mb_pipebase_stop(w, x) ==
  LET s == SockOf(w, x)
      r == mb_sock_pipe_rm(w, x)
  IN WorldOf(r.eps, r.sess, r.pipes,
             [r.stat EXCEPT ![s].current = @ - 1, ![s].broken = @ + 1])

mb_pipebase_cancel(w, x) ==
  LET s == SockOf(w, x)
      r == mb_sock_pipe_rm(w, x)
  IN WorldOf(r.eps, r.sess, r.pipes,
             [r.stat EXCEPT ![s].current = @ - 1, ![s][Kind(w, x)] = @ - 1])

SetPeer(f, x, y) == [f EXCEPT ![x].peer = y]
Linked(w, x, y) == WorldOf(w.eps, SetPeer(SetPeer(w.sess, x, y), y, x), w.pipes, w.stat)
Unlinked(w, x, y) ==
  WorldOf(w.eps, SetPeer(SetPeer(w.sess, x, None), y, None), w.pipes, w.stat)

\* The connecting end starts first; if the other one cannot, it is cancelled.
mb_sinproc_connect(w, x, y, oom) ==
  LET a == mb_pipebase_start(Linked(w, x, y), x, oom = "self")
      b == mb_pipebase_start(a.w, y, oom = "peer")
  IN IF a.rc # "OK" THEN [rc |-> a.rc, w |-> Unlinked(a.w, x, y)]
     ELSE IF b.rc # "OK"
     THEN [rc |-> b.rc, w |-> mb_pipebase_cancel(Unlinked(b.w, x, y), x)]
     ELSE b

\* The endpoint e has the session x; owner has y in its list.
Adopted(f, e, x, owner, y) ==
  [[f EXCEPT ![e].sinproc = x] EXCEPT ![owner].sinprocs = Append(@, y)]
Orphaned(f, e, owner, y) ==
  [[f EXCEPT ![e].sinproc = None] EXCEPT ![owner].sinprocs = Erased(@, y)]

\* A session for each side, the second one kept by the owner of the address;
\* both are given back if the handshake fails.
mb_cinproc_connect_cb(w, e, owner, oom) ==
  LET x == Fresh(FreeSess, w.sess)
      y == Fresh(FreeSess \ {x}, w.sess)
      v == mb_sinproc_create(mb_sinproc_create(w, x, e), y, owner)
      r == mb_sinproc_connect(WorldOf(Adopted(v.eps, e, x, owner, y), v.sess, v.pipes, v.stat),
                              x, y, oom)
      t == mb_sinproc_term(mb_sinproc_term(r.w, x), y)
  IN IF oom = "alloc" THEN [rc |-> "ENOMEM", w |-> w]
     ELSE IF r.rc = "OK" THEN r
     ELSE [rc |-> r.rc,
           w |-> WorldOf(Orphaned(t.eps, e, owner, y), t.sess, t.pipes, t.stat)]

-----------------------------------------------------------------------------
(* The registry *)

\* A binder of the address, else a lazy connector, else None.
mb_ins_find_owner(addr) ==
  LET all == bound \o lazy
      hits == {i \in DOMAIN all : eps[all[i]].addr = addr}
  IN IF hits = {} THEN None ELSE all[CHOOSE i \in hits : \A j \in hits : i <= j]

\* From the list that in_lazy_list names, if it is in one.
mb_ins_erase_item(e) ==
  IF eps[e].lazy THEN lazy' = Erased(lazy, e) /\ UNCHANGED bound
  ELSE bound' = Erased(bound, e) /\ UNCHANGED lazy

-----------------------------------------------------------------------------
Init ==
  /\ eps = <<>> /\ sess = <<>> /\ bound = <<>> /\ lazy = <<>>
  /\ pipes = [s \in Socks |-> <<>>]
  /\ stat = [s \in Socks |-> NoStat]
  /\ call = [c \in Callers |-> NoCall]
  /\ td = [t \in Actors |-> Down]
  /\ opened = 0

Open(s) ==
  /\ td[s] = Down /\ opened < MaxOpen
  /\ Go(s, "up", <<>>, None, None)
  /\ stat' = [stat EXCEPT ![s] = NoStat]
  /\ opened' = opened + 1
  /\ UNCHANGED <<eps, sess, bound, lazy, pipes, call>>

Endpoint(s, bind, addr) ==
  [sock |-> s, bind |-> bind, addr |-> addr, lazy |-> FALSE, sinproc |-> None,
   sinprocs |-> <<>>, err |-> FALSE]

\* The calls that have looked for an owner and made no endpoint yet.
Finders == {c \in Callers : call[c] # NoCall /\ td[c] = Down}

\* mb_global_create_ep up to mb_ins_find_owner.  A binder finds a binder:
\* EADDRINUSE, nothing changes.
Begin(c, s, bind, addr) ==
  LET owner == mb_ins_find_owner(addr)
  IN /\ call[c] = NoCall /\ ~Stopping(s) /\ stat[s].errors < MaxErrors
     /\ Cardinality(DOMAIN eps) + Cardinality(Finders) < MaxEps
     /\ bind => owner \notin Range(bound)
     /\ call' = [call EXCEPT ![c] = [sock |-> s, bind |-> bind, addr |-> addr, owner |-> owner]]
     /\ UNCHANGED <<eps, sess, bound, lazy, pipes, stat, td, opened>>

\* The owner that c found was not freed, and an endpoint can be made.
Finding(c) ==
  /\ c \in Finders
  /\ call[c].owner \in DOMAIN eps \cup {None}
  /\ FreeEps \ DOMAIN eps # {}

\* The slot of a lazy connector passes to the binder.
mb_ins_bind(e, ep, owner) ==
  /\ lazy' = Erased(lazy, owner)
  /\ eps' = With([x \in DOMAIN eps |->
                    IF x = owner THEN [eps[x] EXCEPT !.lazy = FALSE] ELSE eps[x]], e, ep)
  /\ bound' = Append(bound, e)

\* mb_ins_bind goes on.
MbBind(c) ==
  /\ Finding(c) /\ call[c].bind
  /\ LET e == Fresh(FreeEps, eps)
     IN /\ mb_ins_bind(e, Endpoint(call[c].sock, TRUE, call[c].addr), call[c].owner)
        /\ Go(c, "made", <<e>>, None, None)
  /\ UNCHANGED <<sess, pipes, stat, call, opened>>

\* mb_ins_connect goes on where nobody owned the address.
ConnectLazy(c) ==
  /\ Finding(c) /\ ~call[c].bind /\ call[c].owner = None
  /\ LET e == Fresh(FreeEps, eps)
     IN /\ eps' = With(eps, e, [Endpoint(call[c].sock, FALSE, call[c].addr) EXCEPT !.lazy = TRUE])
        /\ lazy' = Append(lazy, e)
        /\ Go(c, "made", <<e>>, None, None)
  /\ UNCHANGED <<sess, bound, pipes, stat, call, opened>>

\* The same where the address was owned (and two sessions can be made).  A
\* failed mb_ep_init frees the endpoint without mb_ep_clear_error, so its error
\* stays counted.
ConnectOwned(c) ==
  /\ Finding(c) /\ ~call[c].bind /\ call[c].owner # None
  /\ \A x \in SessIds \cup {None} : FreeSess \ (DOMAIN sess \cup {x}) # {}
  /\ <<call[c].sock, eps[call[c].owner].sock>> \in Ispeer
  /\ \E oom \in {"none", "alloc", "self", "peer"} :
       LET e == Fresh(FreeEps, eps)
           w == WorldOf(With(eps, e, Endpoint(call[c].sock, FALSE, call[c].addr)),
                        sess, pipes, stat)
           r == mb_cinproc_connect_cb(w, e, call[c].owner, oom)
       IN /\ eps' = IF r.rc = "OK" THEN r.w.eps ELSE Drop(r.w.eps, e)
          /\ IF r.rc = "OK" THEN Go(c, "made", <<e>>, None, None) /\ call' = call
             ELSE td' = td /\ call' = [call EXCEPT ![c] = NoCall]
          /\ sess' = r.w.sess /\ pipes' = r.w.pipes /\ stat' = r.w.stat
  /\ UNCHANGED <<bound, lazy, opened>>

\* EPROTONOSUPPORT
ConnectRefused(c) ==
  /\ Finding(c) /\ ~call[c].bind /\ call[c].owner # None
  /\ <<call[c].sock, eps[call[c].owner].sock>> \notin Ispeer
  /\ call' = [call EXCEPT ![c] = NoCall]
  /\ UNCHANGED <<eps, sess, bound, lazy, pipes, stat, td, opened>>

EpOf(t) == Head(td[t].eps)

(* Mutant: the endpoint of a socket that was closed meanwhile is freed      *)
(* without mb_ep_stop.                                                      *)
Publish_NoStop(c) ==
  LET s == eps[EpOf(c)].sock
  IN /\ td[c].pc = "made"
     /\ IF Stopping(s)
        THEN /\ td' = [td EXCEPT ![c] = Down] /\ eps' = Drop(eps, EpOf(c))
        ELSE /\ td' = [td EXCEPT ![c] = Down, ![s].eps = Append(@, EpOf(c))] /\ eps' = eps
     /\ call' = [call EXCEPT ![c] = NoCall]
     /\ UNCHANGED <<sess, bound, lazy, pipes, stat, opened>>

\* mb_global_create_ep under the context of the socket: the endpoint joins the
\* others, or is stopped and freed if the socket was closed meanwhile.
Publish(c) ==
  LET s == eps[EpOf(c)].sock
  IN /\ td[c].pc = "made"
     /\ IF Stopping(s) THEN Go(c, "eps", td[c].eps, None, None) /\ call' = call
        ELSE /\ td' = [td EXCEPT ![c] = Down, ![s].eps = Append(@, EpOf(c))]
             /\ call' = [call EXCEPT ![c] = NoCall]
     /\ UNCHANGED <<eps, sess, bound, lazy, pipes, stat, opened>>

-----------------------------------------------------------------------------
(* Teardown: mb_sock_stop with mb_binproc_stop and mb_cinproc_stop *)

CloseBegin(s) ==
  /\ td[s].pc = "up"
  /\ Go(s, "wait", td[s].eps, None, None)
  /\ UNCHANGED <<eps, sess, bound, lazy, pipes, stat, call, opened>>

\* The calls that hold the socket have returned.
CloseWaited(s) ==
  /\ td[s].pc = "wait" /\ \A c \in Callers : call[c].sock # s
  /\ Go(s, "eps", td[s].eps, None, None)
  /\ UNCHANGED <<eps, sess, bound, lazy, pipes, stat, call, opened>>

\* A binder leaves the registry before its sessions stop.
EpBegin(t) ==
  /\ td[t].pc = "eps" /\ td[t].eps # <<>>
  /\ Go(t, "sess", td[t].eps, None, None)
  /\ IF eps[EpOf(t)].bind THEN mb_ins_erase_item(EpOf(t)) ELSE UNCHANGED <<bound, lazy>>
  /\ UNCHANGED <<eps, sess, pipes, stat, call, opened>>

Owned(e) == (IF eps[e].sinproc = None THEN <<>> ELSE <<eps[e].sinproc>>) \o eps[e].sinprocs

\* The peer is read before the locks are taken.
SessBegin(t) ==
  /\ td[t].pc = "sess" /\ Owned(EpOf(t)) # <<>>
  /\ LET x == Head(Owned(EpOf(t)))
     IN Go(t, "stop", td[t].eps, x, sess[x].peer)
  /\ UNCHANGED <<eps, sess, bound, lazy, pipes, stat, call, opened>>

StopIfActive(w, x) == IF w.sess[x].state = "ACTIVE" THEN mb_pipebase_stop(w, x) ELSE w

(* Mutant: only the end that is torn down leaves its socket. *)
mb_sinproc_stop_OneEnd(w, x, peer) ==
  IF peer = None THEN StopIfActive(w, x) ELSE Unlinked(StopIfActive(w, x), x, peer)

\* Under the contexts of both sockets both ends stop and forget each other.
mb_sinproc_stop(w, x, peer) ==
  IF peer = None THEN StopIfActive(w, x)
  ELSE Unlinked(StopIfActive(StopIfActive(w, x), peer), x, peer)

SessStop(t) ==
  /\ td[t].pc = "stop" /\ td[t].peer \in DOMAIN sess \cup {None}
  /\ LET w == mb_sinproc_stop(World, td[t].cur, td[t].peer)
     IN sess' = w.sess /\ pipes' = w.pipes /\ stat' = w.stat
  /\ Go(t, "free", td[t].eps, td[t].cur, None)
  /\ UNCHANGED <<eps, bound, lazy, call, opened>>

(* Mutant: a freed session stays in the list of its endpoint. *)
SessFree_StaysListed(t) ==
  /\ td[t].pc = "free"
  /\ LET w == mb_sinproc_term(World, td[t].cur)
     IN sess' = w.sess /\ pipes' = w.pipes
  /\ Go(t, "sess", td[t].eps, None, None)
  /\ UNCHANGED <<eps, bound, lazy, stat, call, opened>>

Disowned(f, e, x) ==
  [[f EXCEPT ![e].sinproc = IF @ = x THEN None ELSE @] EXCEPT ![e].sinprocs = Erased(@, x)]

SessFree(t) ==
  /\ td[t].pc = "free"
  /\ LET w == mb_sinproc_term(World, td[t].cur)
     IN sess' = w.sess /\ pipes' = w.pipes
  /\ eps' = Disowned(eps, EpOf(t), td[t].cur)
  /\ Go(t, "sess", td[t].eps, None, None)
  /\ UNCHANGED <<bound, lazy, stat, call, opened>>

\* A connector leaves the registry after its sessions; mb_ep_term clears the
\* error.
EpEnd(t) ==
  /\ td[t].pc = "sess" /\ Owned(EpOf(t)) = <<>>
  /\ IF eps[EpOf(t)].bind THEN UNCHANGED <<bound, lazy>> ELSE mb_ins_erase_item(EpOf(t))
  /\ stat' = mb_ep_set_error(World, EpOf(t), FALSE).stat
  /\ eps' = Drop(eps, EpOf(t))
  /\ Go(t, "eps", Tail(td[t].eps), None, None)
  /\ UNCHANGED <<sess, pipes, call, opened>>

\* The socket is closed, or the call returns EBADF.
CloseEnd(t) ==
  /\ td[t].pc = "eps" /\ td[t].eps = <<>>
  /\ Go(t, "closed", <<>>, None, None)
  /\ call' = [c \in Callers |-> IF c = t THEN NoCall ELSE call[c]]
  /\ UNCHANGED <<eps, sess, bound, lazy, pipes, stat, opened>>

Teardown(t) ==
  \/ EpBegin(t) \/ SessBegin(t) \/ SessStop(t) \/ SessFree(t) \/ EpEnd(t) \/ CloseEnd(t)

Register(c) == MbBind(c) \/ ConnectLazy(c) \/ ConnectOwned(c) \/ ConnectRefused(c)

Next ==
  \/ \E s \in Socks : Open(s) \/ CloseBegin(s) \/ CloseWaited(s)
  \/ \E c \in Callers, s \in Socks, bind \in BOOLEAN, a \in Addrs : Begin(c, s, bind, a)
  \/ \E c \in Callers : Register(c) \/ Publish(c)
  \/ \E t \in Actors : Teardown(t)

Spec == Init /\ [][Next]_vars

-----------------------------------------------------------------------------
(* Properties *)

\* Identifiers are in range, and a session belongs to an endpoint that exists.
TypeOK ==
  /\ DOMAIN eps \subseteq EpIds /\ DOMAIN sess \subseteq SessIds
  /\ \A x \in DOMAIN sess : /\ sess[x].ep \in DOMAIN eps
                            /\ sess[x].state \in {"IDLE", "ACTIVE"}
  /\ opened \in 0..MaxOpen

\* An active session and its peer point at each other, and each is in the
\* list of its own socket: no order of refusals, cancellations and teardowns
\* leaves a pipe whose other end is gone.
Paired ==
  \A s \in Socks :
    /\ IsInjective(pipes[s])
    /\ \A x \in Range(pipes[s]) :
         /\ x \in DOMAIN sess /\ sess[x].state = "ACTIVE" /\ eps[sess[x].ep].sock = s
         /\ sess[x].peer \in DOMAIN sess
         /\ LET y == sess[x].peer
            IN sess[y].peer = x /\ y \in Range(pipes[eps[sess[y].ep].sock])

\* Every session is kept by exactly one endpoint, and is freed with it.
SessionsOwned ==
  /\ \A x \in DOMAIN sess :
       /\ x \in Range(Owned(sess[x].ep))
       /\ \A e \in DOMAIN eps : x \in Range(Owned(e)) => e = sess[x].ep
  /\ \A e \in DOMAIN eps : IsInjective(Owned(e)) /\ Range(Owned(e)) \subseteq DOMAIN sess

\* Every endpoint is listed once, by its socket or by the call that makes or
\* discards it; what is registered exists, once, and in_lazy_list says in
\* which list.  So an address is never left to an endpoint that was freed,
\* and no endpoint is freed twice or forgotten.
EndpointsListed ==
  /\ \A e \in DOMAIN eps :
       \E t \in Actors :
         /\ e \in Range(td[t].eps) /\ (t \in Socks => eps[e].sock = t)
         /\ \A u \in Actors : e \in Range(td[u].eps) => u = t
  /\ \A t \in Actors : IsInjective(td[t].eps) /\ Range(td[t].eps) \subseteq DOMAIN eps
  /\ IsInjective(bound \o lazy) /\ Range(bound \o lazy) \subseteq DOMAIN eps
  /\ \A e \in DOMAIN eps : eps[e].lazy <=> e \in Range(lazy)

\* "erase the lazy slot so this bind claims the address cleanly": an address
\* has one owner.
OneOwner ==
  \A e, f \in Range(bound \o lazy) : eps[e].addr = eps[f].addr => e = f

\* "Peer is either a real bind-side binproc or a lazy-owner cinproc": the
\* owner that a call found still exists when it is used.
OwnerAlive ==
  \A c \in Finders : call[c].owner \in DOMAIN eps \cup {None}

\* "Lock both socks in address order to avoid A<->B deadlock when both ends
\* close concurrently": the peer a teardown goes on to lock still exists.
PeerAlive ==
  \A t \in Actors : td[t].pc = "stop" => td[t].peer \in DOMAIN sess \cup {None}

\* "the existing lazy connectors keep their wires attached and gain a matching
\* bind-side peer": a connector of a bound address is connected.
LazyGainsPeer ==
  \A e \in DOMAIN eps, b \in Range(bound) :
    /\ ~eps[e].bind /\ eps[e].addr = eps[b].addr
    /\ ~Stopping(eps[e].sock) /\ ~Stopping(eps[b].sock)
    => eps[e].sinproc # None \/ eps[e].sinprocs # <<>>
=============================================================================
