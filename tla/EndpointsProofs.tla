--------------------------- MODULE EndpointsProofs --------------------------
(***************************************************************************)
(* Proofs about the endpoints of the stream transports, for every set of   *)
(* nets: any kind of endpoint, any number of sessions, any intervals.      *)
(***************************************************************************)
EXTENDS Endpoints, TLAPS

Memory == {"none", "fresh", "live", "stopped", "freed"}

(* The records an endpoint whose sessions are S may be. *)
EpRec(S) ==
  [phase: {"new", "up", "failed", "gone"}, run: BOOLEAN,
   cur: SUBSET S, zombies: SUBSET S, disc: SUBSET S,
   reconnecting: BOOLEAN, spawn: BOOLEAN, ivl: Int, heap: [S -> Memory]]

(* The memory h once every session of X has become m. *)
Marked(h, X, m) == [s \in DOMAIN h |-> IF s \in X THEN m ELSE h[s]]

-----------------------------------------------------------------------------
(* What the functions of the endpoints do to the record. *)

(* Marking sessions keeps the type of the memory and touches no other. *)
LEMMA MarkedMemory ==
  ASSUME NEW S, NEW h \in [S -> Memory], NEW X, NEW m \in Memory
  PROVE  /\ Marked(h, X, m) \in [S -> Memory]
         /\ \A s \in S : /\ s \in X => Marked(h, X, m)[s] = m
                         /\ s \notin X => Marked(h, X, m)[s] = h[s]
BY Zenon DEF Marked

(* Freeing the zombies, the same in every endpoint. *)
LEMMA FreeZombiesRecord ==
  ASSUME NEW S, NEW w \in EpRec(S)
  PROVE  mb_cipc_free_zombie(w) =
           [w EXCEPT !.heap = Marked(w.heap, w.zombies, "freed"), !.zombies = {}]
<1>1. Freed(w, w.zombies) = [w EXCEPT !.heap = Marked(w.heap, w.zombies, "freed")]
  BY Zenon DEF Freed, Marked
<1> QED
  BY <1>1, Zenon DEF mb_cipc_free_zombie, EpRec

(* The lock section of a connector's stop. *)
LEMMA ConnectorStopRecord ==
  ASSUME NEW S, NEW w \in EpRec(S)
  PROVE  mb_cipc_stop(w) =
           [w EXCEPT !.heap = Marked(Marked(w.heap, w.cur, "freed"), w.zombies, "freed"),
                     !.cur = {}, !.zombies = {}, !.run = FALSE]
<1> DEFINE g == [w EXCEPT !.heap = Marked(w.heap, w.cur, "freed"), !.cur = {}, !.run = FALSE]
<1>1. Freed(w, w.cur) = [w EXCEPT !.heap = Marked(w.heap, w.cur, "freed")]
  BY Zenon DEF Freed, Marked
<1>2. [Freed(w, w.cur) EXCEPT !.cur = {}, !.run = FALSE] = g
  BY <1>1, Zenon DEF EpRec
<1>3. Freed(g, g.zombies) = [g EXCEPT !.heap = Marked(g.heap, g.zombies, "freed")]
  BY Zenon DEF Freed, Marked
<1>4. g.heap = Marked(w.heap, w.cur, "freed") /\ g.zombies = w.zombies
  BY Zenon DEF EpRec
<1> DEFINE h == Marked(Marked(w.heap, w.cur, "freed"), w.zombies, "freed")
<1>5. mb_cipc_stop(w) = [Freed(g, g.zombies) EXCEPT !.zombies = {}]
  BY <1>2, Zenon DEF mb_cipc_stop, mb_cipc_free_zombie
<1>6. Freed(g, g.zombies) = [g EXCEPT !.heap = h]
  BY <1>3, <1>4, Zenon
<1> HIDE DEF h
<1>7. [[g EXCEPT !.heap = h] EXCEPT !.zombies = {}] =
        [w EXCEPT !.heap = h, !.cur = {}, !.zombies = {}, !.run = FALSE]
  BY Zenon DEF EpRec
<1> QED
  BY <1>5, <1>6, <1>7, Zenon DEF h

(* The stop of a binder, once its thread has been joined. *)
LEMMA BinderStopRecord ==
  ASSUME NEW S, NEW w \in EpRec(S)
  PROVE  mb_bipc_stop(w) =
           [w EXCEPT !.heap = Marked(Marked(w.heap, w.cur, "freed"), w.zombies, "freed"),
                     !.cur = {}, !.zombies = {}]
<1> DEFINE g == [w EXCEPT !.heap = Marked(w.heap, w.cur, "freed"), !.cur = {}]
<1>1. Freed(w, w.cur) = [w EXCEPT !.heap = Marked(w.heap, w.cur, "freed")]
  BY Zenon DEF Freed, Marked
<1>2. [Freed(w, w.cur) EXCEPT !.cur = {}] = g
  BY <1>1, Zenon DEF EpRec
<1>3. Freed(g, g.zombies) = [g EXCEPT !.heap = Marked(g.heap, g.zombies, "freed")]
  BY Zenon DEF Freed, Marked
<1>4. g.heap = Marked(w.heap, w.cur, "freed") /\ g.zombies = w.zombies
  BY Zenon DEF EpRec
<1> QED
  BY <1>2, <1>3, <1>4, Zenon DEF mb_bipc_stop, mb_bipc_free_zombies, EpRec

(* A connector's callback: the session becomes the zombie. *)
LEMMA OnDisconnectRecord ==
  ASSUME NEW S, NEW w \in EpRec(S), NEW i, w.run, w.cur # {}
  PROVE  mb_cipc_on_disconnect(w, i) =
           [w EXCEPT !.heap = Marked(Marked(w.heap, w.cur, "stopped"), w.zombies, "freed"),
                     !.cur = {}, !.zombies = w.cur, !.spawn = i > 0 /\ ~w.reconnecting,
                     !.reconnecting = w.reconnecting \/ i > 0]
<1> DEFINE g == [w EXCEPT !.heap = Marked(w.heap, w.cur, "stopped")]
<1>1. Stopped(w, w.cur) = g
  BY Zenon DEF Stopped, Marked
<1>3. Freed(g, g.zombies) = [g EXCEPT !.heap = Marked(g.heap, g.zombies, "freed")]
  BY Zenon DEF Freed, Marked
<1>4. g.heap = Marked(w.heap, w.cur, "stopped") /\ g.zombies = w.zombies
  BY Zenon DEF EpRec
<1> DEFINE z == mb_cipc_free_zombie(Stopped(w, w.cur))
           d == [w EXCEPT !.heap = Marked(Marked(w.heap, w.cur, "stopped"), w.zombies, "freed"),
                          !.cur = {}, !.zombies = w.cur]
<1>5. [z EXCEPT !.zombies = w.cur, !.cur = {}] = d
  <2>1. z = [Freed(g, g.zombies) EXCEPT !.zombies = {}]
    BY <1>1, Zenon DEF mb_cipc_free_zombie
  <2>2. z = [w EXCEPT !.heap = Marked(Marked(w.heap, w.cur, "stopped"), w.zombies, "freed"),
                      !.zombies = {}]
    <3> DEFINE h == Marked(Marked(w.heap, w.cur, "stopped"), w.zombies, "freed")
    <3>1. z = [[g EXCEPT !.heap = h] EXCEPT !.zombies = {}]
      BY <2>1, <1>3, <1>4, Zenon
    <3> HIDE DEF h
    <3>2. [[g EXCEPT !.heap = h] EXCEPT !.zombies = {}] = [w EXCEPT !.heap = h, !.zombies = {}]
      BY Zenon DEF EpRec
    <3> QED
      BY <3>1, <3>2, Zenon DEF h
  <2> HIDE DEF z, g
  <2> QED
    BY <2>2, Zenon DEF EpRec
<1>6. mb_cipc_on_disconnect(w, i) =
        [[z EXCEPT !.zombies = w.cur, !.cur = {}] EXCEPT
           !.spawn = i > 0 /\ ~w.reconnecting, !.reconnecting = @ \/ i > 0]
  BY Zenon DEF mb_cipc_on_disconnect
<1> HIDE DEF z
<1>7. d.reconnecting = w.reconnecting
  BY Zenon DEF EpRec
<1>8. mb_cipc_on_disconnect(w, i) =
        [d EXCEPT !.spawn = i > 0 /\ ~w.reconnecting, !.reconnecting = w.reconnecting \/ i > 0]
  <2> HIDE DEF d
  <2> QED
    BY <1>5, <1>6, <1>7, Zenon
<1> QED
  BY <1>8, Zenon DEF EpRec

(* A binder's callback: the sessions that have failed become zombies. *)
LEMMA OnSessionErrorRecord ==
  ASSUME NEW S, NEW w \in EpRec(S)
  PROVE  mb_bipc_on_session_error(w) =
           [w EXCEPT !.heap = Marked(w.heap, w.cur \cap w.disc, "stopped"),
                     !.cur = w.cur \ (w.cur \cap w.disc),
                     !.zombies = w.zombies \cup (w.cur \cap w.disc)]
<1>1. Stopped(w, w.cur \cap w.disc) = [w EXCEPT !.heap = Marked(w.heap, w.cur \cap w.disc, "stopped")]
  BY Zenon DEF Stopped, Marked
<1> QED
  BY <1>1, Zenon DEF mb_bipc_on_session_error, EpRec

-----------------------------------------------------------------------------
(* The function tables: the connectors are written alike, and the binders. *)

ConnectKinds == {"cipc", "ctcp", "ctls", "cws", "cwss"}
BindKinds == {"bipc", "btcp", "btls", "bws", "bwss"}

(* Every net is of one of the kinds. *)
LEMMA Kinds ==
  ASSUME net \in Nets
  PROVE  /\ Connecting => net.kind \in ConnectKinds
         /\ ~Connecting => net.kind \in BindKinds
BY NetsAssumption, Zenon DEF Connecting, ConnectKinds, BindKinds

(* What the table of a connector holds. *)
LEMMA ConnectorTable ==
  ASSUME net \in Nets, Connecting, NEW w
  PROVE  /\ \A r, s, started : Create(w, r, s, started) = mb_cipc_create(w, r, s, net.ivl, started)
         /\ OnError(w) = mb_cipc_on_disconnect(w, net.ivl)
         /\ FreeZombies(w) = mb_cipc_free_zombie(w)
         /\ StopUnderLock(w) = mb_cipc_stop(w)
         /\ DestroyEndpoint(w) = mb_cipc_destroy(w)
<1> USE Kinds DEF ConnectKinds
<1>1. ASSUME NEW r, NEW s, NEW started
      PROVE  Create(w, r, s, started) = mb_cipc_create(w, r, s, net.ivl, started)
  BY Zenon DEF Create, mb_cipc_create, mb_ctcp_create, mb_ctls_create, mb_cws_create, mb_cwss_create,
         mb_ctcp_do_connect, mb_ctls_do_connect, mb_cws_do_connect, mb_cwss_do_connect
<1>2. OnError(w) = mb_cipc_on_disconnect(w, net.ivl)
  BY Zenon DEF OnError, mb_ctcp_on_disconnect, mb_ctls_on_disconnect, mb_cws_on_disconnect,
         mb_cwss_on_disconnect
<1>3. FreeZombies(w) = mb_cipc_free_zombie(w)
  BY Zenon DEF FreeZombies, mb_ctcp_free_zombie, mb_ctls_free_zombie, mb_cws_free_zombie,
         mb_cwss_free_zombie
<1>4. StopUnderLock(w) = mb_cipc_stop(w)
  BY Zenon DEF StopUnderLock, mb_ctcp_stop, mb_ctls_stop, mb_cws_stop, mb_cwss_stop
<1>5. DestroyEndpoint(w) = mb_cipc_destroy(w)
  BY Zenon DEF DestroyEndpoint, mb_ctcp_destroy, mb_ctls_destroy, mb_cws_destroy, mb_cwss_destroy
<1> QED
  BY <1>1, <1>2, <1>3, <1>4, <1>5, Zenon

(* What the table of a binder holds. *)
LEMMA BinderTable ==
  ASSUME net \in Nets, ~Connecting, NEW w
  PROVE  /\ OnError(w) = mb_bipc_on_session_error(w)
         /\ FreeZombies(w) = mb_cipc_free_zombie(w)
         /\ StopUnderLock(w) = mb_bipc_stop(w)
         /\ DestroyEndpoint(w) \in {w, mb_bipc_stop([w EXCEPT !.run = FALSE])}
<1> USE Kinds DEF BindKinds
<1>2. OnError(w) = mb_bipc_on_session_error(w)
  BY Zenon DEF OnError, mb_btcp_on_session_error, mb_btls_on_session_error, mb_bws_on_session_error,
         mb_bwss_on_session_error
<1>3. FreeZombies(w) = mb_cipc_free_zombie(w)
  BY Zenon DEF FreeZombies, mb_bipc_free_zombies, mb_btcp_free_zombies, mb_btls_free_zombies,
         mb_bws_free_zombies, mb_bwss_free_zombies, mb_cipc_free_zombie
<1>4. \A x : /\ mb_btcp_stop(x) = mb_bipc_stop(x) /\ mb_btls_stop(x) = mb_bipc_stop(x)
             /\ mb_bws_stop(x) = mb_bipc_stop(x) /\ mb_bwss_stop(x) = mb_bipc_stop(x)
  BY Zenon DEF mb_bipc_stop, mb_btcp_stop, mb_btls_stop, mb_bws_stop, mb_bwss_stop, mb_btcp_cleanup,
         mb_btls_cleanup, mb_btcp_free_zombies, mb_btls_free_zombies, mb_bws_free_zombies,
         mb_bwss_free_zombies
<1>5. StopUnderLock(w) = mb_bipc_stop(w)
  BY <1>4, Zenon DEF StopUnderLock
<1>6. \A x : mb_btcp_destroy(x) = mb_btcp_stop([x EXCEPT !.run = FALSE])
  BY Zenon DEF mb_btcp_destroy, mb_btcp_stop
<1>7. DestroyEndpoint(w) \in {w, mb_bipc_stop([w EXCEPT !.run = FALSE])}
  BY <1>4, <1>6, Zenon DEF DestroyEndpoint, mb_bipc_destroy, mb_btls_destroy,
         mb_bws_destroy, mb_bwss_destroy
<1> QED
  BY <1>2, <1>3, <1>5, <1>7, Zenon

(* The stages of a thread start with one that makes no session and end     *)
(* with the publication, which the allocation alone comes before.          *)
LEMMA StagesShape ==
  ASSUME net \in Nets
  PROVE  /\ 1 \in DOMAIN Stages /\ Stages[1] # "publish"
         /\ \A i \in DOMAIN Stages :
              /\ i \in Nat
              /\ Stages[i] # "publish" => i + 1 \in DOMAIN Stages
              /\ i + 1 \in DOMAIN Stages =>
                   (Stages[i + 1] = "publish" <=> Stages[i] = "alloc")
<1> DEFINE Good(q) == /\ 1 \in DOMAIN q /\ q[1] # "publish"
                      /\ \A i \in DOMAIN q :
                           /\ i \in Nat
                           /\ q[i] # "publish" => i + 1 \in DOMAIN q
                           /\ i + 1 \in DOMAIN q => (q[i + 1] = "publish" <=> q[i] = "alloc")
<1>1. \A a : a # "alloc" /\ a # "publish" => Good(<<a, "alloc", "publish">>)
  OBVIOUS
<1>2. \A a, b : a \notin {"alloc", "publish"} /\ b \notin {"alloc", "publish"} =>
        Good(<<a, b, "alloc", "publish">>)
  OBVIOUS
<1>3. \A a, b, c : a \notin {"alloc", "publish"} /\ b \notin {"alloc", "publish"} /\
        c \notin {"alloc", "publish"} => Good(<<a, b, c, "alloc", "publish">>)
  OBVIOUS
<1> HIDE DEF Good
<1>4. /\ Good(mb_cipc_reconnect_loop) /\ Good(mb_ctcp_reconnect_loop)
      /\ Good(mb_ctls_reconnect_loop) /\ Good(mb_cws_reconnect_loop)
      /\ Good(mb_cwss_reconnect_loop)
  BY <1>1, <1>2, <1>3, Zenon DEF mb_cipc_reconnect_loop, mb_ctcp_reconnect_loop,
     mb_ctls_reconnect_loop, mb_cws_reconnect_loop, mb_cwss_reconnect_loop
<1>5. /\ Good(mb_bipc_accept_loop) /\ Good(mb_btcp_accept_loop) /\ Good(mb_btls_accept_loop)
      /\ Good(mb_bws_accept_loop) /\ Good(mb_bwss_accept_loop)
  BY <1>1, <1>2, <1>3, Zenon DEF mb_bipc_accept_loop, mb_btcp_accept_loop, mb_btls_accept_loop,
     mb_bws_accept_loop, mb_bwss_accept_loop
<1>6. Good(Stages)
  BY <1>4, <1>5, Kinds, Zenon DEF Stages, ConnectKinds, BindKinds
<1> QED
  BY <1>6, Zenon DEF Good

-----------------------------------------------------------------------------
(* The inductive invariant. *)

Types ==
  /\ net \in Nets
  /\ ep \in EpRec(Sessions) /\ ep.spawn = FALSE
  /\ caller \in [pc: {"idle", "in", "report", "join", "nospawn", "unwind", "stuck"},
                 s: Sessions \cup {NoSess}]
  /\ loop \in [pc: {"off", "start", "work", "sleep", "final", "exit", "stuck"},
               stage: Nat, s: Sessions \cup {NoSess}]
  /\ closer \in {"idle", "lock", "join", "done", "gone", "stuck"}

(* Where a session is says what its memory is, and the other way round. *)
OwnedBy(S, h, cur, zombies, made) ==
  \A s \in S : /\ s \in cur <=> h[s] = "live"
               /\ s \in zombies <=> h[s] = "stopped"
               /\ s = made <=> h[s] = "fresh"

Owned == OwnedBy(Sessions, ep.heap, ep.cur, ep.zombies, loop.s)

(* The thread holds a session between its allocation and its publication. *)
Making ==
  /\ loop.pc = "work" => loop.stage \in DOMAIN Stages
  /\ loop.s # NoSess <=> loop.pc = "stuck" \/ AtStage("publish")

(* Where a call is says what the memory of its session is, and a caller    *)
(* about to start the thread is the only one.                              *)
Calling ==
  /\ caller.pc = "idle" <=> caller.s = NoSess
  /\ caller.pc \in {"in", "report"} => ep.heap[caller.s] = "live"
  /\ caller.pc = "join" => ep.heap[caller.s] = "stopped"
  /\ caller.pc \in {"join", "nospawn"} => Connecting /\ loop.pc \in {"off", "exit"}

(* A connector has a session or reconnects. *)
OneSession ==
  Connecting => /\ ep.reconnecting => ep.cur = {}
                /\ \A s, t \in ep.cur : s = t

(* How far the stop has come, and that nothing happens before the creation. *)
Closing ==
  /\ closer # "idle" => caller.pc = "idle"
  /\ ep.phase = "new" =>
       /\ loop.pc = "off" /\ caller.pc = "idle" /\ closer = "idle"
       /\ ~ep.reconnecting /\ ep.cur = {} /\ ep.zombies = {}
  /\ Connecting /\ closer \in {"join", "done", "gone"} =>
       ~ep.run /\ ep.cur = {} /\ ep.zombies = {}
  /\ ~Connecting /\ closer \in {"done", "gone"} => ep.cur = {} /\ ep.zombies = {}
  /\ closer \in {"done", "gone"} \/ (~Connecting /\ closer = "lock") => loop.pc = "off"

EInv ==
  Types /\ Owned /\ Making /\ Calling /\ OneReconnector /\ OneSession /\ Closing

(* A step that leaves alone all the invariant tells apart in the endpoint. *)
EpKept ==
  /\ ep' \in EpRec(Sessions)
  /\ ep'.phase = ep.phase /\ ep'.run = ep.run /\ ep'.cur = ep.cur
  /\ ep'.zombies = ep.zombies /\ ep'.reconnecting = ep.reconnecting
  /\ ep'.spawn = ep.spawn /\ ep'.heap = ep.heap

-----------------------------------------------------------------------------
(* Facts the steps share. *)

(* The net never changes, nor what depends on it alone. *)
LEMMA NetSame ==
  ASSUME net' = net
  PROVE  Sessions' = Sessions /\ (Connecting' <=> Connecting) /\ Stages' = Stages
<1>1. Sessions' = Sessions
  BY Zenon DEF Sessions
<1>2. Connecting' <=> Connecting
  BY Zenon DEF Connecting
<1>3. Stages' = Stages
  BY Zenon DEF Stages
<1> QED
  BY <1>1, <1>2, <1>3, Zenon

(* There is a first session, and no session is the absence of one. *)
LEMMA FirstSession ==
  ASSUME net \in Nets
  PROVE  NoSess \notin Sessions /\ 1 \in Sessions
BY NetsAssumption DEF Sessions, NoSess

(* Sessions stay owned while memory, lists and the loop's session stay. *)
LEMMA OwnedKept ==
  ASSUME Owned, EpKept, net' = net, loop'.s = loop.s
  PROVE  Owned'
BY NetSame, Zenon DEF Owned, EpKept

(* The loop's place stays legal while the loop stays. *)
LEMMA MakingKept ==
  ASSUME Making, net' = net, loop' = loop
  PROVE  Making'
BY NetSame, Zenon DEF Making, AtStage

(* An endpoint that is not touched is kept. *)
LEMMA EpUntouched ==
  ASSUME Types, ep' = ep
  PROVE  EpKept
BY Zenon DEF Types, EpKept

(* A step of the caller that keeps the endpoint, the loop and the flag. *)
LEMMA CallerMoves ==
  ASSUME EInv, EpKept, UNCHANGED <<net, loop, closer>>,
         closer = "idle", ep.phase # "new",
         caller' \in [pc: {"idle", "in", "report", "unwind", "stuck"}, s: Sessions \cup {NoSess}],
         caller'.pc = "idle" <=> caller'.s = NoSess,
         caller'.pc \in {"in", "report"} => ep.heap[caller'.s] = "live",
         caller.pc \notin {"join", "nospawn"}
  PROVE  EInv'
<1> USE NetSame
<1>1. Types'
  BY Zenon DEF EInv, Types, EpKept
<1>2. Owned' /\ Making'
  BY OwnedKept, MakingKept, Zenon DEF EInv
<1>3. Calling'
  BY Zenon DEF EInv, EpKept, Calling
<1>4. OneReconnector' /\ OneSession'
  BY Zenon DEF EInv, EpKept, OneReconnector, OneSession
<1>5. Closing'
  BY Zenon DEF EInv, EpKept, Closing
<1> QED
  BY <1>1, <1>2, <1>3, <1>4, <1>5, Zenon DEF EInv

(* A step of the loop, at work or asleep, to another of its places without *)
(* a session.                                                              *)
LEMMA LoopMoves ==
  ASSUME EInv, EpKept, UNCHANGED <<net, caller, closer>>,
         loop.pc \in {"work", "sleep", "start"}, loop.s = NoSess,
         loop' \in [pc: {"start", "work", "sleep", "final"}, stage: Nat, s: {NoSess}],
         loop'.pc = "work" => loop'.stage \in DOMAIN Stages /\ Stages[loop'.stage] # "publish"
  PROVE  EInv'
<1> USE NetSame
<1>1. Types'
  BY Zenon DEF EInv, Types, EpKept
<1>2. Owned'
  BY OwnedKept, Zenon DEF EInv
<1>3. Making'
  BY Zenon DEF Making, AtStage
<1>4. Calling'
  BY Zenon DEF EInv, EpKept, Calling
<1>5. OneReconnector' /\ OneSession'
  BY Zenon DEF EInv, EpKept, OneReconnector, OneSession, Calling
<1>6. Closing'
  BY Zenon DEF EInv, EpKept, Closing
<1> QED
  BY <1>1, <1>2, <1>3, <1>4, <1>5, <1>6, Zenon DEF EInv

-----------------------------------------------------------------------------
(* The steps of the peer and of the caller. *)

(* Nothing the invariant speaks of changes. *)
LEMMA QuietStep ==
  ASSUME EInv, UNCHANGED <<net, ep, caller, loop, closer>>
  PROVE  EInv'
<1> USE NetSame
<1>1. EpKept
  BY EpUntouched, Zenon DEF EInv
<1>2. Types'
  BY Zenon DEF EInv, Types
<1>3. Owned' /\ Making'
  BY <1>1, OwnedKept, MakingKept, Zenon DEF EInv
<1>4. Calling' /\ OneReconnector' /\ OneSession' /\ Closing'
  BY Zenon DEF EInv, Calling, OneReconnector, OneSession, Closing
<1> QED
  BY <1>2, <1>3, <1>4, Zenon DEF EInv

(* A call enters a session of the socket. *)
LEMMA CallerEntersStep ==
  ASSUME EInv, NEW s \in Sessions, CallerEnters(s)
  PROVE  EInv'
<1>1. EpKept
  BY EpUntouched, Zenon DEF EInv, CallerEnters
<1>2. ep.phase # "new"
  BY Zenon DEF EInv, Owned, OwnedBy, Closing, CallerEnters
<1>3. s # NoSess
  BY FirstSession, Zenon DEF EInv, Types
<1> QED
  BY <1>1, <1>2, <1>3, CallerMoves, Zenon DEF EInv, CallerEnters

(* The call returns, or meets the loss of the connection. *)
LEMMA CallerWorksStep ==
  ASSUME EInv, CallerWorks
  PROVE  EInv'
<1>1. caller \in [pc: {"in"}, s: Sessions \cup {NoSess}] /\ caller.s # NoSess
  BY Zenon DEF EInv, Types, Calling, CallerWorks
<1>2. EpKept
  <2>1. CASE ep' = ep
    BY <2>1, EpUntouched, Zenon DEF EInv
  <2>2. CASE ep' = [ep EXCEPT !.disc = ep.disc \cup {caller.s}]
    BY <1>1, <2>2, Zenon DEF EInv, Types, EpKept, EpRec
  <2> QED
    BY <2>1, <2>2, Zenon DEF CallerWorks
<1>3. closer = "idle" /\ ep.phase # "new"
  BY Zenon DEF EInv, Closing, CallerWorks
<1>4. ep.heap[caller.s] = "live"
  BY Zenon DEF EInv, Calling, CallerWorks
<1>5. CASE caller' = Idle
  BY <1>1, <1>2, <1>3, <1>5, CallerMoves, Zenon DEF CallerWorks, Idle
<1>6. CASE caller' \in {[caller EXCEPT !.pc = "unwind"], [caller EXCEPT !.pc = "report"]}
  BY <1>1, <1>2, <1>3, <1>4, <1>6, CallerMoves, Zenon DEF CallerWorks
<1> QED
  BY <1>5, <1>6, Zenon DEF CallerWorks

(* The caller starts the thread, or fails to. *)
LEMMA CallerSpawnsStep ==
  ASSUME EInv, CallerSpawns
  PROVE  EInv'
<1> USE NetSame
<1>1. /\ caller \in [pc: {"join"}, s: Sessions \cup {NoSess}] /\ caller.s # NoSess
      /\ Connecting /\ loop.pc = "off" /\ closer = "idle" /\ ep.phase # "new"
      /\ ep.heap[caller.s] = "stopped"
  BY Zenon DEF EInv, Types, Calling, Closing, CallerSpawns
<1>2. EpKept /\ UNCHANGED <<net, ep, closer>>
  BY EpUntouched, Zenon DEF EInv, CallerSpawns
<1>3. loop.s = NoSess
  BY <1>1, Zenon DEF EInv, Making, AtStage
<1>4. \/ /\ loop' = [pc |-> "start", stage |-> 1, s |-> NoSess]
         /\ caller' = [caller EXCEPT !.pc = "unwind"]
      \/ loop' = loop /\ caller' = [caller EXCEPT !.pc = "nospawn"]
  BY Zenon DEF CallerSpawns, Started, LoopOff
<1>5. Types'
  BY <1>1, <1>2, <1>4 DEF EInv, Types
<1>6. Owned'
  BY <1>2, <1>3, <1>4, OwnedKept DEF EInv
<1>7. Making'
  BY <1>1, <1>3, <1>4 DEF Making, AtStage
<1>8. Calling'
  BY <1>1, <1>2, <1>4, Zenon DEF Calling
<1>9. OneReconnector'
  BY <1>1, <1>2, <1>4 DEF EInv, OneReconnector
<1>10. OneSession'
  BY <1>2, Zenon DEF EInv, OneSession
<1>11. Closing'
  BY <1>1, <1>2, Zenon DEF Closing
<1> QED
  BY <1>5, <1>6, <1>7, <1>8, <1>9, <1>10, <1>11, Zenon DEF EInv

(* Without a thread the flag is cleared again. *)
LEMMA CallerGivesUpStep ==
  ASSUME EInv, CallerGivesUp
  PROVE  EInv'
<1> USE NetSame
<1>1. /\ caller \in [pc: {"nospawn"}, s: Sessions \cup {NoSess}] /\ caller.s # NoSess
      /\ Connecting /\ loop.pc \in {"off", "exit"} /\ closer = "idle" /\ ep.phase # "new"
  BY Zenon DEF EInv, Types, Calling, Closing, CallerGivesUp
<1>2. UNCHANGED <<net, loop, closer>> /\ caller' = [caller EXCEPT !.pc = "unwind"]
  BY Zenon DEF CallerGivesUp
<1>3. /\ ep' \in EpRec(Sessions) /\ ep'.spawn = ep.spawn /\ ep'.reconnecting = FALSE
      /\ ep'.phase = ep.phase /\ ep'.cur = ep.cur /\ ep'.zombies = ep.zombies
      /\ ep'.heap = ep.heap
  BY Zenon DEF EInv, Types, EpRec, CallerGivesUp
<1>4. Types'
  BY <1>1, <1>2, <1>3, Zenon DEF EInv, Types
<1>5. Owned'
  BY <1>2, <1>3, Zenon DEF EInv, Owned
<1>6. Making'
  BY <1>2, MakingKept, Zenon DEF EInv
<1>7. Calling'
  BY <1>1, <1>2, Zenon DEF Calling
<1>8. OneReconnector'
  BY <1>1, <1>2, <1>3, Zenon DEF OneReconnector
<1>9. OneSession'
  BY <1>2, <1>3, Zenon DEF EInv, OneSession
<1>10. Closing'
  BY <1>1, <1>2, <1>3, Zenon DEF Closing
<1> QED
  BY <1>4, <1>5, <1>6, <1>7, <1>8, <1>9, <1>10, Zenon DEF EInv

(* The call returns from a session that has failed. *)
LEMMA CallerUnwindsStep ==
  ASSUME EInv, CallerUnwinds
  PROVE  EInv'
<1>1. EpKept
  BY EpUntouched, Zenon DEF EInv, CallerUnwinds
<1>2. closer = "idle" /\ ep.phase # "new"
  BY Zenon DEF EInv, Closing, CallerUnwinds
<1> QED
  BY <1>1, <1>2, CallerMoves, Zenon DEF CallerUnwinds, Idle

-----------------------------------------------------------------------------
(* The steps of the loop that touch no session. *)

(* The next stage, short of the publication. *)
LEMMA NextStageLegal ==
  ASSUME EInv, loop.pc = "work", Stages[loop.stage] \notin {"alloc", "publish"}
  PROVE  /\ loop.s = NoSess
         /\ NextStage \in [pc: {"work"}, stage: Nat, s: {NoSess}]
         /\ NextStage.stage \in DOMAIN Stages /\ Stages[NextStage.stage] # "publish"
<1>1. loop.s = NoSess /\ loop.stage \in DOMAIN Stages
  BY Zenon DEF EInv, Making, AtStage
<1>2. loop.stage + 1 \in DOMAIN Stages /\ Stages[loop.stage + 1] # "publish"
  BY <1>1, StagesShape, Zenon DEF EInv, Types
<1>3. NextStage = [pc |-> "work", stage |-> loop.stage + 1, s |-> NoSess] /\ loop.stage \in Nat
  BY <1>1 DEF EInv, Types, NextStage
<1> QED
  BY <1>1, <1>2, <1>3

(* The places a stage that fails leads to. *)
LEMMA FailsLegal ==
  /\ LoopFails \in [pc: {"start", "sleep"}, stage: Nat, s: {NoSess}]
  /\ \A p : [LoopOff EXCEPT !.pc = p] = [pc |-> p, stage |-> 1, s |-> NoSess]
BY DEF LoopFails, LoopOff

(* The thread connects. *)
LEMMA LoopConnectsStep ==
  ASSUME EInv, LoopConnects
  PROVE  EInv'
<1>1. loop.pc = "work" /\ Stages[loop.stage] \notin {"alloc", "publish"}
  BY Zenon DEF LoopConnects, AtStage
<1>2. EpKept /\ UNCHANGED <<net, caller, closer>>
  BY EpUntouched, Zenon DEF EInv, LoopConnects
<1>3. \/ loop' = [pc |-> "final", stage |-> 1, s |-> NoSess]
      \/ loop' = NextStage \/ loop' = LoopFails
  BY FailsLegal, Zenon DEF LoopConnects
<1> QED
  BY <1>1, <1>2, <1>3, NextStageLegal, FailsLegal, LoopMoves

(* The thread accepts. *)
LEMMA LoopAcceptsStep ==
  ASSUME EInv, LoopAccepts
  PROVE  EInv'
<1>1. loop.pc = "work" /\ Stages[loop.stage] \notin {"alloc", "publish"}
  BY Zenon DEF LoopAccepts, AtStage
<1>2. EpKept /\ UNCHANGED <<net, caller, closer>>
  BY EpUntouched, Zenon DEF EInv, LoopAccepts
<1>3. loop' = [pc |-> "start", stage |-> 1, s |-> NoSess] \/ loop' = NextStage
  BY FailsLegal, Zenon DEF LoopAccepts
<1> QED
  BY <1>1, <1>2, <1>3, NextStageLegal, LoopMoves

(* The thread does a handshake. *)
LEMMA LoopHandshakesStep ==
  ASSUME EInv, LoopHandshakes
  PROVE  EInv'
<1>1. loop.pc = "work" /\ Stages[loop.stage] \notin {"alloc", "publish"}
  BY Zenon DEF LoopHandshakes, AtStage
<1>2. EpKept /\ UNCHANGED <<net, caller, closer>>
  BY EpUntouched, Zenon DEF EInv, LoopHandshakes
<1>3. \/ loop' = [pc |-> "final", stage |-> 1, s |-> NoSess]
      \/ loop' = NextStage \/ loop' = LoopFails
  BY FailsLegal, Zenon DEF LoopHandshakes
<1> QED
  BY <1>1, <1>2, <1>3, NextStageLegal, FailsLegal, LoopMoves

(* The thread sets a socket option. *)
LEMMA LoopKeepaliveStep ==
  ASSUME EInv, LoopKeepalive
  PROVE  EInv'
<1>1. loop.pc = "work" /\ Stages[loop.stage] \notin {"alloc", "publish"}
  BY Zenon DEF LoopKeepalive, AtStage
<1>2. EpKept /\ UNCHANGED <<net, caller, closer>>
  BY EpUntouched, Zenon DEF EInv, LoopKeepalive
<1>3. loop' = NextStage \/ loop' = LoopFails
  BY Zenon DEF LoopKeepalive
<1> QED
  BY <1>1, <1>2, <1>3, NextStageLegal, FailsLegal, LoopMoves, Zenon

(* The thread sleeps, and the interval grows. *)
LEMMA LoopSleepsStep ==
  ASSUME EInv, LoopSleeps
  PROVE  EInv'
<1>1. net \in Nets /\ 1 \in DOMAIN Stages /\ Stages[1] # "publish"
  BY StagesShape, Zenon DEF EInv, Types
<1>2. loop.pc = "sleep" /\ loop.s = NoSess /\ UNCHANGED <<net, caller, closer>>
  BY Zenon DEF EInv, Making, AtStage, LoopSleeps
<1>3. EpKept
  <2>1. ep.ivl \in Int /\ net.ivl_max \in Int
    BY <1>1, NetsAssumption, Zenon DEF EInv, Types, EpRec
  <2>2. mb_reconnect_next_ivl(ep.ivl, net.ivl_max) \in Int
    BY <2>1 DEF mb_reconnect_next_ivl
  <2> QED
    BY <2>2, Zenon DEF EInv, Types, EpRec, EpKept, LoopSleeps
<1>4. \/ loop' = [pc |-> "work", stage |-> 1, s |-> NoSess]
      \/ loop' = [pc |-> "final", stage |-> 1, s |-> NoSess]
  BY FailsLegal, Zenon DEF LoopSleeps
<1> QED
  BY <1>1, <1>2, <1>3, <1>4, LoopMoves

(* The thread clears the flag before it ends. *)
LEMMA LoopFinishesStep ==
  ASSUME EInv, LoopFinishes
  PROVE  EInv'
<1> USE NetSame
<1>1. /\ loop.pc = "final" /\ loop.s = NoSess /\ ep.phase # "new"
      /\ ~(closer \in {"done", "gone"} \/ (~Connecting /\ closer = "lock"))
      /\ caller.pc \notin {"join", "nospawn"}
  BY Zenon DEF EInv, Making, AtStage, Closing, Calling, LoopFinishes
<1>2. UNCHANGED <<net, caller, closer>> /\ loop' = [loop EXCEPT !.pc = "exit"]
  BY Zenon DEF LoopFinishes
<1>3. /\ ep' \in EpRec(Sessions) /\ ep'.spawn = ep.spawn /\ ep'.reconnecting = FALSE
      /\ ep'.phase = ep.phase /\ ep'.run = ep.run
      /\ ep'.cur = ep.cur /\ ep'.zombies = ep.zombies /\ ep'.heap = ep.heap
  BY Zenon DEF EInv, Types, EpRec, LoopFinishes
<1>4. /\ loop' \in [pc: {"exit"}, stage: Nat, s: {NoSess}]
  BY <1>1, <1>2, Zenon DEF EInv, Types
<1>5. Types'
  BY <1>2, <1>3, <1>4, Zenon DEF EInv, Types
<1>6. Owned'
  BY <1>1, <1>2, <1>3, <1>4, Zenon DEF EInv, Owned
<1>7. Making'
  BY <1>4, Zenon DEF Making, AtStage
<1>8. Calling'
  BY <1>2, <1>3, <1>4, Zenon DEF EInv, Calling
<1>9. OneReconnector' /\ OneSession'
  BY <1>1, <1>2, <1>3, <1>4, Zenon DEF EInv, OneReconnector, OneSession
<1>10. Closing'
  BY <1>1, <1>2, <1>3, Zenon DEF EInv, Closing
<1> QED
  BY <1>5, <1>6, <1>7, <1>8, <1>9, <1>10, Zenon DEF EInv

(* The thread has ended and can be joined. *)
LEMMA LoopExitsStep ==
  ASSUME EInv, LoopExits
  PROVE  EInv'
<1> USE NetSame
<1>1. loop.pc = "exit" /\ loop.s = NoSess /\ UNCHANGED <<net, ep, caller, closer>>
  BY Zenon DEF EInv, Making, AtStage, LoopExits
<1>2. loop' = [pc |-> "off", stage |-> 1, s |-> NoSess]
  BY Zenon DEF LoopExits, LoopOff
<1>3. Types'
  BY <1>1, <1>2, Zenon DEF EInv, Types
<1>4. Owned'
  BY <1>1, <1>2, Zenon DEF EInv, Owned
<1>5. Making'
  BY <1>2, Zenon DEF Making, AtStage
<1>6. Calling'
  BY <1>1, <1>2, Zenon DEF EInv, Calling
<1>7. OneReconnector' /\ OneSession'
  BY <1>1, <1>2, Zenon DEF EInv, OneReconnector, OneSession
<1>8. Closing'
  BY <1>1, <1>2, Zenon DEF EInv, Closing
<1> QED
  BY <1>3, <1>4, <1>5, <1>6, <1>7, <1>8, Zenon DEF EInv

-----------------------------------------------------------------------------
(* The steps that move sessions. *)

(* The zombies are freed: nothing points to them any more. *)
LEMMA OwnedZombiesFreed ==
  ASSUME NEW S, NEW h \in [S -> Memory], NEW cur, NEW zombies, NEW made,
         OwnedBy(S, h, cur, zombies, made)
  PROVE  OwnedBy(S, Marked(h, zombies, "freed"), cur, {}, made)
<1>1. \A s \in S : /\ s \in zombies => Marked(h, zombies, "freed")[s] = "freed"
                   /\ s \notin zombies => Marked(h, zombies, "freed")[s] = h[s]
  BY MarkedMemory DEF Memory
<1> QED
  BY <1>1, Zenon DEF OwnedBy

(* The list is freed, too. *)
LEMMA OwnedAllFreed ==
  ASSUME NEW S, NEW h \in [S -> Memory], NEW cur, NEW zombies, NEW made,
         OwnedBy(S, h, cur, zombies, made)
  PROVE  /\ Marked(Marked(h, cur, "freed"), zombies, "freed") \in [S -> Memory]
         /\ OwnedBy(S, Marked(Marked(h, cur, "freed"), zombies, "freed"), {}, {}, made)
<1> DEFINE g == Marked(h, cur, "freed")
<1>1. /\ g \in [S -> Memory]
      /\ \A s \in S : /\ s \in cur => g[s] = "freed"
                      /\ s \notin cur => g[s] = h[s]
  BY MarkedMemory DEF Memory
<1> HIDE DEF g
<1>2. /\ Marked(g, zombies, "freed") \in [S -> Memory]
      /\ \A s \in S : /\ s \in zombies => Marked(g, zombies, "freed")[s] = "freed"
                      /\ s \notin zombies => Marked(g, zombies, "freed")[s] = g[s]
  BY <1>1, MarkedMemory DEF Memory
<1>3. OwnedBy(S, Marked(g, zombies, "freed"), {}, {}, made)
  BY <1>1, <1>2, Zenon DEF OwnedBy
<1> QED
  BY <1>2, <1>3, Zenon DEF g

(* The session of a connector becomes its zombie, the older one is freed. *)
LEMMA OwnedRetired ==
  ASSUME NEW S, NEW h \in [S -> Memory], NEW cur, NEW zombies, NEW made,
         OwnedBy(S, h, cur, zombies, made)
  PROVE  LET g == Marked(Marked(h, cur, "stopped"), zombies, "freed")
         IN  /\ g \in [S -> Memory]
             /\ OwnedBy(S, g, {}, cur, made)
<1> DEFINE g == Marked(h, cur, "stopped")
<1>1. /\ g \in [S -> Memory]
      /\ \A s \in S : /\ s \in cur => g[s] = "stopped"
                      /\ s \notin cur => g[s] = h[s]
  BY MarkedMemory DEF Memory
<1> HIDE DEF g
<1>2. /\ Marked(g, zombies, "freed") \in [S -> Memory]
      /\ \A s \in S : /\ s \in zombies => Marked(g, zombies, "freed")[s] = "freed"
                      /\ s \notin zombies => Marked(g, zombies, "freed")[s] = g[s]
  BY <1>1, MarkedMemory DEF Memory
<1>3. OwnedBy(S, Marked(g, zombies, "freed"), {}, cur, made)
  BY <1>1, <1>2, Zenon DEF OwnedBy
<1> QED
  BY <1>2, <1>3, Zenon DEF g

(* Some sessions of a binder become zombies. *)
LEMMA OwnedSomeRetired ==
  ASSUME NEW S, NEW h \in [S -> Memory], NEW cur, NEW zombies, NEW made, NEW X \in SUBSET cur,
         OwnedBy(S, h, cur, zombies, made)
  PROVE  /\ Marked(h, X, "stopped") \in [S -> Memory]
         /\ OwnedBy(S, Marked(h, X, "stopped"), cur \ X, zombies \cup X, made)
<1>1. /\ Marked(h, X, "stopped") \in [S -> Memory]
      /\ \A s \in S : /\ s \in X => Marked(h, X, "stopped")[s] = "stopped"
                      /\ s \notin X => Marked(h, X, "stopped")[s] = h[s]
  BY MarkedMemory DEF Memory
<1>2. OwnedBy(S, Marked(h, X, "stopped"), cur \ X, zombies \cup X, made)
  BY <1>1, Zenon DEF OwnedBy
<1> QED
  BY <1>1, <1>2, Zenon

(* A thread that meets the loss of a connection only notes it. *)
LEMMA LossMet ==
  ASSUME Types, NEW S \in SUBSET Sessions, NEW t, MeetsLoss(S, t)
  PROVE  EpKept
<1>1. PICK s \in Sessions : ep' = [ep EXCEPT !.disc = ep.disc \cup {s}]
  BY Zenon DEF MeetsLoss, Types, EpRec
<1>2. ep.disc \cup {s} \in SUBSET Sessions
  BY Zenon DEF Types, EpRec
<1> QED
  BY <1>1, <1>2, Zenon DEF Types, EpRec, EpKept

(* The callback of a connector: its session becomes the zombie. *)
LEMMA ConnectorReports ==
  ASSUME EInv, CallerReports, Connecting
  PROVE  EInv'
<1> USE NetSame
<1>1. /\ caller \in [pc: {"report"}, s: Sessions] /\ caller.s # NoSess
      /\ ep.heap[caller.s] = "live" /\ closer = "idle" /\ ep.phase # "new"
  BY Zenon DEF EInv, Types, Calling, Closing, CallerReports
<1>2. caller.s \in ep.cur /\ ep.cur # {}
  BY <1>1, Zenon DEF EInv, Owned, OwnedBy
<1>3. ep.reconnecting = FALSE /\ loop.pc \in {"off", "exit"}
  BY <1>2, Zenon DEF EInv, OneSession, OneReconnector, Types, EpRec
<1>4. UNCHANGED <<net, loop, closer>> /\ Making'
  BY MakingKept, Zenon DEF EInv, CallerReports
<1>5. net.ivl \in Int
  BY NetsAssumption, Zenon DEF EInv, Types
<1>6. CASE ~ep.run
  <2>1. OnError(ep) = [ep EXCEPT !.spawn = FALSE]
    BY <1>6, ConnectorTable, Zenon DEF mb_cipc_on_disconnect, EInv, Types
  <2>2. [ep EXCEPT !.spawn = FALSE] = ep /\ ep.spawn = FALSE
    BY Zenon DEF EInv, Types, EpRec
  <2>3. ep' = ep /\ caller' = [caller EXCEPT !.pc = "unwind"]
    BY <2>1, <2>2, Zenon DEF CallerReports
  <2>4. EpKept
    BY <2>3, EpUntouched, Zenon DEF EInv
  <2> QED
    BY <1>1, <1>4, <2>3, <2>4, CallerMoves, Zenon
<1>7. CASE ep.run
  <2> DEFINE h == Marked(Marked(ep.heap, ep.cur, "stopped"), ep.zombies, "freed")
             j == net.ivl > 0
             w == [ep EXCEPT !.heap = h, !.cur = {}, !.zombies = ep.cur,
                             !.spawn = j /\ ~ep.reconnecting,
                             !.reconnecting = ep.reconnecting \/ j]
  <2>0. net \in Nets /\ ep \in EpRec(Sessions) /\ j \in BOOLEAN
    BY <1>5 DEF EInv, Types
  <2>1. OnError(ep) = w
    <3>1. mb_cipc_on_disconnect(ep, net.ivl) = w
      BY <1>2, <1>7, <2>0, OnDisconnectRecord, Zenon
    <3> HIDE DEF w
    <3> QED
      BY <2>0, <3>1, ConnectorTable, Zenon
  <2>2. h \in [Sessions -> Memory] /\ OwnedBy(Sessions, h, {}, ep.cur, loop.s)
    BY OwnedRetired, Zenon DEF EInv, Types, EpRec, Owned
  <2> HIDE DEF h, j
  <2>3. /\ w.spawn = j
        /\ [w EXCEPT !.spawn = FALSE] =
             [ep EXCEPT !.heap = h, !.cur = {}, !.zombies = ep.cur, !.spawn = FALSE,
                        !.reconnecting = j]
    BY <1>3, <2>0, Zenon DEF EInv, Types, EpRec
  <2>4. /\ ep' = [ep EXCEPT !.heap = h, !.cur = {}, !.zombies = ep.cur, !.spawn = FALSE,
                            !.reconnecting = j]
        /\ caller' = [caller EXCEPT !.pc = IF j THEN "join" ELSE "unwind"]
    <3> HIDE DEF w
    <3> QED
      BY <2>1, <2>3, Zenon DEF CallerReports
  <2>5. /\ ep' \in EpRec(Sessions) /\ ep'.spawn = FALSE /\ ep'.heap = h
        /\ ep'.cur = {} /\ ep'.zombies = ep.cur /\ ep'.reconnecting = j
        /\ ep'.phase = ep.phase
    BY <2>0, <2>2, <2>4, Zenon DEF EInv, Types, EpRec
  <2>6. Types'
    BY <1>1, <1>4, <2>4, <2>5, Zenon DEF EInv, Types
  <2>7. Owned'
    BY <1>4, <2>2, <2>5, Zenon DEF Owned
  <2>8. h[caller.s] = "stopped"
    BY <1>1, <1>2, <2>2, Zenon DEF OwnedBy
  <2>9. Calling'
    BY <1>1, <1>3, <1>4, <2>4, <2>5, <2>8, Zenon DEF Calling
  <2>10. OneReconnector' /\ OneSession'
    BY <1>1, <1>3, <1>4, <2>4, <2>5, Zenon DEF OneReconnector, OneSession
  <2>11. Closing'
    BY <1>1, <1>4, <2>5, Zenon DEF Closing
  <2> QED
    BY <1>4, <2>6, <2>7, <2>9, <2>10, <2>11, Zenon DEF EInv
<1> QED
  BY <1>6, <1>7, Zenon

(* The callback of a binder: the sessions that have failed become zombies. *)
LEMMA BinderReports ==
  ASSUME EInv, CallerReports, ~Connecting
  PROVE  EInv'
<1> USE NetSame
<1>1. /\ caller \in [pc: {"report"}, s: Sessions] /\ caller.s # NoSess
      /\ closer = "idle" /\ ep.phase # "new"
  BY Zenon DEF EInv, Types, Calling, Closing, CallerReports
<1>2. UNCHANGED <<net, loop, closer>> /\ Making'
  BY MakingKept, Zenon DEF EInv, CallerReports
<1>0. ASSUME MeetsLoss(ep.cur, "caller"), caller' = [caller EXCEPT !.pc = "stuck"]
      PROVE  EInv'
  <2>1. EpKept
    <3>1. ep.cur \in SUBSET Sessions
      BY Zenon DEF EInv, Types, EpRec
    <3> QED
      BY <1>0, <3>1, LossMet, Zenon DEF EInv
  <2>2. /\ caller' \in [pc: {"stuck"}, s: Sessions \cup {NoSess}]
        /\ caller'.pc = "stuck" /\ caller'.s # NoSess
    BY <1>0, <1>1, Zenon
  <2> QED
    BY <1>1, <1>2, <2>1, <2>2, CallerMoves, Zenon
<1> DEFINE X == ep.cur \cap ep.disc
           h == Marked(ep.heap, X, "stopped")
           w == [ep EXCEPT !.heap = h, !.cur = ep.cur \ X, !.zombies = ep.zombies \cup X]
<1>3. OnError(ep) = w
  BY BinderTable, OnSessionErrorRecord, Zenon DEF EInv, Types
<1>4. /\ h \in [Sessions -> Memory]
      /\ OwnedBy(Sessions, h, ep.cur \ X, ep.zombies \cup X, loop.s)
  <2>1. ep.heap \in [Sessions -> Memory] /\ X \in SUBSET ep.cur
    BY Zenon DEF EInv, Types, EpRec
  <2>2. OwnedBy(Sessions, ep.heap, ep.cur, ep.zombies, loop.s)
    BY Zenon DEF EInv, Owned
  <2> QED
    BY <2>1, <2>2, OwnedSomeRetired, Zenon
<1>5. X \in SUBSET Sessions
  BY Zenon DEF EInv, Types, EpRec
<1> HIDE DEF h, X
<1>6. w.spawn = FALSE /\ [w EXCEPT !.spawn = FALSE] = w
  BY Zenon DEF EInv, Types, EpRec
<1> SUFFICES ASSUME \E v \in {OnError(ep)} :
               /\ ep' = [v EXCEPT !.spawn = FALSE]
               /\ caller' = [caller EXCEPT !.pc = IF v.spawn THEN "join" ELSE "unwind"]
             PROVE  EInv'
  BY <1>0, Zenon DEF CallerReports
<1>7. ep' = w /\ caller' = [caller EXCEPT !.pc = "unwind"]
  <2> HIDE DEF w
  <2> QED
    BY <1>3, <1>6, Zenon
<1>8. /\ ep' \in EpRec(Sessions) /\ ep'.spawn = FALSE /\ ep'.heap = h
      /\ ep'.cur = ep.cur \ X /\ ep'.zombies = ep.zombies \cup X
      /\ ep'.phase = ep.phase
  BY <1>4, <1>5, <1>7, Zenon DEF EInv, Types, EpRec
<1>9. Types'
  BY <1>1, <1>2, <1>7, <1>8, Zenon DEF EInv, Types
<1>10. Owned'
  BY <1>2, <1>4, <1>8, Zenon DEF Owned
<1>11. Calling'
  BY <1>1, <1>7, Zenon DEF Calling
<1>12. OneReconnector' /\ OneSession'
  BY <1>2, Zenon DEF OneReconnector, OneSession
<1>13. Closing'
  BY <1>1, <1>2, <1>8, Zenon DEF Closing
<1> QED
  BY <1>2, <1>9, <1>10, <1>11, <1>12, <1>13, Zenon DEF EInv

(* The thread starts, or takes another turn: the zombies are freed. *)
LEMMA LoopStartsStep ==
  ASSUME EInv, LoopStarts
  PROVE  EInv'
<1> USE NetSame
<1>1. /\ loop.pc = "start" /\ loop.s = NoSess /\ ep.phase # "new"
      /\ ~(closer \in {"done", "gone"} \/ (~Connecting /\ closer = "lock"))
      /\ caller.pc \notin {"join", "nospawn"}
  BY Zenon DEF EInv, Making, AtStage, Closing, Calling, LoopStarts
<1>2. UNCHANGED <<net, caller, closer>>
  BY Zenon DEF LoopStarts
<1>3. 1 \in DOMAIN Stages /\ Stages[1] # "publish"
  BY StagesShape, Zenon DEF EInv, Types
<1>4. CASE ~(Connecting \/ ep.run)
  <2>1. ep' = ep /\ loop' = [loop EXCEPT !.pc = "exit"]
    BY <1>4, Zenon DEF LoopStarts
  <2>2. loop' \in [pc: {"exit"}, stage: Nat, s: {NoSess}]
    BY <1>1, <2>1, Zenon DEF EInv, Types
  <2>3. Types'
    BY <1>2, <2>1, <2>2, Zenon DEF EInv, Types
  <2>4. Owned'
    BY <1>1, <1>2, <2>1, <2>2, Zenon DEF EInv, Owned
  <2>5. Making'
    BY <2>2, Zenon DEF Making, AtStage
  <2>6. Calling'
    BY <1>1, <1>2, <2>1, <2>2, Zenon DEF EInv, Calling
  <2>7. OneReconnector' /\ OneSession'
    BY <1>2, <1>4, Zenon DEF OneReconnector, OneSession
  <2>8. Closing'
    BY <1>1, <1>2, <2>1, Zenon DEF EInv, Closing
  <2> QED
    BY <2>3, <2>4, <2>5, <2>6, <2>7, <2>8, Zenon DEF EInv
<1>5. CASE Connecting \/ ep.run
  <2> DEFINE h == Marked(ep.heap, ep.zombies, "freed")
             i == mb_reconnect_cap_ivl(net.ivl, net.ivl_max)
  <2>1. FreeZombies(ep) = [ep EXCEPT !.heap = h, !.zombies = {}]
    <3>1. net \in Nets /\ ep \in EpRec(Sessions)
      BY Zenon DEF EInv, Types
    <3>2. mb_cipc_free_zombie(ep) = [ep EXCEPT !.heap = h, !.zombies = {}]
      BY <3>1, FreeZombiesRecord, Zenon
    <3>3. FreeZombies(ep) = mb_cipc_free_zombie(ep)
      BY <3>1, ConnectorTable, BinderTable, Zenon
    <3> QED
      BY <3>2, <3>3, Zenon
  <2>2. i \in Int
    BY NetsAssumption, Zenon DEF mb_reconnect_cap_ivl, EInv, Types
  <2>3. h \in [Sessions -> Memory] /\ OwnedBy(Sessions, h, ep.cur, {}, loop.s)
    BY MarkedMemory, OwnedZombiesFreed, Zenon DEF EInv, Types, EpRec, Owned, Memory
  <2>4. \A s \in Sessions : ep.heap[s] = "live" => h[s] = "live"
    BY <2>3, Zenon DEF EInv, Owned, OwnedBy
  <2> HIDE DEF h, i
  <2>5. /\ ep' = [[ep EXCEPT !.heap = h, !.zombies = {}] EXCEPT !.ivl = i]
        /\ loop' = [loop EXCEPT !.pc = IF ep.run THEN "work" ELSE "final", !.stage = 1]
    BY <1>5, <2>1, Zenon DEF LoopStarts, i
  <2>6. /\ ep' \in EpRec(Sessions) /\ ep'.spawn = FALSE /\ ep'.heap = h
        /\ ep'.cur = ep.cur /\ ep'.zombies = {} /\ ep'.reconnecting = ep.reconnecting
        /\ ep'.phase = ep.phase /\ ep'.run = ep.run
    BY <2>2, <2>3, <2>5, Zenon DEF EInv, Types, EpRec
  <2>7. /\ loop' \in [pc: {"work", "final"}, stage: Nat, s: {NoSess}]
        /\ loop'.stage = 1
    BY <1>1, <2>5, Zenon DEF EInv, Types
  <2>8. Types'
    BY <1>2, <2>6, <2>7, Zenon DEF EInv, Types
  <2>9. Owned'
    BY <1>1, <1>2, <2>3, <2>6, <2>7, Zenon DEF Owned
  <2>10. Making'
    BY <1>2, <1>3, <2>7, Zenon DEF Making, AtStage
  <2>11. Calling'
    <3>1. caller.pc \in {"in", "report"} => caller.s \in Sessions
      BY Zenon DEF EInv, Types, Calling
    <3> QED
      BY <1>1, <1>2, <2>4, <2>6, <3>1, Zenon DEF EInv, Calling
  <2>12. OneReconnector'
    BY <1>1, <1>2, <2>6, <2>7, Zenon DEF EInv, OneReconnector
  <2>13. OneSession'
    BY <1>2, <2>6, Zenon DEF EInv, OneSession
  <2>14. Closing'
    BY <1>1, <1>2, <2>6, Zenon DEF EInv, Closing
  <2> QED
    BY <2>8, <2>9, <2>10, <2>11, <2>12, <2>13, <2>14, Zenon DEF EInv
<1> QED
  BY <1>4, <1>5, Zenon

(* The thread creates a session. *)
LEMMA LoopAllocatesStep ==
  ASSUME EInv, LoopAllocates
  PROVE  EInv'
<1> USE NetSame
<1>1. /\ loop.pc = "work" /\ Stages[loop.stage] = "alloc" /\ loop.s = NoSess
      /\ loop.stage \in DOMAIN Stages /\ net \in Nets /\ ep.phase # "new"
      /\ ~(closer \in {"done", "gone"} \/ (~Connecting /\ closer = "lock"))
      /\ caller.pc \notin {"join", "nospawn"}
  BY Zenon DEF EInv, Types, Making, AtStage, Closing, Calling, LoopAllocates
<1>2. UNCHANGED <<net, caller, closer>>
  BY Zenon DEF LoopAllocates
<1>3. CASE loop' = LoopFails /\ ep' = ep
  <2>1. EpKept
    BY <1>3, EpUntouched, Zenon DEF EInv
  <2> QED
    BY <1>1, <1>2, <1>3, <2>1, FailsLegal, LoopMoves, Zenon
<1>4. ASSUME NEW s \in Unused,
             ep' = [ep EXCEPT !.heap[s] = "fresh", !.disc = @ \ {s}],
             loop' = [NextStage EXCEPT !.s = s]
      PROVE  EInv'
  <2>1. s \in Sessions /\ s # NoSess /\ ep.heap[s] \in {"none", "freed"} /\ s # caller.s
    BY <1>1, FirstSession, Zenon DEF Unused
  <2>2. /\ ep' \in EpRec(Sessions) /\ ep'.spawn = FALSE
        /\ ep'.heap = [ep.heap EXCEPT ![s] = "fresh"]
        /\ ep'.cur = ep.cur /\ ep'.zombies = ep.zombies
        /\ ep'.reconnecting = ep.reconnecting /\ ep'.phase = ep.phase /\ ep'.run = ep.run
    BY <1>4, <2>1, Zenon DEF EInv, Types, EpRec, Memory
  <2>3. /\ loop.stage \in Nat /\ loop.stage + 1 \in DOMAIN Stages
        /\ Stages[loop.stage + 1] = "publish"
    BY <1>1, StagesShape, Zenon
  <2>4. loop' = [pc |-> "work", stage |-> loop.stage + 1, s |-> s]
    BY <1>1, <1>4, Zenon DEF EInv, Types, NextStage
  <2>5. Types'
    BY <1>2, <2>1, <2>2, <2>3, <2>4 DEF EInv, Types
  <2>6. Owned'
    <3>1. \A t \in Sessions : ep'.heap[t] = IF t = s THEN "fresh" ELSE ep.heap[t]
      BY <2>1, <2>2, Zenon DEF EInv, Types, EpRec
    <3>2. OwnedBy(Sessions, ep.heap, ep.cur, ep.zombies, NoSess)
      BY <1>1, Zenon DEF EInv, Owned
    <3>3. OwnedBy(Sessions, ep'.heap, ep.cur, ep.zombies, s)
      BY <1>1, <2>1, <3>1, <3>2, FirstSession, Zenon DEF OwnedBy
    <3> QED
      BY <1>2, <2>2, <2>4, <3>3, Zenon DEF Owned
  <2>7. Making'
    BY <1>2, <2>1, <2>3, <2>4, Zenon DEF Making, AtStage
  <2>8. Calling'
    <3>1. caller.pc \in {"in", "report"} => ep'.heap[caller.s] = "live"
      BY <2>1, <2>2, Zenon DEF EInv, Types, EpRec, Calling
    <3> QED
      BY <1>1, <1>2, <3>1, Zenon DEF EInv, Calling
  <2>9. OneReconnector' /\ OneSession'
    BY <1>1, <1>2, <2>2, <2>4, Zenon DEF EInv, OneReconnector, OneSession
  <2>10. Closing'
    BY <1>1, <1>2, <2>2, Zenon DEF EInv, Closing
  <2> QED
    BY <2>5, <2>6, <2>7, <2>8, <2>9, <2>10, Zenon DEF EInv
<1> QED
  BY <1>3, <1>4, Zenon DEF LoopAllocates

(* The session the loop has made is freed, and the loop goes elsewhere: it *)
(* ends with the flag cleared, or goes on with it.                         *)
LEMMA SessionDropped ==
  ASSUME EInv, loop.pc = "work", loop.s # NoSess, UNCHANGED <<net, caller, closer>>,
         NEW fl \in BOOLEAN, ep' = [Freed(ep, {loop.s}) EXCEPT !.reconnecting = fl],
         loop' \in [pc: {"start", "sleep", "final", "exit"}, stage: Nat, s: {NoSess}],
         Connecting => fl = (loop'.pc # "exit"),
         fl => ep.reconnecting
  PROVE  EInv'
<1> USE NetSame
<1>1. /\ loop.s \in Sessions /\ ep.phase # "new" /\ NoSess \notin Sessions
      /\ ~(closer \in {"done", "gone"} \/ (~Connecting /\ closer = "lock"))
      /\ caller.pc \notin {"join", "nospawn"}
  BY FirstSession, Zenon DEF EInv, Types, Closing, Calling
<1> DEFINE h == Marked(ep.heap, {loop.s}, "freed")
<1>2. /\ h \in [Sessions -> Memory]
      /\ \A t \in Sessions : h[t] = IF t = loop.s THEN "freed" ELSE ep.heap[t]
  BY MarkedMemory DEF EInv, Types, EpRec, Memory
<1>3. Freed(ep, {loop.s}) = [ep EXCEPT !.heap = h]
  BY Zenon DEF Freed, Marked
<1> HIDE DEF h
<1>4. /\ ep' \in EpRec(Sessions) /\ ep'.spawn = FALSE /\ ep'.heap = h
      /\ ep'.cur = ep.cur /\ ep'.zombies = ep.zombies
      /\ ep'.reconnecting = fl /\ ep'.phase = ep.phase /\ ep'.run = ep.run
  BY <1>2, <1>3, Zenon DEF EInv, Types, EpRec
<1>5. Types'
  BY <1>4, Zenon DEF EInv, Types
<1>6. Owned'
  <2>1. OwnedBy(Sessions, h, ep.cur, ep.zombies, NoSess)
    BY <1>1, <1>2 DEF EInv, Owned, OwnedBy
  <2> QED
    BY <1>4, <2>1, Zenon DEF Owned
<1>7. Making'
  BY Zenon DEF Making, AtStage
<1>8. Calling'
  <2>1. caller.pc \in {"in", "report"} => h[caller.s] = "live"
    BY <1>1, <1>2, Zenon DEF EInv, Types, Calling, Owned, OwnedBy
  <2> QED
    BY <1>1, <1>4, <2>1, Zenon DEF EInv, Calling
<1>9. OneReconnector'
  BY <1>1, <1>4, Zenon DEF OneReconnector
<1>10. OneSession'
  BY <1>4, Zenon DEF EInv, OneSession
<1>11. Closing'
  BY <1>1, <1>4, Zenon DEF EInv, Closing
<1> QED
  BY <1>5, <1>6, <1>7, <1>8, <1>9, <1>10, <1>11, Zenon DEF EInv

(* The session enters the socket, is dropped, or the thread gets stuck. *)
LEMMA LoopPublishesStep ==
  ASSUME EInv, LoopPublishes
  PROVE  EInv'
<1> USE NetSame
<1>1. /\ loop.pc = "work" /\ loop.s # NoSess /\ loop.s \in Sessions
      /\ ep.heap[loop.s] = "fresh" /\ net \in Nets /\ ep.phase # "new"
      /\ ~(closer \in {"done", "gone"} \/ (~Connecting /\ closer = "lock"))
      /\ caller.pc \notin {"join", "nospawn"}
      /\ Connecting => ep.reconnecting = TRUE
  <2>1. loop.pc = "work" /\ loop.s # NoSess
    BY Zenon DEF EInv, Making, AtStage, LoopPublishes
  <2>2. loop.s \in Sessions /\ net \in Nets /\ ep.reconnecting \in BOOLEAN
    BY <2>1, Zenon DEF EInv, Types, EpRec
  <2>3. ep.heap[loop.s] = "fresh"
    BY <2>2, Zenon DEF EInv, Owned, OwnedBy
  <2>4. /\ ep.phase # "new"
        /\ ~(closer \in {"done", "gone"} \/ (~Connecting /\ closer = "lock"))
        /\ caller.pc \notin {"join", "nospawn"}
    BY <2>1, Zenon DEF EInv, Closing, Calling
  <2>5. Connecting => ep.reconnecting = TRUE
    BY <2>1, <2>2, Zenon DEF EInv, OneReconnector
  <2> QED
    BY <2>1, <2>2, <2>3, <2>4, <2>5, Zenon
<1>2. UNCHANGED <<net, caller, closer>>
  BY Zenon DEF LoopPublishes
<1>3. ASSUME Connecting, ep' = [Freed(ep, {loop.s}) EXCEPT !.reconnecting = FALSE],
             loop' = [LoopOff EXCEPT !.pc = "exit"]
      PROVE  EInv'
  <2>1. loop' = [pc |-> "exit", stage |-> 1, s |-> NoSess]
    BY <1>3, FailsLegal, Zenon
  <2>2. /\ loop' \in [pc: {"start", "sleep", "final", "exit"}, stage: Nat, s: {NoSess}]
        /\ FALSE \in BOOLEAN /\ FALSE = (loop'.pc # "exit")
    BY <2>1, Zenon
  <2> QED
    BY <1>1, <1>2, <1>3, <2>2, SessionDropped, Zenon
<1>4. ASSUME Connecting => ep.run,
             ep' = [ep EXCEPT !.cur = @ \cup {loop.s}, !.heap[loop.s] = "live",
                              !.reconnecting = FALSE],
             loop' = [LoopOff EXCEPT !.pc = IF Connecting THEN "exit" ELSE "start"]
      PROVE  EInv'
  <2>1. /\ ep' \in EpRec(Sessions) /\ ep'.spawn = FALSE
        /\ ep'.heap = [ep.heap EXCEPT ![loop.s] = "live"]
        /\ ep'.cur = ep.cur \cup {loop.s} /\ ep'.zombies = ep.zombies
        /\ ep'.reconnecting = FALSE /\ ep'.phase = ep.phase /\ ep'.run = ep.run
    BY <1>1, <1>4, Zenon DEF EInv, Types, EpRec, Memory
  <2>2. loop' = [pc |-> IF Connecting THEN "exit" ELSE "start", stage |-> 1, s |-> NoSess]
    BY <1>4, FailsLegal, Zenon
  <2>3. Types'
    BY <1>2, <2>1, <2>2, Zenon DEF EInv, Types
  <2>4. \A t \in Sessions : ep'.heap[t] = IF t = loop.s THEN "live" ELSE ep.heap[t]
    BY <1>1, <2>1 DEF EInv, Types, EpRec
  <2>5. Owned'
    <3>1. OwnedBy(Sessions, ep'.heap, ep.cur \cup {loop.s}, ep.zombies, NoSess)
      BY <1>1, <2>4, FirstSession, Zenon DEF EInv, Owned, OwnedBy
    <3> QED
      BY <1>2, <2>1, <2>2, <3>1, Zenon DEF Owned
  <2>6. Making'
    BY <2>2, Zenon DEF Making, AtStage
  <2>7. Calling'
    <3>1. caller.pc \in {"in", "report"} => ep'.heap[caller.s] = "live"
      BY <1>1, <2>4, Zenon DEF EInv, Types, Calling
    <3> QED
      BY <1>1, <1>2, <3>1, Zenon DEF EInv, Calling
  <2>8. OneReconnector'
    BY <1>1, <1>2, <2>1, <2>2, Zenon DEF OneReconnector
  <2>9. OneSession'
    BY <1>1, <1>2, <2>1, Zenon DEF EInv, OneSession
  <2>10. Closing'
    BY <1>1, <1>2, <1>4, <2>1, Zenon DEF EInv, Closing
  <2> QED
    BY <2>3, <2>5, <2>6, <2>7, <2>8, <2>9, <2>10, Zenon DEF EInv
<1>5. ASSUME ep' = Freed(ep, {loop.s}),
             \/ loop' = LoopFails
             \/ Connecting /\ loop' = [LoopOff EXCEPT !.pc = "final"]
      PROVE  EInv'
  <2>1. /\ ep.reconnecting \in BOOLEAN
        /\ Freed(ep, {loop.s}) = [Freed(ep, {loop.s}) EXCEPT !.reconnecting = ep.reconnecting]
    BY Zenon DEF Freed, EInv, Types, EpRec
  <2>2. /\ loop' \in [pc: {"start", "sleep", "final", "exit"}, stage: Nat, s: {NoSess}]
        /\ loop'.pc # "exit"
    <3>1. \/ loop' = LoopFails
          \/ loop' = [pc |-> "final", stage |-> 1, s |-> NoSess]
      BY <1>5, FailsLegal, Zenon
    <3>2. LoopFails \in [pc: {"start", "sleep"}, stage: Nat, s: {NoSess}]
      BY FailsLegal, Zenon
    <3> QED
      BY <3>1, <3>2
  <2>3. ep' = [Freed(ep, {loop.s}) EXCEPT !.reconnecting = ep.reconnecting]
    BY <1>5, <2>1, Zenon
  <2>4. Connecting => ep.reconnecting = (loop'.pc # "exit")
    BY <1>1, <2>2, Zenon
  <2> QED
    BY <1>1, <1>2, <2>1, <2>2, <2>3, <2>4, SessionDropped, Zenon
<1>6. ASSUME MeetsLoss(ep.cur \cup {loop.s}, "loop"), loop' = [loop EXCEPT !.pc = "stuck"]
      PROVE  EInv'
  <2>1. ep.cur \cup {loop.s} \in SUBSET Sessions
    BY <1>1, Zenon DEF EInv, Types, EpRec
  <2>2. EpKept
    BY <1>6, <2>1, LossMet, Zenon DEF EInv
  <2>3. loop' = [pc |-> "stuck", stage |-> loop.stage, s |-> loop.s] /\ loop.stage \in Nat
    BY <1>6, Zenon DEF EInv, Types
  <2>4. Types'
    BY <1>1, <1>2, <2>2, <2>3, Zenon DEF EInv, Types, EpKept
  <2>5. Owned'
    BY <1>2, <2>2, <2>3, OwnedKept, Zenon DEF EInv
  <2>6. Making'
    BY <1>1, <2>3, Zenon DEF Making, AtStage
  <2>7. Calling'
    BY <1>1, <1>2, <2>2, <2>3, Zenon DEF EInv, Calling, EpKept
  <2>8. OneReconnector' /\ OneSession'
    BY <1>1, <1>2, <2>2, <2>3, Zenon DEF EInv, OneReconnector, OneSession, EpKept
  <2>9. Closing'
    BY <1>1, <1>2, <2>2, Zenon DEF EInv, Closing, EpKept
  <2> QED
    BY <2>4, <2>5, <2>6, <2>7, <2>8, <2>9, Zenon DEF EInv
<1> QED
  BY <1>3, <1>4, <1>5, <1>6, Zenon DEF LoopPublishes

-----------------------------------------------------------------------------
(* The steps of the closer, and the creation. *)

(* The closer begins: a binder is told to stop. *)
LEMMA CloseBeginsStep ==
  ASSUME EInv, CloseBegins
  PROVE  EInv'
<1> USE NetSame
<1>1. UNCHANGED <<net, caller, loop>> /\ caller.pc = "idle" /\ closer = "idle" /\ ep.phase = "up"
  BY Zenon DEF CloseBegins
<1>2. closer' = IF Connecting THEN "lock" ELSE "join"
  BY Zenon DEF CloseBegins
<1>3. /\ ep' \in EpRec(Sessions) /\ ep'.spawn = FALSE /\ ep'.heap = ep.heap
      /\ ep'.cur = ep.cur /\ ep'.zombies = ep.zombies
      /\ ep'.reconnecting = ep.reconnecting /\ ep'.phase = ep.phase
  <2>1. \E b \in BOOLEAN : ep' = [ep EXCEPT !.run = b]
    BY Zenon DEF CloseBegins, EInv, Types, EpRec
  <2> QED
    BY <2>1 DEF EInv, Types, EpRec
<1>4. Types'
  BY <1>1, <1>2, <1>3, Zenon DEF EInv, Types
<1>5. Owned' /\ Making'
  BY <1>1, <1>3, MakingKept, Zenon DEF EInv, Owned
<1>6. Calling'
  BY <1>1, <1>3, Zenon DEF EInv, Calling
<1>7. OneReconnector' /\ OneSession'
  BY <1>1, <1>3, Zenon DEF EInv, OneReconnector, OneSession
<1>8. Closing'
  BY <1>1, <1>2, <1>3, Zenon DEF EInv, Closing
<1> QED
  BY <1>4, <1>5, <1>6, <1>7, <1>8, Zenon DEF EInv

(* The closer frees what the endpoint has. *)
LEMMA CloseFreesStep ==
  ASSUME EInv, CloseFrees
  PROVE  EInv'
<1> USE NetSame
<1>1. /\ UNCHANGED <<net, caller, loop>> /\ caller.pc = "idle" /\ closer = "lock"
      /\ ep.phase # "new" /\ (~Connecting => loop.pc = "off")
  BY Zenon DEF EInv, Closing, CloseFrees
<1>0. ASSUME NEW t \in ep.cur, MeetsLoss(ep.cur \ {t}, "closer"), closer' = "stuck"
      PROVE  EInv'
  <2>1. EpKept
    <3>1. ep.cur \ {t} \in SUBSET Sessions
      BY Zenon DEF EInv, Types, EpRec
    <3> QED
      BY <1>0, <3>1, LossMet, Zenon DEF EInv
  <2>2. Types'
    BY <1>0, <1>1, <2>1, Zenon DEF EInv, Types, EpKept
  <2>3. Owned' /\ Making'
    BY <1>1, <2>1, OwnedKept, MakingKept, Zenon DEF EInv
  <2>4. Calling' /\ OneReconnector' /\ OneSession'
    BY <1>1, <2>1, Zenon DEF EInv, EpKept, Calling, OneReconnector, OneSession
  <2>5. Closing'
    BY <1>0, <1>1, <2>1, Zenon DEF EInv, EpKept, Closing
  <2> QED
    BY <2>2, <2>3, <2>4, <2>5, Zenon DEF EInv
<1> SUFFICES ASSUME ep' = StopUnderLock(ep), closer' = IF Connecting THEN "join" ELSE "done"
             PROVE  EInv'
  BY <1>0, Zenon DEF CloseFrees
<1>2. closer' = IF Connecting THEN "join" ELSE "done"
  OBVIOUS
<1> DEFINE h == Marked(Marked(ep.heap, ep.cur, "freed"), ep.zombies, "freed")
           v == [ep EXCEPT !.heap = h, !.cur = {}, !.zombies = {}, !.run = FALSE]
           u == [ep EXCEPT !.heap = h, !.cur = {}, !.zombies = {}]
<1>3. net \in Nets /\ ep \in EpRec(Sessions)
  BY Zenon DEF EInv, Types
<1>4. Connecting => ep' = v
  <2>1. mb_cipc_stop(ep) = v
    BY <1>3, ConnectorStopRecord, Zenon
  <2> HIDE DEF v
  <2> QED
    BY <1>3, <2>1, ConnectorTable, Zenon
<1>5. ~Connecting => ep' = u
  <2>1. mb_bipc_stop(ep) = u
    BY <1>3, BinderStopRecord, Zenon
  <2> HIDE DEF u
  <2> QED
    BY <1>3, <2>1, BinderTable, Zenon
<1>6. h \in [Sessions -> Memory] /\ OwnedBy(Sessions, h, {}, {}, loop.s)
  <2>1. ep.heap \in [Sessions -> Memory]
    BY <1>3, Zenon DEF EpRec
  <2>2. OwnedBy(Sessions, ep.heap, ep.cur, ep.zombies, loop.s)
    BY Zenon DEF EInv, Owned
  <2> QED
    BY <2>1, <2>2, OwnedAllFreed, Zenon
<1> HIDE DEF h
<1>7. /\ ep' \in EpRec(Sessions) /\ ep'.spawn = FALSE /\ ep'.heap = h
      /\ ep'.cur = {} /\ ep'.zombies = {}
      /\ ep'.reconnecting = ep.reconnecting /\ ep'.phase = ep.phase
      /\ Connecting => ep'.run = FALSE
  <2>1. CASE Connecting
    <3>1. ep' = v
      BY <1>4, <2>1, Zenon
    <3> QED
      BY <1>3, <1>6, <3>1, Zenon DEF EInv, Types, EpRec
  <2>2. CASE ~Connecting
    <3>1. ep' = u
      BY <1>5, <2>2, Zenon
    <3> QED
      BY <1>3, <1>6, <2>2, <3>1, Zenon DEF EInv, Types, EpRec
  <2> QED
    BY <2>1, <2>2, Zenon
<1>8. Types'
  BY <1>1, <1>2, <1>7, Zenon DEF EInv, Types
<1>9. Owned' /\ Making'
  BY <1>1, <1>6, <1>7, MakingKept, Zenon DEF EInv, Owned
<1>10. Calling'
  BY <1>1, Zenon DEF EInv, Calling
<1>11. OneReconnector' /\ OneSession'
  BY <1>1, <1>7, Zenon DEF EInv, OneReconnector, OneSession
<1>12. Closing'
  BY <1>1, <1>2, <1>7, Zenon DEF EInv, Closing
<1> QED
  BY <1>8, <1>9, <1>10, <1>11, <1>12, Zenon DEF EInv

(* The closer has joined the thread. *)
LEMMA CloseJoinsStep ==
  ASSUME EInv, CloseJoins
  PROVE  EInv'
<1> USE NetSame
<1>1. UNCHANGED <<net, ep, caller, loop>> /\ closer = "join" /\ loop.pc = "off"
  BY Zenon DEF CloseJoins
<1>2. closer' = IF Connecting THEN "done" ELSE "lock"
  BY Zenon DEF CloseJoins
<1>3. EpKept
  BY <1>1, EpUntouched, Zenon DEF EInv
<1>4. Types'
  BY <1>1, <1>2, Zenon DEF EInv, Types
<1>5. Owned' /\ Making'
  BY <1>1, <1>3, OwnedKept, MakingKept, Zenon DEF EInv
<1>6. Calling' /\ OneReconnector' /\ OneSession'
  BY <1>1, Zenon DEF EInv, Calling, OneReconnector, OneSession
<1>7. Closing'
  BY <1>1, <1>2, Zenon DEF EInv, Closing
<1> QED
  BY <1>4, <1>5, <1>6, <1>7, Zenon DEF EInv

(* Nothing is left to free when the endpoint is destroyed. *)
LEMMA CloseDestroysStep ==
  ASSUME EInv, CloseDestroys
  PROVE  EInv'
<1> USE NetSame
<1>1. /\ UNCHANGED <<net, caller, loop>> /\ closer = "done" /\ closer' = "gone"
      /\ loop.pc = "off" /\ caller.pc = "idle" /\ ep.cur = {} /\ ep.zombies = {}
      /\ Connecting => ep.run = FALSE
  BY Zenon DEF EInv, Types, EpRec, Closing, CloseDestroys
<1>2. net \in Nets /\ ep \in EpRec(Sessions) /\ ep.spawn = FALSE
  BY Zenon DEF EInv, Types
<1>3. Marked(Marked(ep.heap, ep.cur, "freed"), ep.zombies, "freed") = ep.heap
  BY <1>1, <1>2, Zenon DEF Marked, EpRec
<1>4. \A w \in EpRec(Sessions) :
        /\ w.cur = {} /\ w.zombies = {} /\ w.heap = ep.heap => mb_bipc_stop(w) = w
  <2> SUFFICES ASSUME NEW w \in EpRec(Sessions), w.cur = {}, w.zombies = {}, w.heap = ep.heap
               PROVE  mb_bipc_stop(w) = w
    BY Zenon
  <2>1. Marked(Marked(w.heap, w.cur, "freed"), w.zombies, "freed") = w.heap
    BY <1>1, <1>3, Zenon
  <2>2. mb_bipc_stop(w) =
          [w EXCEPT !.heap = Marked(Marked(w.heap, w.cur, "freed"), w.zombies, "freed"),
                    !.cur = {}, !.zombies = {}]
    BY BinderStopRecord, Zenon
  <2>3. mb_bipc_stop(w) = [w EXCEPT !.heap = w.heap, !.cur = w.cur, !.zombies = w.zombies]
    BY <2>1, <2>2, Zenon
  <2>4. [w EXCEPT !.heap = w.heap, !.cur = w.cur, !.zombies = w.zombies] = w
    BY Zenon DEF EpRec
  <2> QED
    BY <2>3, <2>4, Zenon
<1> DEFINE d == [ep EXCEPT !.run = FALSE]
<1>5. d \in EpRec(Sessions) /\ d.cur = {} /\ d.zombies = {} /\ d.heap = ep.heap
  BY <1>1, <1>2, Zenon DEF EpRec
<1>6. DestroyEndpoint(ep) \in {ep, d}
  <2>1. CASE Connecting
    <3>1. mb_cipc_destroy(ep) = mb_bipc_stop(ep)
      BY Zenon DEF mb_cipc_destroy, mb_bipc_stop, mb_cipc_free_zombie, mb_bipc_free_zombies
    <3>2. mb_bipc_stop(ep) = ep
      BY <1>1, <1>2, <1>4, Zenon
    <3>3. DestroyEndpoint(ep) = mb_cipc_destroy(ep)
      BY <1>2, <2>1, ConnectorTable, Zenon
    <3> HIDE DEF d
    <3> QED
      BY <3>1, <3>2, <3>3, Zenon
  <2>2. CASE ~Connecting
    <3>1. mb_bipc_stop(d) = d
      <4> HIDE DEF d
      <4> QED
        BY <1>4, <1>5, Zenon
    <3>2. DestroyEndpoint(ep) \in {ep, mb_bipc_stop(d)}
      BY <1>2, <2>2, BinderTable, Zenon
    <3> HIDE DEF d
    <3> QED
      BY <3>1, <3>2, Zenon
  <2> QED
    BY <2>1, <2>2, Zenon
<1>7. /\ ep' \in EpRec(Sessions) /\ ep'.spawn = FALSE /\ ep'.heap = ep.heap
      /\ ep'.cur = {} /\ ep'.zombies = {}
      /\ ep'.reconnecting = ep.reconnecting /\ ep'.phase = "gone"
      /\ Connecting => ep'.run = FALSE
  <2>1. ep' = [ep EXCEPT !.phase = "gone"] \/ ep' = [d EXCEPT !.phase = "gone"]
    <3> HIDE DEF d
    <3> QED
      BY <1>6, Zenon DEF CloseDestroys
  <2> QED
    BY <1>1, <1>2, <1>5, <2>1, Zenon DEF EpRec
<1>8. Types'
  BY <1>1, <1>7, Zenon DEF EInv, Types
<1>9. Owned' /\ Making'
  BY <1>1, <1>7, MakingKept, Zenon DEF EInv, Owned
<1>10. Calling'
  BY <1>1, Zenon DEF EInv, Calling
<1>11. OneReconnector' /\ OneSession'
  BY <1>1, <1>7, Zenon DEF EInv, OneReconnector, OneSession
<1>12. Closing'
  BY <1>1, <1>7, Zenon DEF Closing
<1> QED
  BY <1>8, <1>9, <1>10, <1>11, <1>12, Zenon DEF EInv

(* What every creation amounts to, whatever its outcome: x says whether a  *)
(* thread is started, C is the session of a connector that has connected.  *)
Creates(x, C) ==
  /\ ep' \in EpRec(Sessions) /\ ep'.spawn = FALSE /\ ep'.phase \in {"up", "failed"}
  /\ ep'.cur = C /\ ep'.zombies = {}
  /\ Connecting => ep'.reconnecting = x
  /\ \A s \in Sessions : ep'.heap[s] = IF s \in C THEN "live" ELSE ep.heap[s]
  /\ loop' = IF x THEN Started ELSE loop

(* A connector is created. *)
LEMMA ConnectorCreates ==
  ASSUME EInv, CreateEndpoint, Connecting
  PROVE  \E x \in BOOLEAN : Creates(x, {}) \/ (x = FALSE /\ Creates(x, {1}))
<1>1. PICK r \in {"ok", "fail", "reject"}, started \in BOOLEAN :
        /\ ep' = [Create(ep, r, 1, started) EXCEPT !.spawn = FALSE]
        /\ loop' = IF Create(ep, r, 1, started).spawn THEN Started ELSE loop
  BY Zenon DEF CreateEndpoint
<1>2. net \in Nets /\ ep \in EpRec(Sessions) /\ ep.spawn = FALSE /\ net.ivl \in Int
  BY NetsAssumption, Zenon DEF EInv, Types
<1>3. ep.cur = {} /\ ep.zombies = {} /\ 1 \in Sessions
  BY <1>2, FirstSession, Zenon DEF EInv, Closing, CreateEndpoint
<1> DEFINE w == mb_cipc_create(ep, r, 1, net.ivl, started)
           x == r = "fail" /\ net.ivl > 0 /\ started
<1>4. Create(ep, r, 1, started) = w
  BY <1>2, ConnectorTable, Zenon
<1>5. ep' = [w EXCEPT !.spawn = FALSE] /\ loop' = IF w.spawn THEN Started ELSE loop
  <2> HIDE DEF w
  <2> QED
    BY <1>1, <1>4, Zenon
<1>6. CASE r = "ok"
  <2>1. w = [[ep EXCEPT !.cur = {1}, !.heap[1] = "live"] EXCEPT
               !.phase = "up", !.spawn = FALSE, !.reconnecting = FALSE, !.run = TRUE]
    BY <1>6, Zenon DEF mb_cipc_create, mb_cipc_do_connect, Created
  <2>2. /\ ep' \in EpRec(Sessions) /\ ep'.spawn = FALSE /\ ep'.phase = "up"
        /\ ep'.cur = {1} /\ ep'.zombies = {} /\ ep'.reconnecting = FALSE
        /\ ep'.heap = [ep.heap EXCEPT ![1] = "live"] /\ w.spawn = FALSE
    <3> DEFINE g == [ep.heap EXCEPT ![1] = "live"]
    <3>1. g \in [Sessions -> Memory]
      BY <1>2, <1>3, Zenon DEF EpRec, Memory
    <3>2. w = [ep EXCEPT !.cur = {1}, !.heap = g, !.phase = "up", !.spawn = FALSE,
                         !.reconnecting = FALSE, !.run = TRUE]
      BY <1>2, <2>1, Zenon DEF EpRec
    <3> HIDE DEF g, w
    <3>3. ep' = [ep EXCEPT !.cur = {1}, !.heap = g, !.phase = "up", !.spawn = FALSE,
                           !.reconnecting = FALSE, !.run = TRUE] /\ w.spawn = FALSE
      BY <1>2, <1>5, <3>2, Zenon DEF EpRec
    <3>4. /\ ep' \in EpRec(Sessions) /\ ep'.spawn = FALSE /\ ep'.phase = "up"
          /\ ep'.cur = {1} /\ ep'.zombies = {} /\ ep'.reconnecting = FALSE /\ ep'.heap = g
      BY <1>2, <1>3, <3>1, <3>3, Zenon DEF EpRec
    <3> QED
      BY <3>3, <3>4, Zenon DEF g
  <2>3. \A s \in Sessions : ep'.heap[s] = IF s \in {1} THEN "live" ELSE ep.heap[s]
    BY <1>2, <2>2, Zenon DEF EpRec
  <2> HIDE DEF w
  <2>4. loop' = loop
    BY <1>5, <2>2, Zenon
  <2>5. Creates(FALSE, {1})
    BY <2>2, <2>3, <2>4, Zenon DEF Creates
  <2> QED
    BY <2>5, Zenon
<1>7. CASE r # "ok"
  <2>1. x \in BOOLEAN
    BY <1>2, Zenon
  <2>2. PICK p \in {"up", "failed"} :
          w = [ep EXCEPT !.phase = p, !.spawn = x, !.reconnecting = x, !.run = TRUE]
    <3>1. (r = "fail" /\ net.ivl > 0) /\ started <=> x
      BY Zenon
    <3>2. \A p \in {"up", "failed"} :
            [ep EXCEPT !.phase = p, !.spawn = (r = "fail" /\ net.ivl > 0) /\ started,
                       !.reconnecting = (r = "fail" /\ net.ivl > 0) /\ started, !.run = TRUE] =
            [ep EXCEPT !.phase = p, !.spawn = x, !.reconnecting = x, !.run = TRUE]
      BY <1>2, Zenon DEF EpRec
    <3> QED
      BY <1>7, <3>2, Zenon DEF mb_cipc_create, mb_cipc_do_connect, Created
  <2> HIDE DEF x
  <2>3. /\ ep' \in EpRec(Sessions) /\ ep'.spawn = FALSE /\ ep'.phase = p
        /\ ep'.cur = {} /\ ep'.zombies = {} /\ ep'.reconnecting = x
        /\ ep'.heap = ep.heap /\ w.spawn = x
    BY <1>2, <1>3, <1>5, <2>1, <2>2, Zenon DEF EpRec
  <2> HIDE DEF w
  <2>4. loop' = IF x THEN Started ELSE loop
    BY <1>5, <2>3, Zenon
  <2>5. Creates(x, {})
    BY <2>2, <2>3, <2>4, Zenon DEF Creates
  <2> QED
    BY <2>1, <2>5, Zenon
<1> QED
  BY <1>6, <1>7, Zenon

(* A binder is created. *)
LEMMA BinderCreates ==
  ASSUME EInv, CreateEndpoint, ~Connecting
  PROVE  \E x \in BOOLEAN : Creates(x, {})
<1>1. PICK r \in {"ok", "fail", "reject"}, started \in BOOLEAN :
        /\ ep' = [Create(ep, r, 1, started) EXCEPT !.spawn = FALSE]
        /\ loop' = IF Create(ep, r, 1, started).spawn THEN Started ELSE loop
  BY Zenon DEF CreateEndpoint
<1>2. net \in Nets /\ ep \in EpRec(Sessions) /\ ep.spawn = FALSE
  BY Zenon DEF EInv, Types
<1>3. ep.cur = {} /\ ep.zombies = {}
  BY Zenon DEF EInv, Closing, CreateEndpoint
<1> DEFINE w == mb_bipc_create(ep, r = "ok", started)
           x == r = "ok" /\ started
<1>4. Create(ep, r, 1, started) = w
  BY <1>2, Kinds, Zenon DEF BindKinds, Create, mb_btcp_create, mb_btls_create, mb_bws_create,
     mb_bwss_create
<1>5. ep' = [w EXCEPT !.spawn = FALSE] /\ loop' = IF w.spawn THEN Started ELSE loop
  <2> HIDE DEF w
  <2> QED
    BY <1>1, <1>4, Zenon
<1>6. x \in BOOLEAN
  BY Zenon
<1>7. PICK p \in {"up", "failed"} : w = [ep EXCEPT !.phase = p, !.run = x, !.spawn = x]
  BY Zenon DEF mb_bipc_create
<1> HIDE DEF x, w
<1>8. /\ ep' \in EpRec(Sessions) /\ ep'.spawn = FALSE /\ ep'.phase = p
      /\ ep'.cur = {} /\ ep'.zombies = {}
      /\ ep'.heap = ep.heap /\ w.spawn = x
  <2>1. ep' = [ep EXCEPT !.phase = p, !.run = x, !.spawn = FALSE] /\ w.spawn = x
    BY <1>2, <1>5, <1>7, Zenon DEF EpRec
  <2>2. ep' \in EpRec(Sessions)
    BY <1>2, <1>6, <2>1, Zenon DEF EpRec
  <2> QED
    BY <1>2, <1>3, <2>1, <2>2, Zenon DEF EpRec
<1>9. loop' = IF x THEN Started ELSE loop
  BY <1>5, <1>8, Zenon
<1>10. Creates(x, {})
  BY <1>7, <1>8, <1>9, Zenon DEF Creates
<1> QED
  BY <1>6, <1>10, Zenon

(* Creation establishes what holds from then on. *)
LEMMA CreateEndpointStep ==
  ASSUME EInv, CreateEndpoint
  PROVE  EInv'
<1> USE NetSame
<1>1. /\ UNCHANGED <<net, caller, closer>>
      /\ loop.pc = "off" /\ loop.s = NoSess /\ caller.pc = "idle" /\ closer = "idle"
      /\ ep.cur = {} /\ ep.zombies = {} /\ net \in Nets
  BY Zenon DEF EInv, Types, Closing, Making, AtStage, CreateEndpoint
<1>2. PICK x \in BOOLEAN, C \in {{}, {1}} :
        Creates(x, C) /\ (C = {1} => x = FALSE)
  BY ConnectorCreates, BinderCreates, Zenon
<1>3. \/ loop' = loop /\ ~x
      \/ x /\ loop' = [pc |-> "start", stage |-> 1, s |-> NoSess]
  BY <1>2, Zenon DEF Creates, Started, LoopOff
<1>4. loop'.s = NoSess
  BY <1>1, <1>3
<1>5. Types'
  BY <1>1, <1>2, <1>3 DEF EInv, Types, Creates
<1>6. Owned'
  <2>1. OwnedBy(Sessions, ep'.heap, C, {}, NoSess)
    BY <1>1, <1>2, FirstSession, Zenon DEF EInv, Owned, OwnedBy, Creates
  <2> QED
    BY <1>1, <1>2, <1>4, <2>1, Zenon DEF Owned, Creates
<1>7. Making'
  BY <1>1, <1>3 DEF Making, AtStage
<1>8. Calling'
  BY <1>1, Zenon DEF EInv, Calling
<1>9. OneReconnector'
  BY <1>1, <1>2, <1>3 DEF OneReconnector, Creates
<1>10. OneSession'
  BY <1>1, <1>2, Zenon DEF OneSession, Creates
<1>11. Closing'
  BY <1>1, <1>2, Zenon DEF Closing, Creates
<1> QED
  BY <1>5, <1>6, <1>7, <1>8, <1>9, <1>10, <1>11, Zenon DEF EInv

-----------------------------------------------------------------------------
(* The theorems. *)

(* It holds before the endpoint is created. *)
LEMMA InitEInv ==
  ASSUME Init
  PROVE  EInv
<1>1. 1 \in Sessions /\ NoSess \notin Sessions /\ net \in Nets
  BY FirstSession, Zenon DEF Init
<1>2. Types
  BY <1>1 DEF Init, Types, EpRec, Memory, Idle, LoopOff
<1>3. Owned
  BY <1>1, Zenon DEF Init, Owned, OwnedBy, LoopOff
<1>4. Making
  BY Zenon DEF Init, Making, AtStage, LoopOff
<1>5. Calling
  BY Zenon DEF Init, Calling, Idle
<1>6. OneReconnector /\ OneSession
  BY Zenon DEF Init, OneReconnector, OneSession, Idle, LoopOff
<1>7. Closing
  BY Zenon DEF Init, Closing, Idle, LoopOff
<1> QED
  BY <1>2, <1>3, <1>4, <1>5, <1>6, <1>7, Zenon DEF EInv

(* Every step keeps it. *)
LEMMA NextEInv ==
  ASSUME EInv, [Next]_vars
  PROVE  EInv'
<1>1. CASE CreateEndpoint
  BY <1>1, CreateEndpointStep, Zenon
<1>2. CASE PeerFlips \/ (\E s \in Sessions : Break(s)) \/ UNCHANGED vars
  <2>1. UNCHANGED <<net, ep, caller, loop, closer>>
    BY <1>2, Zenon DEF PeerFlips, Break, vars
  <2> QED
    BY <2>1, QuietStep, Zenon
<1>3. CASE Caller
  <2>1. ASSUME CallerReports
        PROVE  EInv'
    BY <2>1, ConnectorReports, BinderReports, Zenon
  <2> QED
    BY <1>3, <2>1, CallerEntersStep, CallerWorksStep, CallerSpawnsStep, CallerGivesUpStep,
       CallerUnwindsStep, Zenon DEF Caller
<1>4. CASE Loop
  BY <1>4, LoopStartsStep, LoopSleepsStep, LoopConnectsStep, LoopAcceptsStep,
     LoopHandshakesStep, LoopKeepaliveStep, LoopAllocatesStep, LoopPublishesStep,
     LoopFinishesStep, LoopExitsStep, Zenon DEF Loop
<1>5. CASE Closer
  BY <1>5, CloseBeginsStep, CloseFreesStep, CloseJoinsStep, CloseDestroysStep, Zenon DEF Closer
<1> QED
  BY <1>1, <1>2, <1>3, <1>4, <1>5, Zenon DEF Next

(* The inductive invariant of an endpoint and its three threads. *)
THEOREM EndpointInductive == Spec => []EInv
BY InitEInv, NextEInv, PTL DEF Spec

(* No session leaks and none is freed twice: every session that has memory *)
(* is in exactly one of the list, the zombies and the hands of the thread, *)
(* whatever the caller, the thread and the closer do to one another.       *)
THEOREM SessionsAlwaysOwned == Spec => []SessionsOwned
<1>1. EInv => SessionsOwned
  <2> SUFFICES ASSUME EInv, NEW s \in Sessions
               PROVE  CASE ep.heap[s] \in {"none", "freed"} -> Owners(s) = {}
                        [] ep.heap[s] = "fresh"   -> Owners(s) = {"loop"}
                        [] ep.heap[s] = "live"    -> Owners(s) = {"cur"}
                        [] ep.heap[s] = "stopped" -> Owners(s) = {"zombies"}
    BY Zenon DEF SessionsOwned
  <2>1. ep.heap[s] \in {"none", "fresh", "live", "stopped", "freed"}
    BY Zenon DEF EInv, Types, EpRec, Memory
  <2>2. /\ s \in ep.cur <=> ep.heap[s] = "live"
        /\ s \in ep.zombies <=> ep.heap[s] = "stopped"
        /\ s = loop.s <=> ep.heap[s] = "fresh"
    BY Zenon DEF EInv, Owned, OwnedBy
  <2>3. /\ "cur" \in Owners(s) <=> s \in ep.cur
        /\ "zombies" \in Owners(s) <=> s \in ep.zombies
        /\ "loop" \in Owners(s) <=> s = loop.s
        /\ Owners(s) \subseteq {"cur", "zombies", "loop"}
    BY Zenon DEF Owners
  <2>4. CASE ep.heap[s] \in {"none", "freed"}
    <3>1. Owners(s) = {}
      BY <2>2, <2>3, <2>4, Zenon
    <3> QED
      BY <2>4, <3>1, Zenon
  <2>5. CASE ep.heap[s] = "fresh"
    <3>1. Owners(s) = {"loop"}
      BY <2>2, <2>3, <2>5, Zenon
    <3> QED
      BY <2>5, <3>1, Zenon
  <2>6. CASE ep.heap[s] = "live"
    <3>1. Owners(s) = {"cur"}
      BY <2>2, <2>3, <2>6, Zenon
    <3> QED
      BY <2>6, <3>1, Zenon
  <2>7. CASE ep.heap[s] = "stopped"
    <3>1. Owners(s) = {"zombies"}
      BY <2>2, <2>3, <2>7, Zenon
    <3> QED
      BY <2>7, <3>1, Zenon
  <2> QED
    BY <2>1, <2>4, <2>5, <2>6, <2>7, Zenon
<1> QED
  BY <1>1, EndpointInductive, PTL

(* The flag of a connector says exactly when a thread reconnects or is     *)
(* about to be started: there is never a second one, and none is missing.  *)
THEOREM OneReconnectorAlways == Spec => []OneReconnector
<1>1. EInv => OneReconnector
  BY Zenon DEF EInv
<1> QED
  BY <1>1, EndpointInductive, PTL

(* When the stop of an endpoint has returned its thread has ended, no call *)
(* is inside one of its sessions and every session has been freed.         *)
THEOREM StopIsFinal == Spec => []StopFinal
<1>1. EInv => StopFinal
  <2> SUFFICES ASSUME EInv, closer \in {"done", "gone"}
               PROVE  /\ loop.pc = "off" /\ caller.pc = "idle"
                      /\ \A s \in Sessions : ep.heap[s] \in {"none", "freed"}
    BY Zenon DEF StopFinal
  <2>1. loop.pc = "off" /\ caller.pc = "idle" /\ ep.cur = {} /\ ep.zombies = {}
    BY Zenon DEF EInv, Closing
  <2>2. loop.s = NoSess
    BY <2>1, Zenon DEF EInv, Making, AtStage
  <2>3. NoSess \notin Sessions
    BY FirstSession, Zenon DEF EInv, Types
  <2>4. \A s \in Sessions : ep.heap[s] \in Memory /\ ep.heap[s] \notin {"live", "stopped", "fresh"}
    BY <2>1, <2>2, <2>3, Zenon DEF EInv, Types, EpRec, Owned, OwnedBy
  <2> QED
    BY <2>1, <2>4, Zenon DEF Memory
<1> QED
  BY <1>1, EndpointInductive, PTL

(* A session is not freed under a call that still works in it, up to and   *)
(* including the callback that retires it.                                 *)
THEOREM CallerAlwaysSafe == Spec => []CallerSafe
<1>1. EInv => CallerSafe
  BY Zenon DEF EInv, Calling, CallerSafe
<1> QED
  BY <1>1, EndpointInductive, PTL
=============================================================================
