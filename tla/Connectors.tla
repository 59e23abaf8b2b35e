----------------------------- MODULE Connectors -----------------------------
(***************************************************************************)
(* The connecting endpoints of the stream transports: mb_cipc, mb_ctcp,    *)
(* mb_ctls, mb_cws and mb_cwss.  They are written alike: a session, a      *)
(* zombie (a session that has failed and whose caller may still be inside  *)
(* it), and a thread that connects again.                                  *)
(*                                                                         *)
(* An endpoint w is a record: running, the set cur of its sessions (at     *)
(* most one for a connector), the zombies, whether it is reconnecting,     *)
(* whether the caller has to start the thread (spawn), the interval the    *)
(* thread sleeps next (ivl), and for each session whether it is unused     *)
(* ("none"), created ("fresh"), in the socket ("live"), out of it          *)
(* ("stopped") or freed.  Each operator below is what a function does      *)
(* while it holds the lock.                                                *)
(***************************************************************************)
EXTENDS Integers, FiniteSets, Sequences

mb_reconnect_cap_ivl(ivl, ivl_max) == IF ivl_max > 0 /\ ivl > ivl_max THEN ivl_max ELSE ivl

mb_reconnect_next_ivl(current_ivl, ivl_max) ==
  IF ivl_max <= 0 THEN current_ivl
  ELSE IF current_ivl > ivl_max \div 2 THEN ivl_max
  ELSE 2 * current_ivl

(* The sessions of a set S are stopped (their pipes leave the socket), or  *)
(* terminated and freed.                                                   *)
Stopped(w, S) == [w EXCEPT !.heap = [s \in DOMAIN @ |-> IF s \in S THEN "stopped" ELSE @[s]]]
Freed(w, S) == [w EXCEPT !.heap = [s \in DOMAIN @ |-> IF s \in S THEN "freed" ELSE @[s]]]

(* Mutant: the pointer to the zombie outlives it. *)
mb_cipc_free_zombie_Dangling(w) == Freed(w, w.zombies)

mb_cipc_free_zombie(w) == [Freed(w, w.zombies) EXCEPT !.zombies = {}]

(* Mutant: the failed session is freed at once. *)
mb_cipc_on_disconnect_Frees(w, ivl) ==
  IF ~w.run THEN [w EXCEPT !.spawn = FALSE]
  ELSE [Freed(w, w.cur) EXCEPT !.cur = {}, !.reconnecting = @ \/ ivl > 0,
                               !.spawn = ivl > 0 /\ ~w.reconnecting]

(* Mutant: only the first failure starts the thread. *)
mb_cipc_on_disconnect_Once(w, ivl) ==
  LET first == ivl > 0 /\ ~w.reconnecting /\ w.ivl = 0
  IN  [mb_cipc_free_zombie(Stopped(w, w.cur)) EXCEPT
         !.zombies = w.cur, !.cur = {}, !.reconnecting = first, !.spawn = first]

(* The session is stopped and becomes the zombie; a thread has to be       *)
(* started unless there is one.                                            *)
mb_cipc_on_disconnect(w, ivl) ==
  LET d == IF w.cur = {} THEN w
           ELSE [mb_cipc_free_zombie(Stopped(w, w.cur)) EXCEPT !.zombies = w.cur, !.cur = {}]
  IN  IF ~w.run THEN [w EXCEPT !.spawn = FALSE]
      ELSE [d EXCEPT !.spawn = ivl > 0 /\ ~w.reconnecting, !.reconnecting = @ \/ ivl > 0]

(* Mutant: the zombie is left behind. *)
mb_cipc_stop_KeepsZombie(w) == [Freed(w, w.cur) EXCEPT !.cur = {}, !.run = FALSE]

(* The lock section of mb_cipc_stop; the thread is joined after it. *)
mb_cipc_stop(w) == mb_cipc_free_zombie([Freed(w, w.cur) EXCEPT !.cur = {}, !.run = FALSE])

mb_cipc_destroy(w) == mb_cipc_free_zombie([Freed(w, w.cur) EXCEPT !.cur = {}])

(* The first connection, made by the thread that calls mb_connect: session *)
(* s is in the socket when the outcome r is "ok".                          *)
mb_cipc_do_connect(w, r, s) ==
  IF r = "ok" THEN [w EXCEPT !.cur = {s}, !.heap[s] = "live"] ELSE w

(* When it fails the thread goes on trying, if it can be started and the   *)
(* socket wants it and has not rejected the connection for good.           *)
Created(w, r, ivl, started) ==
  LET retry == r = "fail" /\ ivl > 0
  IN  [w EXCEPT
         !.phase = IF r = "ok" \/ (retry /\ started) THEN "up" ELSE "failed",
         !.spawn = retry /\ started, !.reconnecting = retry /\ started,
         !.run = TRUE]

mb_cipc_create(w, r, s, ivl, started) == Created(mb_cipc_do_connect(w, r, s), r, ivl, started)

(* What the thread has to get through, each stage of which may fail, until *)
(* it has a session in the socket.                                         *)
mb_cipc_reconnect_loop == <<"connect", "alloc", "publish">>

mb_ctcp_free_zombie(w) == mb_cipc_free_zombie(w)
mb_ctcp_reconnect_loop == <<"connect", "keepalive", "alloc", "publish">>
mb_ctcp_do_connect(w, r, s) == mb_cipc_do_connect(w, r, s)
mb_ctcp_create(w, r, s, ivl, started) == Created(mb_ctcp_do_connect(w, r, s), r, ivl, started)
mb_ctcp_on_disconnect(w, ivl) == mb_cipc_on_disconnect(w, ivl)
mb_ctcp_stop(w) == mb_cipc_stop(w)
mb_ctcp_destroy(w) == mb_cipc_destroy(w)

(* A handshake ends well only with a peer that is there; it may fail with  *)
(* one (faulty), and gives up when the endpoint is stopped or no answer    *)
(* comes in time.                                                          *)
Handshake(w, peer, faulty) ==
  {ok \in BOOLEAN : IF ok THEN peer ELSE ~peer \/ ~w.run \/ faulty}

mb_ctls_do_ssl_connect(w, peer, faulty) == Handshake(w, peer, faulty)
mb_ctls_free_zombie(w) == mb_cipc_free_zombie(w)
mb_ctls_reconnect_loop == <<"connect", "tls", "alloc", "publish">>
mb_ctls_do_connect(w, r, s) == mb_cipc_do_connect(w, r, s)
mb_ctls_create(w, r, s, ivl, started) == Created(mb_ctls_do_connect(w, r, s), r, ivl, started)
mb_ctls_on_disconnect(w, ivl) == mb_cipc_on_disconnect(w, ivl)
mb_ctls_stop(w) == mb_cipc_stop(w)
mb_ctls_destroy(w) == mb_cipc_destroy(w)

mb_cws_do_handshake(w, peer, faulty) == Handshake(w, peer, faulty)
mb_cws_free_zombie(w) == mb_cipc_free_zombie(w)
mb_cws_reconnect_loop == <<"connect", "upgrade", "alloc", "publish">>
mb_cws_do_connect(w, r, s) == mb_cipc_do_connect(w, r, s)
mb_cws_create(w, r, s, ivl, started) == Created(mb_cws_do_connect(w, r, s), r, ivl, started)
mb_cws_on_disconnect(w, ivl) == mb_cipc_on_disconnect(w, ivl)
mb_cws_stop(w) == mb_cipc_stop(w)
mb_cws_destroy(w) == mb_cipc_destroy(w)

mb_cwss_do_tls_connect(w, peer, faulty) == Handshake(w, peer, faulty)
mb_cwss_do_handshake(w, peer, faulty) == Handshake(w, peer, faulty)
mb_cwss_free_zombie(w) == mb_cipc_free_zombie(w)
mb_cwss_reconnect_loop == <<"connect", "tls", "upgrade", "alloc", "publish">>
mb_cwss_do_connect(w, r, s) == mb_cipc_do_connect(w, r, s)
mb_cwss_create(w, r, s, ivl, started) == Created(mb_cwss_do_connect(w, r, s), r, ivl, started)
mb_cwss_on_disconnect(w, ivl) == mb_cipc_on_disconnect(w, ivl)
mb_cwss_stop(w) == mb_cipc_stop(w)
mb_cwss_destroy(w) == mb_cipc_destroy(w)
=============================================================================
