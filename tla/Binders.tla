------------------------------ MODULE Binders -------------------------------
(***************************************************************************)
(* The listening endpoints of the stream transports: mb_bipc, mb_btcp,     *)
(* mb_btls, mb_bws and mb_bwss.  The same record as in Connectors, with    *)
(* any number of sessions and zombies; the thread accepts connections.     *)
(***************************************************************************)
EXTENDS Connectors

mb_bipc_free_zombies(w) == [Freed(w, w.zombies) EXCEPT !.zombies = {}]

(* Every session that has failed leaves the list for the zombies. *)
mb_bipc_on_session_error(w) ==
  LET failed == w.cur \cap w.disc
  IN  [Stopped(w, failed) EXCEPT !.cur = @ \ failed, !.zombies = @ \cup failed]

(* An accepted connection becomes a session of the list. *)
mb_bipc_accept_loop == <<"accept", "alloc", "publish">>

(* The socket listens and the thread has started, or nothing is left. *)
mb_bipc_create(w, listening, started) ==
  [w EXCEPT !.phase = IF listening /\ started THEN "up" ELSE "failed",
            !.run = listening /\ started, !.spawn = listening /\ started]

(* After the thread has been joined: sessions and zombies are freed. *)
mb_bipc_stop(w) == mb_bipc_free_zombies([Freed(w, w.cur) EXCEPT !.cur = {}])

mb_bipc_destroy(w) == mb_bipc_stop([w EXCEPT !.run = FALSE])

mb_btcp_free_zombies(w) == mb_bipc_free_zombies(w)
mb_btcp_on_session_error(w) == mb_bipc_on_session_error(w)
mb_btcp_accept_loop == <<"accept", "keepalive", "alloc", "publish">>
mb_btcp_create(w, listening, started) == mb_bipc_create(w, listening, started)
mb_btcp_cleanup(w) == mb_btcp_free_zombies([Freed(w, w.cur) EXCEPT !.cur = {}])
mb_btcp_stop(w) == mb_btcp_cleanup(w)
mb_btcp_destroy(w) == mb_btcp_cleanup([w EXCEPT !.run = FALSE])

mb_btls_free_zombies(w) == mb_bipc_free_zombies(w)
mb_btls_on_session_error(w) == mb_bipc_on_session_error(w)
mb_btls_ssl_accept_while(w, peer, faulty) == Handshake(w, peer, faulty)
mb_btls_accept_loop == <<"accept", "tls", "alloc", "publish">>
mb_btls_create(w, listening, started) == mb_bipc_create(w, listening, started)
mb_btls_cleanup(w) == mb_btls_free_zombies([Freed(w, w.cur) EXCEPT !.cur = {}])
mb_btls_stop(w) == mb_btls_cleanup(w)
mb_btls_destroy(w) == IF w.run THEN mb_btls_stop([w EXCEPT !.run = FALSE]) ELSE w

mb_bws_free_zombies(w) == mb_bipc_free_zombies(w)
mb_bws_on_session_error(w) == mb_bipc_on_session_error(w)
mb_bws_do_handshake(w, peer, faulty) == Handshake(w, peer, faulty)
mb_bws_accept_loop == <<"accept", "upgrade", "alloc", "publish">>
mb_bws_create(w, listening, started) == mb_bipc_create(w, listening, started)
mb_bws_stop(w) == mb_bws_free_zombies([Freed(w, w.cur) EXCEPT !.cur = {}])
mb_bws_destroy(w) == IF w.run THEN mb_bws_stop([w EXCEPT !.run = FALSE]) ELSE w

mb_bwss_free_zombies(w) == mb_bipc_free_zombies(w)
mb_bwss_on_session_error(w) == mb_bipc_on_session_error(w)
mb_bwss_ssl_accept_while(w, peer, faulty) == Handshake(w, peer, faulty)
mb_bwss_do_handshake(w, peer, faulty) == Handshake(w, peer, faulty)
mb_bwss_accept_loop == <<"accept", "tls", "upgrade", "alloc", "publish">>
mb_bwss_create(w, listening, started) == mb_bipc_create(w, listening, started)
mb_bwss_stop(w) == mb_bwss_free_zombies([Freed(w, w.cur) EXCEPT !.cur = {}])
mb_bwss_destroy(w) == IF w.run THEN mb_bwss_stop([w EXCEPT !.run = FALSE]) ELSE w
=============================================================================
