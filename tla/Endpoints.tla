----------------------------- MODULE Endpoints ------------------------------
(***************************************************************************)
(* An endpoint of a stream transport and the threads that meet in it: the  *)
(* caller, a thread of the application inside a session of the endpoint;   *)
(* the loop, the thread of the endpoint that connects or accepts; and the  *)
(* closer, which stops the endpoint once no application call is under way. *)
(*                                                                         *)
(* A net says which endpoint it is (kind), its reconnection intervals, how *)
(* many sessions fit in memory, how often the peer goes and comes back,    *)
(* and what may fail besides the connections (faults).  A section that     *)
(* holds the lock of the endpoint is one step; a thread that needs a lock  *)
(* it holds itself is stuck, and lock keeps its name.                      *)
(***************************************************************************)
EXTENDS Binders

CONSTANT Nets

ASSUME NetsAssumption ==
  \A n \in Nets :
    /\ n.kind \in {"cipc", "ctcp", "ctls", "cws", "cwss", "bipc", "btcp", "btls", "bws", "bwss"}
    /\ n.sess \in Nat \ {0}
    /\ n.ivl \in Int /\ n.ivl_max \in Int

VARIABLES net,
          ep,       \* the endpoint, see Connectors
          lock,     \* the thread that holds the lock for ever, or "free"
          peer,     \* is there something to connect to, or somebody to accept
          flips,    \* how often the peer has gone or come back
          broken,   \* the sessions whose connection is lost
          caller,   \* [pc, s: the session it is inside]
          loop,     \* [pc, stage, s: the session it is making]
          closer

vars == <<net, ep, lock, peer, flips, broken, caller, loop, closer>>

Sessions == 1..net.sess
NoSess == 0

Connecting == net.kind \in {"cipc", "ctcp", "ctls", "cws", "cwss"}

(* The function tables of the endpoints. *)
Create(w, r, s, started) ==
  CASE net.kind = "cipc" -> mb_cipc_create(w, r, s, net.ivl, started)
    [] net.kind = "ctcp" -> mb_ctcp_create(w, r, s, net.ivl, started)
    [] net.kind = "ctls" -> mb_ctls_create(w, r, s, net.ivl, started)
    [] net.kind = "cws"  -> mb_cws_create(w, r, s, net.ivl, started)
    [] net.kind = "cwss" -> mb_cwss_create(w, r, s, net.ivl, started)
    [] net.kind = "bipc" -> mb_bipc_create(w, r = "ok", started)
    [] net.kind = "btcp" -> mb_btcp_create(w, r = "ok", started)
    [] net.kind = "btls" -> mb_btls_create(w, r = "ok", started)
    [] net.kind = "bws"  -> mb_bws_create(w, r = "ok", started)
    [] net.kind = "bwss" -> mb_bwss_create(w, r = "ok", started)

OnError(w) ==
  CASE net.kind = "cipc" -> mb_cipc_on_disconnect(w, net.ivl)
    [] net.kind = "ctcp" -> mb_ctcp_on_disconnect(w, net.ivl)
    [] net.kind = "ctls" -> mb_ctls_on_disconnect(w, net.ivl)
    [] net.kind = "cws"  -> mb_cws_on_disconnect(w, net.ivl)
    [] net.kind = "cwss" -> mb_cwss_on_disconnect(w, net.ivl)
    [] net.kind = "bipc" -> mb_bipc_on_session_error(w)
    [] net.kind = "btcp" -> mb_btcp_on_session_error(w)
    [] net.kind = "btls" -> mb_btls_on_session_error(w)
    [] net.kind = "bws"  -> mb_bws_on_session_error(w)
    [] net.kind = "bwss" -> mb_bwss_on_session_error(w)

FreeZombies(w) ==
  CASE net.kind = "cipc" -> mb_cipc_free_zombie(w)
    [] net.kind = "ctcp" -> mb_ctcp_free_zombie(w)
    [] net.kind = "ctls" -> mb_ctls_free_zombie(w)
    [] net.kind = "cws"  -> mb_cws_free_zombie(w)
    [] net.kind = "cwss" -> mb_cwss_free_zombie(w)
    [] net.kind = "bipc" -> mb_bipc_free_zombies(w)
    [] net.kind = "btcp" -> mb_btcp_free_zombies(w)
    [] net.kind = "btls" -> mb_btls_free_zombies(w)
    [] net.kind = "bws"  -> mb_bws_free_zombies(w)
    [] net.kind = "bwss" -> mb_bwss_free_zombies(w)

StopUnderLock(w) ==
  CASE net.kind = "cipc" -> mb_cipc_stop(w)
    [] net.kind = "ctcp" -> mb_ctcp_stop(w)
    [] net.kind = "ctls" -> mb_ctls_stop(w)
    [] net.kind = "cws"  -> mb_cws_stop(w)
    [] net.kind = "cwss" -> mb_cwss_stop(w)
    [] net.kind = "bipc" -> mb_bipc_stop(w)
    [] net.kind = "btcp" -> mb_btcp_stop(w)
    [] net.kind = "btls" -> mb_btls_stop(w)
    [] net.kind = "bws"  -> mb_bws_stop(w)
    [] net.kind = "bwss" -> mb_bwss_stop(w)

DestroyEndpoint(w) ==
  CASE net.kind = "cipc" -> mb_cipc_destroy(w)
    [] net.kind = "ctcp" -> mb_ctcp_destroy(w)
    [] net.kind = "ctls" -> mb_ctls_destroy(w)
    [] net.kind = "cws"  -> mb_cws_destroy(w)
    [] net.kind = "cwss" -> mb_cwss_destroy(w)
    [] net.kind = "bipc" -> mb_bipc_destroy(w)
    [] net.kind = "btcp" -> mb_btcp_destroy(w)
    [] net.kind = "btls" -> mb_btls_destroy(w)
    [] net.kind = "bws"  -> mb_bws_destroy(w)
    [] net.kind = "bwss" -> mb_bwss_destroy(w)

Stages ==
  CASE net.kind = "cipc" -> mb_cipc_reconnect_loop
    [] net.kind = "ctcp" -> mb_ctcp_reconnect_loop
    [] net.kind = "ctls" -> mb_ctls_reconnect_loop
    [] net.kind = "cws"  -> mb_cws_reconnect_loop
    [] net.kind = "cwss" -> mb_cwss_reconnect_loop
    [] net.kind = "bipc" -> mb_bipc_accept_loop
    [] net.kind = "btcp" -> mb_btcp_accept_loop
    [] net.kind = "btls" -> mb_btls_accept_loop
    [] net.kind = "bws"  -> mb_bws_accept_loop
    [] net.kind = "bwss" -> mb_bwss_accept_loop

Faulty(what) == what \in net.faults

TlsOutcomes(w) ==
  CASE net.kind = "ctls" -> mb_ctls_do_ssl_connect(w, peer, Faulty("handshake"))
    [] net.kind = "cwss" -> mb_cwss_do_tls_connect(w, peer, Faulty("handshake"))
    [] net.kind = "btls" -> mb_btls_ssl_accept_while(w, peer, Faulty("handshake"))
    [] net.kind = "bwss" -> mb_bwss_ssl_accept_while(w, peer, Faulty("handshake"))

UpgradeOutcomes(w) ==
  CASE net.kind = "cws"  -> mb_cws_do_handshake(w, peer, Faulty("handshake"))
    [] net.kind = "cwss" -> mb_cwss_do_handshake(w, peer, Faulty("handshake"))
    [] net.kind = "bws"  -> mb_bws_do_handshake(w, peer, Faulty("handshake"))
    [] net.kind = "bwss" -> mb_bwss_do_handshake(w, peer, Faulty("handshake"))

-----------------------------------------------------------------------------

Idle == [pc |-> "idle", s |-> NoSess]
LoopOff == [pc |-> "off", stage |-> 1, s |-> NoSess]
Started == [LoopOff EXCEPT !.pc = "start"]

Init ==
  /\ net \in Nets
  /\ ep = [phase |-> "new", run |-> FALSE, cur |-> {}, zombies |-> {}, disc |-> {},
           reconnecting |-> FALSE, spawn |-> FALSE, ivl |-> 0,
           heap |-> [s \in Sessions |-> "none"]]
  /\ lock = "free" /\ peer \in BOOLEAN /\ flips = 0 /\ broken = {}
  /\ caller = Idle /\ loop = LoopOff /\ closer = "idle"

(* Memory that is free, and that no thread still works on. *)
Unused == {s \in Sessions : ep.heap[s] \in {"none", "freed"} /\ s # caller.s}

(* mb_connect or mb_bind. *)
CreateEndpoint ==
  /\ ep.phase = "new"
  /\ \E r \in {"ok", "fail", "reject"}, started \in BOOLEAN :
       /\ r = "ok" /\ Connecting => peer
       /\ r = "reject" => Faulty("reject")
       /\ ~started => Faulty("spawn")
       /\ \E w \in {Create(ep, r, 1, started)} :
            /\ ep' = [w EXCEPT !.spawn = FALSE]
            /\ loop' = IF w.spawn THEN Started ELSE loop
  /\ UNCHANGED <<net, lock, peer, flips, broken, caller, closer>>

(* The peer goes away or comes back; a connection is lost. *)
PeerFlips ==
  /\ flips < net.flips
  /\ peer' = ~peer /\ flips' = flips + 1
  /\ broken' = IF peer THEN {s \in Sessions : ep.heap[s] \in {"fresh", "live"}} ELSE broken
  /\ UNCHANGED <<net, ep, lock, caller, loop, closer>>

Break(s) ==
  /\ ep.heap[s] \in {"fresh", "live"} /\ s \notin broken
  /\ broken' = broken \cup {s}
  /\ UNCHANGED <<net, ep, lock, peer, flips, caller, loop, closer>>

-----------------------------------------------------------------------------

(* A call of the application enters a session that is in the socket. *)
CallerEnters(s) ==
  /\ caller.pc = "idle" /\ closer = "idle" /\ ep.heap[s] = "live"
  /\ caller' = [pc |-> "in", s |-> s]
  /\ UNCHANGED <<net, ep, lock, peer, flips, broken, loop, closer>>

(* It does its work, or meets the loss of the connection: the first to do  *)
(* so reports it (mb_sipc_report_error).                                   *)
CallerWorks ==
  /\ caller.pc = "in"
  /\ IF caller.s \notin broken THEN caller' = Idle /\ UNCHANGED ep
     ELSE /\ caller' = [caller EXCEPT !.pc = IF caller.s \in ep.disc THEN "unwind" ELSE "report"]
          /\ ep' = [ep EXCEPT !.disc = @ \cup {caller.s}]
  /\ UNCHANGED <<net, lock, peer, flips, broken, loop, closer>>

(* A pipe that enters or leaves the socket makes it run its event          *)
(* functions.  They may be the first to meet the loss of one of the other  *)
(* connections S of the endpoint, and the callback needs the lock that the *)
(* thread already holds.                                                   *)
MeetsLoss(S, thread) ==
  /\ Faulty("events")
  /\ \E s \in (S \cap broken) \ ep.disc : ep' = [ep EXCEPT !.disc = @ \cup {s}]
  /\ lock' = thread

(* The callback of the endpoint, under its lock, which stops sessions: a   *)
(* connector its only one, a binder those that have failed among others.   *)
CallerReports ==
  /\ caller.pc = "report" /\ lock = "free"
  /\ \/ /\ \E w \in {OnError(ep)} :
             /\ ep' = [w EXCEPT !.spawn = FALSE]
             /\ caller' = [caller EXCEPT !.pc = IF w.spawn THEN "join" ELSE "unwind"]
        /\ UNCHANGED lock
     \/ /\ ~Connecting /\ MeetsLoss(ep.cur, "caller")
        /\ caller' = [caller EXCEPT !.pc = "stuck"]
  /\ UNCHANGED <<net, peer, flips, broken, loop, closer>>

(* Joins the thread that finished last and starts another, if it can. *)
CallerSpawns ==
  /\ caller.pc = "join" /\ loop.pc = "off"
  /\ \/ loop' = Started /\ caller' = [caller EXCEPT !.pc = "unwind"]
     \/ Faulty("spawn") /\ caller' = [caller EXCEPT !.pc = "nospawn"] /\ UNCHANGED loop
  /\ UNCHANGED <<net, ep, lock, peer, flips, broken, closer>>

CallerGivesUp ==
  /\ caller.pc = "nospawn" /\ lock = "free"
  /\ ep' = [ep EXCEPT !.reconnecting = FALSE]
  /\ caller' = [caller EXCEPT !.pc = "unwind"]
  /\ UNCHANGED <<net, lock, peer, flips, broken, loop, closer>>

CallerUnwinds ==
  /\ caller.pc = "unwind"
  /\ caller' = Idle
  /\ UNCHANGED <<net, ep, lock, peer, flips, broken, loop, closer>>

Caller ==
  \/ \E s \in Sessions : CallerEnters(s)
  \/ CallerWorks \/ CallerReports \/ CallerSpawns \/ CallerGivesUp \/ CallerUnwinds

-----------------------------------------------------------------------------

(* The thread starts: a connector frees the zombie and takes the first     *)
(* interval; a binder does so at the top of each turn.                     *)
LoopStarts ==
  /\ loop.pc = "start" /\ lock = "free"
  /\ IF Connecting \/ ep.run
     THEN /\ ep' = [FreeZombies(ep) EXCEPT !.ivl = mb_reconnect_cap_ivl(net.ivl, net.ivl_max)]
          /\ loop' = [loop EXCEPT !.pc = IF ep.run THEN "work" ELSE "final", !.stage = 1]
     ELSE loop' = [loop EXCEPT !.pc = "exit"] /\ UNCHANGED ep
  /\ UNCHANGED <<net, lock, peer, flips, broken, caller, closer>>

(* A stage has failed: a connector sleeps and starts over, unless it has   *)
(* been stopped; a binder goes on with the next connection.                *)
LoopFails == [LoopOff EXCEPT !.pc = IF Connecting THEN "sleep" ELSE "start"]

(* Mutant: the thread sleeps on although the endpoint has been stopped. *)
LoopSleeps_Forever ==
  /\ loop.pc = "sleep"
  /\ ep' = [ep EXCEPT !.ivl = mb_reconnect_next_ivl(@, net.ivl_max)]
  /\ loop' = [LoopOff EXCEPT !.pc = "work"]
  /\ UNCHANGED <<net, lock, peer, flips, broken, caller, closer>>

(* Sleeps for the interval, or until the endpoint is stopped; the next one *)
(* is longer.  The loop ends when the endpoint has been stopped.           *)
LoopSleeps ==
  /\ loop.pc = "sleep"
  /\ ep' = [ep EXCEPT !.ivl = mb_reconnect_next_ivl(@, net.ivl_max)]
  /\ loop' = [LoopOff EXCEPT !.pc = IF ep.run THEN "work" ELSE "final"]
  /\ UNCHANGED <<net, lock, peer, flips, broken, caller, closer>>

AtStage(what) == loop.pc = "work" /\ Stages[loop.stage] = what

NextStage == [loop EXCEPT !.stage = @ + 1]

(* Connects while the endpoint runs, for as long as a connection takes. *)
LoopConnects ==
  /\ AtStage("connect")
  /\ \/ ~ep.run /\ loop' = [LoopOff EXCEPT !.pc = "final"]
     \/ peer /\ loop' = NextStage
     \/ ~peer /\ loop' = LoopFails
  /\ UNCHANGED <<net, ep, lock, peer, flips, broken, caller, closer>>

(* Waits for a connection and accepts it, if there is memory for one. *)
LoopAccepts ==
  /\ AtStage("accept")
  /\ \/ ep.run /\ peer /\ Unused # {} /\ loop' = NextStage
     \/ loop' = [LoopOff EXCEPT !.pc = "start"]
  /\ UNCHANGED <<net, ep, lock, peer, flips, broken, caller, closer>>

LoopHandshakes ==
  /\ AtStage("tls") \/ AtStage("upgrade")
  /\ \E ok \in IF AtStage("tls") THEN TlsOutcomes(ep) ELSE UpgradeOutcomes(ep) :
       loop' = IF ok THEN NextStage
               ELSE IF Connecting /\ ~ep.run THEN [LoopOff EXCEPT !.pc = "final"]
               ELSE LoopFails
  /\ UNCHANGED <<net, ep, lock, peer, flips, broken, caller, closer>>

(* SO_KEEPALIVE is set on the descriptor. *)
LoopKeepalive ==
  /\ AtStage("keepalive")
  /\ \/ loop' = NextStage
     \/ Faulty("alloc") /\ loop' = LoopFails
  /\ UNCHANGED <<net, ep, lock, peer, flips, broken, caller, closer>>

(* A session is created. *)
LoopAllocates ==
  /\ AtStage("alloc")
  /\ \/ \E s \in Unused :
          /\ \A t \in Unused : s <= t
          /\ ep' = [ep EXCEPT !.heap[s] = "fresh", !.disc = @ \ {s}]
          /\ broken' = broken \ {s}
          /\ loop' = [NextStage EXCEPT !.s = s]
     \/ (Faulty("alloc") \/ Unused = {}) /\ loop' = LoopFails /\ UNCHANGED <<ep, broken>>
  /\ UNCHANGED <<net, lock, peer, flips, caller, closer>>

(* The session enters the socket, under the lock.  A connector that has    *)
(* been stopped drops it.  The socket may refuse it, for now or, when the  *)
(* pattern takes no further peer, for good.                                *)
LoopPublishes ==
  /\ AtStage("publish") /\ lock = "free"
  /\ IF Connecting /\ ~ep.run
     THEN /\ ep' = [Freed(ep, {loop.s}) EXCEPT !.reconnecting = FALSE]
          /\ loop' = [LoopOff EXCEPT !.pc = "exit"]
          /\ UNCHANGED lock
     ELSE \/ /\ ep' = [ep EXCEPT !.cur = @ \cup {loop.s}, !.heap[loop.s] = "live",
                                 !.reconnecting = FALSE]
             /\ loop' = [LoopOff EXCEPT !.pc = IF Connecting THEN "exit" ELSE "start"]
             /\ UNCHANGED lock
          \/ /\ Faulty("start")
             /\ ep' = Freed(ep, {loop.s}) /\ loop' = LoopFails /\ UNCHANGED lock
          \/ /\ Faulty("reject")
             /\ ep' = Freed(ep, {loop.s})
             /\ loop' = IF Connecting THEN [LoopOff EXCEPT !.pc = "final"] ELSE LoopFails
             /\ UNCHANGED lock
          \/ /\ MeetsLoss(ep.cur \cup {loop.s}, "loop")
             /\ loop' = [loop EXCEPT !.pc = "stuck"]
  /\ UNCHANGED <<net, peer, flips, broken, caller, closer>>

(* Mutant: the flag survives the thread. *)
LoopFinishes_Flagged ==
  /\ loop.pc = "final" /\ lock = "free"
  /\ loop' = [loop EXCEPT !.pc = "exit"]
  /\ UNCHANGED <<net, ep, lock, peer, flips, broken, caller, closer>>

LoopFinishes ==
  /\ loop.pc = "final" /\ lock = "free"
  /\ ep' = [ep EXCEPT !.reconnecting = FALSE]
  /\ loop' = [loop EXCEPT !.pc = "exit"]
  /\ UNCHANGED <<net, lock, peer, flips, broken, caller, closer>>

LoopExits ==
  /\ loop.pc = "exit"
  /\ loop' = LoopOff
  /\ UNCHANGED <<net, ep, lock, peer, flips, broken, caller, closer>>

Loop ==
  \/ LoopStarts \/ LoopSleeps \/ LoopConnects \/ LoopAccepts \/ LoopHandshakes
  \/ LoopKeepalive \/ LoopAllocates \/ LoopPublishes \/ LoopFinishes \/ LoopExits

-----------------------------------------------------------------------------

(* The socket or the endpoint is closed: calls under way have returned.  A *)
(* binder is told to stop before its thread is joined and its sessions are *)
(* freed; a connector frees its session first.                             *)
CloseBegins ==
  /\ closer = "idle" /\ caller.pc = "idle" /\ ep.phase = "up"
  /\ closer' = IF Connecting THEN "lock" ELSE "join"
  /\ ep' = [ep EXCEPT !.run = IF Connecting THEN @ ELSE FALSE]
  /\ UNCHANGED <<net, lock, peer, flips, broken, caller, loop>>

(* The sessions are stopped and freed one after the other. *)
CloseFrees ==
  /\ closer = "lock" /\ lock = "free"
  /\ \/ /\ ep' = StopUnderLock(ep) /\ UNCHANGED lock
        /\ closer' = IF Connecting THEN "join" ELSE "done"
     \/ /\ \E first \in ep.cur : MeetsLoss(ep.cur \ {first}, "closer")
        /\ closer' = "stuck"
  /\ UNCHANGED <<net, peer, flips, broken, caller, loop>>

CloseJoins ==
  /\ closer = "join" /\ loop.pc = "off"
  /\ closer' = IF Connecting THEN "done" ELSE "lock"
  /\ UNCHANGED <<net, ep, lock, peer, flips, broken, caller, loop>>

CloseDestroys ==
  /\ closer = "done"
  /\ ep' = [DestroyEndpoint(ep) EXCEPT !.phase = "gone"]
  /\ closer' = "gone"
  /\ UNCHANGED <<net, lock, peer, flips, broken, caller, loop>>

Closer == CloseBegins \/ CloseFrees \/ CloseJoins \/ CloseDestroys

Next ==
  \/ CreateEndpoint \/ PeerFlips \/ \E s \in Sessions : Break(s)
  \/ Caller \/ Loop \/ Closer

Spec == Init /\ [][Next]_vars

(* The application keeps calling, the threads run. *)
FairSpec == Spec /\ WF_vars(Caller) /\ WF_vars(Loop) /\ WF_vars(CloseFrees \/ CloseJoins)

-----------------------------------------------------------------------------

(* The intervals stay within the maximum that the socket asks for, and the *)
(* threads where their functions can be.                                   *)
TypeOK ==
  /\ net \in Nets
  /\ ep.cur \subseteq Sessions /\ ep.zombies \subseteq Sessions
  /\ Connecting => Cardinality(ep.cur) <= 1 /\ Cardinality(ep.zombies) <= 1
  /\ net.ivl_max > 0 => ep.ivl <= net.ivl_max
  /\ caller.pc \in {"idle", "in", "report", "join", "nospawn", "unwind", "stuck"}
  /\ loop.pc \in {"off", "start", "work", "sleep", "final", "exit", "stuck"}
  /\ closer \in {"idle", "lock", "join", "done", "gone", "stuck"}

Owners(s) ==
  {o \in {"cur", "zombies", "loop"} :
     CASE o = "cur" -> s \in ep.cur [] o = "zombies" -> s \in ep.zombies [] o = "loop" -> s = loop.s}

(* Every session that has memory is reachable from exactly one place, and  *)
(* nothing points to memory that has been given back: no leak, no second   *)
(* free, whatever the threads do to one another.                           *)
SessionsOwned ==
  \A s \in Sessions :
    CASE ep.heap[s] \in {"none", "freed"} -> Owners(s) = {}
      [] ep.heap[s] = "fresh"   -> Owners(s) = {"loop"}
      [] ep.heap[s] = "live"    -> Owners(s) = {"cur"}
      [] ep.heap[s] = "stopped" -> Owners(s) = {"zombies"}

(* A connector that says it is reconnecting has a thread for it, or a      *)
(* caller about to start one; a thread that works has the flag.  Without   *)
(* the first it would never connect again, without the second two threads  *)
(* would make sessions.                                                    *)
OneReconnector ==
  Connecting =>
    (ep.reconnecting <=> \/ loop.pc \in {"start", "work", "sleep", "final", "stuck"}
                         \/ caller.pc \in {"join", "nospawn"})

(* Once the stop of an endpoint has returned its thread has ended, nobody  *)
(* is inside its sessions and none of them is left.                        *)
StopFinal ==
  closer \in {"done", "gone"} =>
    /\ loop.pc = "off" /\ caller.pc = "idle"
    /\ \A s \in Sessions : ep.heap[s] \in {"none", "freed"}

(* A session is not freed under a call that is still at work in it, up to  *)
(* and including the callback that retires it.                             *)
CallerSafe == caller.pc \in {"in", "report", "join"} => ep.heap[caller.s] # "freed"

(* A call in a session that has failed can return safely: the session is   *)
(* deferred until the caller's stack has unwound.                          *)
UnwindSafe == caller.pc # "idle" => ep.heap[caller.s] # "freed"

(* No thread needs a lock of the endpoint that it holds itself: what runs  *)
(* under the lock does not come back to the endpoint's error callback.     *)
NeverRelocks == lock = "free"

(* While the peer is there, a connector with a reconnection interval finds *)
(* its way back, however often the connection is lost.                     *)
Reconnects ==
  net.faults = {} /\ Connecting /\ net.ivl > 0 =>
    (<>[]peer => []<>(ep.phase # "up" \/ closer # "idle" \/ ep.cur # {}))

(* The stop of an endpoint returns, whatever its thread is doing: every    *)
(* wait of the thread ends when the endpoint has been stopped.  (Where     *)
(* event functions meet errors NeverRelocks fails, and this with it.)      *)
StopReturns == ~Faulty("events") => (closer \in {"lock", "join"} ~> closer = "done")
=============================================================================
