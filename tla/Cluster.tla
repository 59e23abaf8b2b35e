------------------------------- MODULE Cluster -------------------------------
(***************************************************************************)
(* The cluster layer: membership (gossip.c), discovery (discovery.c), the  *)
(* routing ring (routing.c, Ring) and the calls that start, stop and ask   *)
(* it (cluster.c, global.c).  Every mb_cluster_join starts a gossip thread *)
(* and a discovery thread, join or leave running in the caller under the   *)
(* global lock; the three meet in the member list and in the ring, each    *)
(* under a lock of its own.                                                *)
(*                                                                         *)
(* Time is kept as ages: how long ago a member was seen, and how long ago  *)
(* a gossip thread read the clock for the tick it is about to make.        *)
(***************************************************************************)
EXTENDS Ring, FiniteSets

CONSTANTS Local,      \* the node id of this process
          SUSPECT,    \* suspect_ms
          DEAD,       \* dead_ms
          MaxLag,     \* a thread is not preempted for longer in a tick
          Nets        \* what net may be

VARIABLES net,        \* peers, calls of mb_cluster_join, whether of mb_cluster_leave,
                      \* what may fail, MB_GOSSIP_MAX_NODES, and whether it lasts long
                      \* enough for members to age
          cluster,    \* its state, once cluster_inited
          members,    \* gossip.nodes
          ring,       \* routing.ring
          grunning, drunning,   \* gossip.running, discovery.running
          gthread, dthread,     \* the thread handles, 0 for none
          fd,         \* discovery.sock_fd is open
          thr,        \* the threads started so far
          api         \* where the caller holding the global lock is

vars == <<net, cluster, members, ring, grunning, drunning, gthread, dthread, fd, thr, api>>

None == "none"
Ids == [i \in DOMAIN members |-> members[i].id]
MaxAge == DEAD + MaxLag + 1
May(what) == what \in net.fails

Threads(kind) == {t \in DOMAIN thr : thr[t].kind = kind}

NewThread(kind) ==
  [kind |-> kind, pc |-> "loop", lag |-> 0, dead |-> <<>>, node |-> NoNode]

mb_gossip_node_init(id) == [id |-> id, state |-> "ALIVE", age |-> 0]

Init ==
  /\ net \in Nets
  /\ cluster = None
  /\ members = <<>>
  /\ ring = mb_ring_init
  /\ grunning = FALSE /\ drunning = FALSE /\ fd = FALSE
  /\ gthread = 0 /\ dthread = 0
  /\ thr = <<>>
  /\ api = "idle"

-----------------------------------------------------------------------------
(* The calls, one at a time under the global lock. *)

(* The first call initialises the cluster; mb_gossip_init ignores that the *)
(* local node may not have been added.                                     *)
InitialMembers ==
  IF cluster # None THEN {members}
  ELSE {<<mb_gossip_node_init(Local)>>} \cup (IF May("alloc") THEN {<<>>} ELSE {})

(* mb_cluster_join up to mb_gossip_start, which sets running first and     *)
(* leaves it set when the thread cannot be started.                        *)
mb_gossip_start ==
  /\ api = "idle"
  /\ Cardinality(Threads("gossip")) < net.joins
  /\ cluster' = IF cluster = None THEN "INIT" ELSE cluster
  /\ members' \in InitialMembers
  /\ grunning' = TRUE
  /\ \/ /\ thr' = Append(thr, NewThread("gossip"))
        /\ gthread' = Len(thr) + 1
        /\ api' = "discover"
     \/ /\ May("thread")
        /\ UNCHANGED <<thr, gthread, api>>
  /\ UNCHANGED <<net, ring, drunning, dthread, fd>>

(* The rest of mb_cluster_join. *)
mb_discovery_start ==
  /\ api = "discover"
  /\ \/ /\ thr' = Append(thr, NewThread("discovery"))
        /\ dthread' = Len(thr) + 1
        /\ drunning' = TRUE
        /\ fd' = TRUE
        /\ cluster' = "ACTIVE"
        /\ api' = "idle"
     \/ /\ May("thread")
        /\ drunning' = FALSE
        /\ fd' = FALSE
        /\ api' = "stop_gossip"
        /\ UNCHANGED <<thr, dthread, cluster>>
     \/ /\ May("socket")
        /\ fd' = FALSE
        /\ api' = "stop_gossip"
        /\ UNCHANGED <<thr, dthread, drunning, cluster>>
  /\ UNCHANGED <<net, members, ring, grunning, gthread>>

(* A broadcast wakes every thread that waits on the condition variable. *)
Broadcast(kind) ==
  thr' = [t \in DOMAIN thr |->
            IF thr[t].kind = kind /\ thr[t].pc = "wait" THEN [thr[t] EXCEPT !.pc = "woken"]
            ELSE thr[t]]

(* mb_cluster_leave up to the wait for the discovery thread. *)
mb_discovery_stop ==
  /\ api = "idle"
  /\ net.leaves
  /\ cluster = "ACTIVE"
  /\ cluster' = "STOPPED"
  /\ drunning' = FALSE
  /\ IF drunning THEN Broadcast("discovery") /\ api' = "join_discovery"
     ELSE api' = "close" /\ UNCHANGED thr
  /\ UNCHANGED <<net, members, ring, grunning, gthread, dthread, fd>>

Joinable(h) == h # 0 => thr[h].pc = "done"

JoinDiscovery ==
  /\ api = "join_discovery"
  /\ Joinable(dthread)
  /\ dthread' = 0
  /\ api' = "close"
  /\ UNCHANGED <<net, cluster, members, ring, grunning, drunning, gthread, fd, thr>>

CloseDiscovery ==
  /\ api = "close"
  /\ fd' = FALSE
  /\ api' = "stop_gossip"
  /\ UNCHANGED <<net, cluster, members, ring, grunning, drunning, gthread, dthread, thr>>

(* The end of mb_cluster_leave, and of a mb_cluster_join whose discovery   *)
(* did not start.                                                          *)
mb_gossip_stop ==
  /\ api = "stop_gossip"
  /\ grunning' = FALSE
  /\ IF grunning THEN Broadcast("gossip") /\ api' = "join_gossip"
     ELSE api' = "idle" /\ UNCHANGED thr
  /\ UNCHANGED <<net, cluster, members, ring, drunning, gthread, dthread, fd>>

JoinGossip ==
  /\ api = "join_gossip"
  /\ Joinable(gthread)
  /\ gthread' = 0
  /\ api' = "idle"
  /\ UNCHANGED <<net, cluster, members, ring, grunning, drunning, dthread, fd, thr>>

-----------------------------------------------------------------------------
(* The member list.  Each operator is one critical section of gossip.sync. *)

mb_gossip_add_node(list, id) ==
  IF \E i \in DOMAIN list : list[i].id = id THEN list
  ELSE Append(list, mb_gossip_node_init(id))

mb_gossip_remove_node(list, id) == SelectSeq(list, LAMBDA m : m.id # id)

(* now - last_seen_ms as an unsigned number: it wraps when the node was    *)
(* seen after the clock was read.                                          *)
Elapsed(age, lag) == IF lag > age THEN MaxAge + 1 ELSE age - lag

Aged(m, lag) ==
  LET suspect == m.state = "ALIVE" /\ Elapsed(m.age, lag) > SUSPECT
      dead == (suspect \/ m.state = "SUSPECT") /\ Elapsed(m.age, lag) > DEAD
  IN IF m.id = Local THEN m
     ELSE [m EXCEPT !.state = IF dead THEN "DEAD" ELSE IF suspect THEN "SUSPECT" ELSE @]

(* Mutant: the last slot of the array of changes is not used. *)
Reported_OneLess(list, aged) ==
  LET all == SelectSeq(aged, LAMBDA m : m \notin Range(list))
  IN IF Len(all) >= net.cap THEN SubSeq(all, 1, net.cap - 1) ELSE all

(* The members whose state a tick changed, of which it reports at most     *)
(* MB_GOSSIP_MAX_NODES.                                                    *)
Reported(list, aged) ==
  LET all == SelectSeq(aged, LAMBDA m : m \notin Range(list))
  IN IF Len(all) > net.cap THEN SubSeq(all, 1, net.cap) ELSE all

-----------------------------------------------------------------------------
(* The gossip thread t. *)
At(t, kind, pc) == thr[t].kind = kind /\ thr[t].pc = pc

GoTo(t, pc) == thr' = [thr EXCEPT ![t].pc = pc]

AfterCallback(th) == [th EXCEPT !.pc = IF th.dead = <<>> THEN "nap" ELSE "call"]

GossipLoops(t) ==
  /\ At(t, "gossip", "loop")
  /\ GoTo(t, IF grunning THEN "tick" ELSE "done")
  /\ UNCHANGED <<net, cluster, members, ring, grunning, drunning, gthread, dthread, fd, api>>

(* Of the changes reported to it the cluster heeds the deaths. *)
mb_cluster_on_gossip_change(changes) == SelectSeq(changes, LAMBDA m : m.state = "DEAD")

(* mb_gossip_tick from the lock on, the clock having been read.  It calls  *)
(* back once it has released the lock, in the steps that follow.           *)
mb_gossip_tick(t) ==
  /\ At(t, "gossip", "tick")
  /\ \E aged \in {[i \in DOMAIN members |-> Aged(members[i], thr[t].lag)]} :
       LET dead == mb_cluster_on_gossip_change(Reported(members, aged)) IN
       /\ members' = aged
       /\ thr' = [thr EXCEPT ![t] =
                    AfterCallback([thr[t] EXCEPT !.lag = 0,
                                                 !.dead = [k \in DOMAIN dead |-> dead[k].id]])]
  /\ UNCHANGED <<net, cluster, ring, grunning, drunning, gthread, dthread, fd, api>>

(* mb_cluster_leave_node for the next node reported dead, in its two       *)
(* critical sections.                                                      *)
LeaveMembers(t) ==
  /\ At(t, "gossip", "call")
  /\ members' = mb_gossip_remove_node(members, Head(thr[t].dead))
  /\ GoTo(t, "unroute")
  /\ UNCHANGED <<net, cluster, ring, grunning, drunning, gthread, dthread, fd, api>>

LeaveRing(t) ==
  /\ At(t, "gossip", "unroute")
  /\ ring' = mb_ring_remove(ring, Head(thr[t].dead))
  /\ thr' = [thr EXCEPT ![t] = AfterCallback([thr[t] EXCEPT !.dead = Tail(@)])]
  /\ UNCHANGED <<net, cluster, members, grunning, drunning, gthread, dthread, fd, api>>

(* Mutant: running is not looked at again under the lock. *)
Naps_Blindly(t, kind, running) ==
  /\ At(t, kind, "nap")
  /\ GoTo(t, "wait")
  /\ UNCHANGED <<net, cluster, members, ring, grunning, drunning, gthread, dthread, fd, api>>

(* Either thread, between two rounds: the wait on stop_cv and its end, by  *)
(* a broadcast or by the timeout.                                          *)
Naps(t, kind, running) ==
  /\ At(t, kind, "nap")
  /\ GoTo(t, IF running THEN "wait" ELSE "loop")
  /\ UNCHANGED <<net, cluster, members, ring, grunning, drunning, gthread, dthread, fd, api>>

Wakes(t) ==
  /\ thr[t].pc \in {"wait", "woken"}
  /\ GoTo(t, "loop")
  /\ UNCHANGED <<net, cluster, members, ring, grunning, drunning, gthread, dthread, fd, api>>

GossipStep(t) ==
  \/ GossipLoops(t) \/ mb_gossip_tick(t) \/ LeaveMembers(t) \/ LeaveRing(t)
  \/ Naps(t, "gossip", grunning)

-----------------------------------------------------------------------------
(* The discovery thread t. *)
(* Mutant: the loop does not look at running. *)
DiscoveryLoops_Forever(t) ==
  /\ At(t, "discovery", "loop")
  /\ GoTo(t, "select")
  /\ UNCHANGED <<net, cluster, members, ring, grunning, drunning, gthread, dthread, fd, api>>

DiscoveryLoops(t) ==
  /\ At(t, "discovery", "loop")
  /\ GoTo(t, IF drunning THEN "select" ELSE "done")
  /\ UNCHANGED <<net, cluster, members, ring, grunning, drunning, gthread, dthread, fd, api>>

(* A packet of a peer.  Packets of this node, and malformed ones, change   *)
(* nothing.                                                                *)
Receives(t, n) ==
  /\ At(t, "discovery", "select")
  /\ fd
  /\ thr' = [thr EXCEPT ![t].pc = "join", ![t].node = n]
  /\ UNCHANGED <<net, cluster, members, ring, grunning, drunning, gthread, dthread, fd, api>>

(* select finds nothing more to read. *)
NothingToRead(t) ==
  /\ At(t, "discovery", "select")
  /\ GoTo(t, "nap")
  /\ UNCHANGED <<net, cluster, members, ring, grunning, drunning, gthread, dthread, fd, api>>

(* mb_cluster_join_node, in its two critical sections. *)
JoinMembers(t) ==
  /\ At(t, "discovery", "join")
  /\ \/ members' = mb_gossip_add_node(members, thr[t].node) /\ GoTo(t, "route")
     \/ /\ May("alloc")
        /\ thr' = [thr EXCEPT ![t].pc = "select", ![t].node = NoNode]
        /\ UNCHANGED members
  /\ UNCHANGED <<net, cluster, ring, grunning, drunning, gthread, dthread, fd, api>>

JoinRing(t) ==
  /\ At(t, "discovery", "route")
  /\ \E mem \in IF May("alloc") THEN 0..VIRTUAL + 1 ELSE {VIRTUAL + 1} :
       ring' = mb_ring_add(ring, thr[t].node, mem)
  /\ thr' = [thr EXCEPT ![t].pc = "select", ![t].node = NoNode]
  /\ UNCHANGED <<net, cluster, members, grunning, drunning, gthread, dthread, fd, api>>

DiscoveryStep(t) ==
  \/ DiscoveryLoops(t) \/ NothingToRead(t) \/ JoinMembers(t) \/ JoinRing(t)
  \/ Naps(t, "discovery", drunning)

-----------------------------------------------------------------------------
(* A unit of time passes; ages stop at MaxAge, where they mean no more. *)
Tick ==
  /\ net.aging
  /\ \A t \in DOMAIN thr : At(t, "gossip", "tick") => thr[t].lag < MaxLag
  /\ members' = [i \in DOMAIN members |->
                   IF members[i].id = Local \/ members[i].age = MaxAge THEN members[i]
                   ELSE [members[i] EXCEPT !.age = @ + 1]]
  /\ thr' = [t \in DOMAIN thr |->
               IF At(t, "gossip", "tick") THEN [thr[t] EXCEPT !.lag = @ + 1] ELSE thr[t]]
  /\ UNCHANGED <<net, cluster, ring, grunning, drunning, gthread, dthread, fd, api>>

CallStep ==
  \/ mb_discovery_start \/ JoinDiscovery \/ CloseDiscovery \/ mb_gossip_stop \/ JoinGossip

Next ==
  \/ mb_gossip_start \/ mb_discovery_stop
  \/ CallStep
  \/ \E t \in DOMAIN thr : GossipStep(t) \/ DiscoveryStep(t) \/ Wakes(t)
  \/ \E t \in DOMAIN thr, n \in net.peers : Receives(t, n)
  \/ Tick

Safe == Init /\ [][Next]_vars

(* Threads are scheduled, time passes, a caller in the middle of a call    *)
(* goes on, and packets come with pauses between them.                     *)
Fairness(MaxThreads) ==
  /\ WF_vars(CallStep) /\ WF_vars(Tick)
  /\ \A t \in 1..MaxThreads :
       /\ WF_vars(t \in DOMAIN thr /\ (GossipStep(t) \/ DiscoveryStep(t) \/ Wakes(t)))
       /\ SF_vars(t \in DOMAIN thr /\ NothingToRead(t))

-----------------------------------------------------------------------------
TypeOK ==
  /\ net \in Nets
  /\ cluster \in {None, "INIT", "ACTIVE", "STOPPED"}
  /\ \A i \in DOMAIN members :
       /\ members[i].id \in net.peers \cup {Local}
       /\ members[i].state \in {"ALIVE", "SUSPECT", "DEAD"}
       /\ members[i].age \in 0..MaxAge
  /\ grunning \in BOOLEAN /\ drunning \in BOOLEAN /\ fd \in BOOLEAN
  /\ Len(thr) <= 2 * net.joins
  /\ gthread \in Threads("gossip") \cup {0}
  /\ dthread \in Threads("discovery") \cup {0}
  /\ \A t \in DOMAIN thr :
       /\ thr[t].pc \in {"loop", "tick", "call", "unroute", "nap", "wait", "woken",
                         "select", "join", "route", "done"}
       /\ thr[t].lag \in 0..MaxLag
       /\ Range(thr[t].dead) \subseteq net.peers
       /\ thr[t].node \in net.peers \cup {NoNode}
  /\ api \in {"idle", "discover", "join_discovery", "close", "stop_gossip", "join_gossip"}

RightRoutes(r) ==
  \A h \in 0..Hashes - 1 :
    LET S == Range(r.nodes)
        one == mb_ring_lookup(r, h)
    IN /\ IF S = {} THEN one = NoNode ELSE NearestFirst(<<one>>, S, h)
       /\ \A k \in 1..Cardinality(S) + 1 :
            LET ids == mb_ring_lookup_n(r, h, k) IN
            /\ Len(ids) = IF k <= Cardinality(S) THEN k ELSE Cardinality(S)
            /\ NearestFirst(ids, S, h)
            /\ ids # <<>> => Head(ids) = one

(* Whenever the ring changes, and however, every key is then routed to the *)
(* node that comes first clockwise, and its replicas to the next ones,     *)
(* each once, as many as there are (ring.c mb_ring_lookup,                 *)
(* mb_ring_lookup_n).                                                      *)
RoutesRight == [][RightRoutes(ring')]_ring

(* While a call waits for a thread it told to stop, no thread of that kind *)
(* sleeps out its interval: each has been woken or sees running cleared    *)
(* before it would sleep (gossip.c, discovery.c: mb_gossip_stop can wake   *)
(* the worker immediately rather than blocking).                           *)
StopWakes ==
  \A t \in DOMAIN thr :
    thr[t].pc = "wait" => api # (IF thr[t].kind = "gossip" THEN "join_gossip"
                                 ELSE "join_discovery")

(* mb_cluster_join and mb_cluster_leave, which hold the global lock while  *)
(* they wait for the threads, return.                                      *)
LeaveReturns == (api # "idle") ~> (api = "idle")

(* Once no join or leave of a node is under way, the nodes that keys are   *)
(* routed to are members (cluster.c mb_cluster_join_node,                  *)
(* mb_cluster_leave_node: two locks in turn).                              *)
RoutedAreMembers ==
  (\A t \in DOMAIN thr : thr[t].pc \notin {"route", "unroute"}) =>
    Range(ring.nodes) \subseteq Range(Ids)

(* A member is declared dead only when it has been silent for longer than  *)
(* dead_ms (gossip.c mb_gossip_tick, which reads the clock before it takes *)
(* the lock).                                                              *)
NoEarlyDeath ==
  \A i \in DOMAIN members : members[i].state = "DEAD" => members[i].age > DEAD

(* A member found dead is about to be removed by the thread that found it  *)
(* (gossip.c mb_gossip_tick, which looks at each death once).              *)
DeathsReported ==
  \A i \in DOMAIN members :
    members[i].state = "DEAD" => \E t \in DOMAIN thr : members[i].id \in Range(thr[t].dead)

(* In an active cluster whose gossip runs, a peer that is no longer heard  *)
(* of is forgotten, as long as no more members change at once than a tick  *)
(* can report (gossip.c mb_gossip_tick).                                   *)
SilentForgotten(Peers) ==
  \A p \in Peers :
    /\ net.cap >= Cardinality(net.peers) /\ net.aging
    /\ <>[](cluster = "ACTIVE" /\ grunning)
    /\ <>[](\A t \in DOMAIN thr : thr[t].node # p)
    => <>[](p \notin Range(Ids))
=============================================================================
