---------------------------- MODULE ClusterProofs ----------------------------
(***************************************************************************)
(* That a call of the cluster layer which waits for its threads never      *)
(* finds one of them asleep, for any number of peers, of joins and of      *)
(* threads a second join may have left behind, and whatever fails.         *)
(***************************************************************************)
EXTENDS Cluster, TLAPS

IsThread(r) ==
  /\ r.kind \in {"gossip", "discovery"}
  /\ r = [kind |-> r.kind, pc |-> r.pc, lag |-> r.lag, dead |-> r.dead, node |-> r.node]

(* What a thread looks at, under the lock of its kind, before it sleeps. *)
Runs(kind) == IF kind = "gossip" THEN grunning ELSE drunning

(* A thread that moves on stays a thread of its kind. *)
LEMMA PcUpdate ==
  ASSUME NEW r, IsThread(r), NEW x, NEW u, u = [r EXCEPT !.pc = x]
  PROVE  IsThread(u) /\ u.kind = r.kind /\ u.pc = x
BY Zenon DEF IsThread

(* The same for the time since it read the clock. *)
LEMMA LagUpdate ==
  ASSUME NEW r, IsThread(r), NEW x, NEW u, u = [r EXCEPT !.lag = x]
  PROVE  IsThread(u) /\ u.kind = r.kind /\ u.pc = r.pc
BY Zenon DEF IsThread

(* The same for the nodes it has to report. *)
LEMMA DeadUpdate ==
  ASSUME NEW r, IsThread(r), NEW x, NEW u, u = [r EXCEPT !.dead = x]
  PROVE  IsThread(u) /\ u.kind = r.kind /\ u.pc = r.pc
BY Zenon DEF IsThread

(* The same for the node whose packet it handles. *)
LEMMA NodeUpdate ==
  ASSUME NEW r, IsThread(r), NEW x, NEW u, u = [r EXCEPT !.node = x]
  PROVE  IsThread(u) /\ u.kind = r.kind /\ u.pc = r.pc
BY Zenon DEF IsThread

(* The end of a tick or of a callback is no sleep. *)
LEMMA AfterCallbackThread ==
  ASSUME NEW r, IsThread(r)
  PROVE  /\ IsThread(AfterCallback(r)) /\ AfterCallback(r).kind = r.kind
         /\ AfterCallback(r).pc # "wait"
<1> DEFINE pc == IF r.dead = <<>> THEN "nap" ELSE "call"
<1>1. AfterCallback(r) = [r EXCEPT !.pc = pc]
  BY Zenon DEF AfterCallback
<1>2. pc # "wait"
  BY Zenon
<1> HIDE DEF pc
<1> QED
  BY <1>1, <1>2, PcUpdate

(* StopWakes with what makes it inductive: the threads are a sequence of   *)
(* records, and a call waits only once it cleared the flag.                *)
StopInv ==
  /\ thr \in Seq(Range(thr))
  /\ \A t \in DOMAIN thr : IsThread(thr[t])
  /\ api = "join_gossip" => ~grunning
  /\ api = "join_discovery" => ~drunning
  /\ StopWakes

(* A function on the positions of a sequence is a sequence. *)
LEMMA IsSequence ==
  ASSUME NEW n \in Nat, NEW f, f = [t \in 1..n |-> f[t]]
  PROVE  f \in Seq(Range(f))
<1>1. DOMAIN f = 1..n
  BY Zenon
<1>2. \A t \in 1..n : f[t] \in Range(f)
  BY <1>1, Zenon DEF Range
<1> QED
  BY <1>2

(* So is a sequence with an element appended. *)
LEMMA AppendIsSequence ==
  ASSUME NEW s, s \in Seq(Range(s)), NEW e
  PROVE  LET a == Append(s, e)
         IN /\ a \in Seq(Range(a))
            /\ \A t \in DOMAIN a : (t \in DOMAIN s /\ a[t] = s[t]) \/ a[t] = e
<1> DEFINE S == Range(s) \cup {e}
           a == Append(s, e)
<1>1. s \in Seq(S) /\ e \in S
  OBVIOUS
<1> HIDE DEF S
<1>2. a \in Seq(S) /\ Len(s) \in Nat /\ DOMAIN s = 1..Len(s) /\ Len(a) = Len(s) + 1
  BY <1>1
<1>3. \A t \in 1..Len(s) + 1 : (t \in 1..Len(s) /\ a[t] = s[t]) \/ a[t] = e
  BY <1>1, <1>2
<1> HIDE DEF a
<1>4. \A t \in 1..Len(a) : a[t] \in Range(a)
  BY <1>2 DEF Range
<1>5. a \in Seq(Range(a))
  BY <1>2, <1>4
<1> QED
  BY <1>2, <1>3, <1>5 DEF a

(* Threads that keep their kind, and go to sleep only if theirs runs, keep *)
(* the invariant.                                                          *)
LEMMA ThreadsStep ==
  ASSUME StopInv, NEW f, thr' = [t \in DOMAIN thr |-> f[t]],
         \A t \in DOMAIN thr : IsThread(f[t]) /\ f[t].kind = thr[t].kind,
         \A t \in DOMAIN thr : f[t].pc = "wait" => Runs(f[t].kind) \/ thr[t].pc = "wait",
         UNCHANGED <<api, grunning, drunning>>
  PROVE  StopInv'
<1>1. DOMAIN thr' = DOMAIN thr /\ \A t \in DOMAIN thr : thr'[t] = f[t]
  BY Zenon
<1>2. thr' \in Seq(Range(thr'))
  <2>1. DOMAIN thr = 1..Len(thr) /\ Len(thr) \in Nat
    BY DEF StopInv
  <2>2. \A t \in 1..Len(thr) : f[t] \in Range(thr')
    BY <2>1, <1>1, Zenon DEF Range
  <2> QED
    BY <2>1, <2>2
<1>3. \A t \in DOMAIN thr' : IsThread(thr'[t])
  BY <1>1, Zenon
<1>4. StopWakes'
  BY <1>1, Zenon DEF StopWakes, StopInv, Runs
<1> QED
  BY <1>2, <1>3, <1>4, Zenon DEF StopInv

(* A step of one thread. *)
LEMMA OneThreadStep ==
  ASSUME StopInv, NEW t \in DOMAIN thr, NEW r, thr' = [thr EXCEPT ![t] = r],
         IsThread(r), r.kind = thr[t].kind, r.pc = "wait" => Runs(r.kind),
         UNCHANGED <<api, grunning, drunning>>
  PROVE  StopInv'
<1> DEFINE f == [s \in DOMAIN thr |-> IF s = t THEN r ELSE thr[s]]
<1>1. thr' = [s \in DOMAIN thr |-> f[s]]
  BY Zenon
<1>2. \A s \in DOMAIN thr : IsThread(f[s]) /\ f[s].kind = thr[s].kind
  BY Zenon DEF StopInv
<1>3. \A s \in DOMAIN thr : f[s].pc = "wait" => Runs(f[s].kind) \/ thr[s].pc = "wait"
  BY Zenon
<1> HIDE DEF f
<1> QED
  BY <1>1, <1>2, <1>3, ThreadsStep, Zenon

(* A thread that only moves on. *)
LEMMA GoToStep ==
  ASSUME StopInv, NEW t \in DOMAIN thr, NEW pc, GoTo(t, pc),
         pc = "wait" => Runs(thr[t].kind), UNCHANGED <<api, grunning, drunning>>
  PROVE  StopInv'
<1> DEFINE r == [thr[t] EXCEPT !.pc = pc]
<1>1. thr' = [thr EXCEPT ![t] = r]
  BY Zenon DEF GoTo
<1>2. IsThread(thr[t])
  BY Zenon DEF StopInv
<1>3. IsThread(r) /\ r.kind = thr[t].kind /\ r.pc = pc
  BY <1>2, PcUpdate
<1> HIDE DEF r
<1> QED
  BY <1>1, <1>3, OneThreadStep, Zenon

(* A thread is started. *)
LEMMA StartStep ==
  ASSUME StopInv, NEW kind \in {"gossip", "discovery"}, thr' = Append(thr, NewThread(kind)),
         api' \notin {"join_gossip", "join_discovery"}
  PROVE  StopInv'
<1> DEFINE e == NewThread(kind)
<1>1. thr \in Seq(Range(thr))
  BY Zenon DEF StopInv
<1>2. /\ thr' \in Seq(Range(thr'))
      /\ \A t \in DOMAIN thr' : (t \in DOMAIN thr /\ thr'[t] = thr[t]) \/ thr'[t] = e
  <2>1. LET a == Append(thr, e)
        IN /\ a \in Seq(Range(a))
           /\ \A t \in DOMAIN a : (t \in DOMAIN thr /\ a[t] = thr[t]) \/ a[t] = e
    <3> HIDE DEF e
    <3> QED
      BY <1>1, AppendIsSequence, Zenon
  <2> QED
    BY <2>1, Zenon
<1>5. IsThread(NewThread(kind))
  BY Zenon DEF IsThread, NewThread
<1>6. \A t \in DOMAIN thr' : IsThread(thr'[t])
  BY <1>2, <1>5, Zenon DEF StopInv
<1>7. StopWakes'
  BY Zenon DEF StopWakes
<1> QED
  BY <1>2, <1>6, <1>7, Zenon DEF StopInv

(* A broadcast after the flag of its kind was cleared: nobody of that kind *)
(* sleeps, and nobody falls asleep.                                        *)
LEMMA BroadcastStep ==
  ASSUME StopInv, NEW kind, Broadcast(kind),
         \/ kind = "gossip" /\ api' = "join_gossip" /\ grunning' = FALSE
         \/ kind = "discovery" /\ api' = "join_discovery" /\ drunning' = FALSE
  PROVE  StopInv'
<1> DEFINE f == [t \in DOMAIN thr |->
                   IF thr[t].kind = kind /\ thr[t].pc = "wait" THEN [thr[t] EXCEPT !.pc = "woken"]
                   ELSE thr[t]]
<1>1. thr' = f
  BY Zenon DEF Broadcast
<1>2. \A t \in DOMAIN thr : /\ IsThread(f[t]) /\ f[t].kind = thr[t].kind
                            /\ f[t].pc = "wait" => f[t].kind # kind
  <2> TAKE t \in DOMAIN thr
  <2>1. IsThread(thr[t])
    BY Zenon DEF StopInv
  <2> QED
    BY <2>1, Zenon DEF IsThread
<1>3. thr' \in Seq(Range(thr'))
  <2>1. DOMAIN thr = 1..Len(thr) /\ Len(thr) \in Nat
    BY DEF StopInv
  <2>2. thr' = [t \in 1..Len(thr) |-> thr'[t]]
    BY <1>1, <2>1, Zenon
  <2> QED
    BY <2>1, <2>2, IsSequence, Zenon
<1>4. DOMAIN thr' = DOMAIN thr /\ \A t \in DOMAIN thr : thr'[t] = f[t]
  BY <1>1, Zenon
<1>5. (\A t \in DOMAIN thr : IsThread(thr[t]))'
  BY <1>2, <1>4, Zenon
<1>6. StopWakes'
  <2> HIDE DEF f
  <2> SUFFICES ASSUME NEW t \in DOMAIN thr, thr'[t].pc = "wait"
               PROVE  api' # IF thr'[t].kind = "gossip" THEN "join_gossip" ELSE "join_discovery"
    BY <1>4, Zenon DEF StopWakes
  <2>1. thr'[t].kind # kind /\ thr'[t].kind \in {"gossip", "discovery"}
    BY <1>2, <1>4, Zenon DEF IsThread
  <2> QED
    BY <2>1, Zenon
<1> QED
  BY <1>3, <1>5, <1>6, Zenon DEF StopInv

LEMMA InitStopInv == Init => StopInv
BY DEF Init, StopInv, StopWakes, Range

(* The steps of a call. *)
LEMMA CallsKeep ==
  ASSUME StopInv, mb_gossip_start \/ mb_discovery_stop \/ CallStep
  PROVE  StopInv'
<1>1. CASE mb_gossip_start
  <2>1. CASE thr' = Append(thr, NewThread("gossip")) /\ api' = "discover"
    BY <2>1, StartStep, Zenon
  <2>2. CASE UNCHANGED <<thr, gthread, api>>
    BY <1>1, <2>2, Zenon DEF mb_gossip_start, StopInv, StopWakes
  <2> QED
    BY <1>1, <2>1, <2>2, Zenon DEF mb_gossip_start
<1>2. CASE mb_discovery_start
  <2>1. CASE thr' = Append(thr, NewThread("discovery")) /\ api' = "idle"
    BY <2>1, StartStep, Zenon
  <2>2. CASE thr' = thr /\ api' = "stop_gossip"
    BY <2>2, Zenon DEF StopInv, StopWakes
  <2> QED
    BY <1>2, <2>1, <2>2, Zenon DEF mb_discovery_start
<1>3. CASE mb_discovery_stop
  <2>1. CASE Broadcast("discovery") /\ api' = "join_discovery"
    BY <1>3, <2>1, BroadcastStep, Zenon DEF mb_discovery_stop
  <2>2. CASE thr' = thr /\ api' = "close"
    BY <2>2, Zenon DEF StopInv, StopWakes
  <2> QED
    BY <1>3, <2>1, <2>2, Zenon DEF mb_discovery_stop
<1>4. CASE mb_gossip_stop
  <2>1. CASE Broadcast("gossip") /\ api' = "join_gossip"
    BY <1>4, <2>1, BroadcastStep, Zenon DEF mb_gossip_stop
  <2>2. CASE thr' = thr /\ api' = "idle"
    BY <2>2, Zenon DEF StopInv, StopWakes
  <2> QED
    BY <1>4, <2>1, <2>2, Zenon DEF mb_gossip_stop
<1>5. CASE JoinDiscovery \/ CloseDiscovery \/ JoinGossip
  <2>1. thr' = thr /\ api' \in {"close", "stop_gossip", "idle"}
    BY <1>5, Zenon DEF JoinDiscovery, CloseDiscovery, JoinGossip
  <2> QED
    BY <2>1, Zenon DEF StopInv, StopWakes
<1> QED
  BY <1>1, <1>2, <1>3, <1>4, <1>5, Zenon DEF CallStep

(* The steps of a gossip thread. *)
LEMMA GossipKeeps ==
  ASSUME StopInv, NEW t \in DOMAIN thr, GossipStep(t)
  PROVE  StopInv'
<1>0. IsThread(thr[t])
  BY Zenon DEF StopInv
<1>1. CASE GossipLoops(t)
  BY <1>1, GoToStep, Zenon DEF GossipLoops
<1>2. CASE mb_gossip_tick(t)
  <2>1. PICK ids : thr' = [thr EXCEPT ![t] =
                             AfterCallback([thr[t] EXCEPT !.lag = 0, !.dead = ids])]
    BY <1>2, Zenon DEF mb_gossip_tick
  <2> DEFINE q == [thr[t] EXCEPT !.lag = 0]
             u == [q EXCEPT !.dead = ids]
             r == AfterCallback(u)
  <2>2. thr' = [thr EXCEPT ![t] = r]
    BY <2>1, Zenon
  <2>3. IsThread(q) /\ q.kind = thr[t].kind
    BY <1>0, LagUpdate, Zenon
  <2>5. IsThread(u) /\ u.kind = thr[t].kind
    <3>1. u = [q EXCEPT !.dead = ids]
      OBVIOUS
    <3> HIDE DEF q, u
    <3> QED
      BY <2>3, <3>1, DeadUpdate, SMT
  <2>6. IsThread(r) /\ r.kind = thr[t].kind /\ r.pc # "wait"
    <3> HIDE DEF u
    <3> QED
      BY <2>5, AfterCallbackThread, Zenon
  <2>4. UNCHANGED <<api, grunning, drunning>>
    BY <1>2, Zenon DEF mb_gossip_tick
  <2> HIDE DEF r
  <2> QED
    BY <2>2, <2>4, <2>6, OneThreadStep, Zenon
<1>3. CASE LeaveMembers(t)
  BY <1>3, GoToStep, Zenon DEF LeaveMembers
<1>4. CASE LeaveRing(t)
  <2> DEFINE u == [thr[t] EXCEPT !.dead = Tail(thr[t].dead)]
             r == AfterCallback(u)
  <2>1. thr' = [thr EXCEPT ![t] = r] /\ UNCHANGED <<api, grunning, drunning>>
    BY <1>4, Zenon DEF LeaveRing
  <2>2. IsThread(u) /\ u.kind = thr[t].kind
    BY <1>0, DeadUpdate, Zenon
  <2>3. IsThread(r) /\ r.kind = thr[t].kind /\ r.pc # "wait"
    <3> HIDE DEF u
    <3> QED
      BY <2>2, AfterCallbackThread, Zenon
  <2> HIDE DEF r
  <2> QED
    BY <2>1, <2>3, OneThreadStep, Zenon
<1>5. CASE Naps(t, "gossip", grunning)
  BY <1>5, GoToStep, Zenon DEF Naps, At, Runs
<1> QED
  BY <1>1, <1>2, <1>3, <1>4, <1>5, Zenon DEF GossipStep

(* The steps of a discovery thread. *)
LEMMA DiscoveryKeeps ==
  ASSUME StopInv, NEW t \in DOMAIN thr, DiscoveryStep(t) \/ \E n \in net.peers : Receives(t, n)
  PROVE  StopInv'
<1>0. IsThread(thr[t])
  BY Zenon DEF StopInv
<1>1. CASE DiscoveryLoops(t)
  BY <1>1, GoToStep, Zenon DEF DiscoveryLoops
<1>2. CASE NothingToRead(t)
  BY <1>2, GoToStep, Zenon DEF NothingToRead
<1>3. ASSUME NEW pc, NEW n, pc # "wait", thr' = [thr EXCEPT ![t].pc = pc, ![t].node = n],
             UNCHANGED <<api, grunning, drunning>>
      PROVE  StopInv'
  <2> DEFINE q == [thr[t] EXCEPT !.pc = pc]
             r == [q EXCEPT !.node = n]
  <2>1. thr' = [thr EXCEPT ![t] = r]
    BY <1>3, Zenon
  <2>3. IsThread(q) /\ q.kind = thr[t].kind /\ q.pc = pc
    <3>1. q = [thr[t] EXCEPT !.pc = pc]
      OBVIOUS
    <3> HIDE DEF q
    <3> QED
      BY <1>0, <3>1, PcUpdate, SMT
  <2>2. IsThread(r) /\ r.kind = thr[t].kind /\ r.pc = pc
    <3>1. r = [q EXCEPT !.node = n]
      OBVIOUS
    <3> HIDE DEF q, r
    <3> QED
      BY <2>3, <3>1, NodeUpdate, SMT
  <2> HIDE DEF r
  <2> QED
    BY <1>3, <2>1, <2>2, OneThreadStep, Zenon
<1>4. CASE JoinMembers(t)
  <2>1. CASE GoTo(t, "route")
    BY <1>4, <2>1, GoToStep, Zenon DEF JoinMembers
  <2>2. CASE thr' = [thr EXCEPT ![t].pc = "select", ![t].node = NoNode]
    BY <1>4, <2>2, <1>3, Zenon DEF JoinMembers
  <2> QED
    BY <1>4, <2>1, <2>2, Zenon DEF JoinMembers
<1>5. CASE JoinRing(t)
  BY <1>5, <1>3, Zenon DEF JoinRing
<1>6. CASE Naps(t, "discovery", drunning)
  BY <1>6, GoToStep, Zenon DEF Naps, At, Runs
<1>7. ASSUME NEW n, Receives(t, n) PROVE StopInv'
  BY <1>7, <1>3, Zenon DEF Receives
<1> QED
  BY <1>1, <1>2, <1>4, <1>5, <1>6, <1>7, Zenon DEF DiscoveryStep

(* A wait ends, and time passes. *)
LEMMA TimeKeeps ==
  ASSUME StopInv, Tick \/ \E t \in DOMAIN thr : Wakes(t)
  PROVE  StopInv'
<1>1. CASE Tick
  <2> DEFINE f == [t \in DOMAIN thr |->
                     IF At(t, "gossip", "tick") THEN [thr[t] EXCEPT !.lag = @ + 1] ELSE thr[t]]
  <2>1. thr' = [t \in DOMAIN thr |-> f[t]] /\ UNCHANGED <<api, grunning, drunning>>
    BY <1>1, Zenon DEF Tick
  <2>2. \A t \in DOMAIN thr : /\ IsThread(f[t]) /\ f[t].kind = thr[t].kind
                              /\ f[t].pc = thr[t].pc
    <3> TAKE t \in DOMAIN thr
    <3>1. IsThread(thr[t])
      BY Zenon DEF StopInv
    <3> QED
      BY <3>1, Zenon DEF IsThread
  <2> HIDE DEF f
  <2> QED
    BY <2>1, <2>2, ThreadsStep, Zenon
<1>2. ASSUME NEW t \in DOMAIN thr, Wakes(t) PROVE StopInv'
  BY <1>2, GoToStep, Zenon DEF Wakes
<1> QED
  BY <1>1, <1>2, Zenon

(* While mb_cluster_join or mb_cluster_leave waits for a thread it told to *)
(* stop, no thread of that kind sleeps out its interval (gossip.c          *)
(* mb_gossip_stop, discovery.c mb_discovery_stop).                         *)
THEOREM StopWakesAlways == Safe => []StopWakes
<1>1. StopInv /\ [Next]_vars => StopInv'
  <2> SUFFICES ASSUME StopInv, [Next]_vars PROVE StopInv'
    OBVIOUS
  <2>1. CASE Next
    BY <2>1, CallsKeep, GossipKeeps, DiscoveryKeeps, TimeKeeps, Zenon DEF Next
  <2>2. CASE UNCHANGED vars
    BY <2>2, Zenon DEF vars, StopInv, StopWakes
  <2> QED
    BY <2>1, <2>2, Zenon
<1>2. StopInv => StopWakes
  BY Zenon DEF StopInv
<1> QED
  BY <1>1, <1>2, InitStopInv, PTL DEF Safe
=============================================================================
