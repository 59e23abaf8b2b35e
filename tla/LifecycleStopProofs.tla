------------------------ MODULE LifecycleStopProofs -------------------------
(***************************************************************************)
(* Proofs about the teardown of a sock and of its endpoints, and about     *)
(* mb_term: a second invariant, which holds on top of that of              *)
(* LifecycleInv.                                                           *)
(***************************************************************************)
EXTENDS LifecycleInv, TLAPS

(* mb_term starts at slot 0, has closed the slots below its cursor, and no  *)
(* mb_socket can fill one of them again.                                    *)
Sweep ==
  /\ TermClosesAll
  /\ \A t \in Threads : pc[t] = "idle" => fd[t] = 0
  /\ \A t \in Threads : op[t] = "term" =>
       /\ flags # {}
       /\ \A f \in Fds : f < fd[t] \/ (f = fd[t] /\ pc[t] \notin TermPcs)
            => socks[f] = NULL

(* The part of mb_sock_stop that one thread only may run. *)
Body == {"st_eps", "st_base"}

(* A sock is STOPPING_EPS exactly while one thread tears it down. *)
Stops ==
  /\ \A t \in Threads : pc[t] \in Body => state[sk[t]] = "STOPPING_EPS"
  /\ \A t, u \in Threads : pc[t] \in Body /\ pc[u] \in Body /\ sk[t] = sk[u] => t = u
  /\ \A o \in Socks : state[o] = "STOPPING_EPS" =>
       \E t \in Threads : pc[t] \in Body /\ sk[t] = o
  /\ \A o \in Socks : alloc[o] # "live" => state[o] = "INIT"
  /\ \A t \in Threads : pc[t] = "cl_free" => state[sk[t]] = "INIT"

(* mb_global_create_ep while the endpoint is its own. *)
Making == {"ep_insert", "ep_discard"}

(* Who is responsible for the memory of an endpoint. *)
EpsKept ==
  \A e \in Eps :
    /\ epst[e] = "none" => epsock[e] = NULL
    /\ epst[e] = "private" =>
         \E t \in Threads : pc[t] \in Making /\ myep[t] = e /\ sk[t] = epsock[e]
    /\ epst[e] = "listed" => epsock[e] \in Socks /\ state[epsock[e]] = "ACTIVE"
    /\ epst[e] = "spliced" =>
         \E t \in Threads : pc[t] = "st_eps" /\ sk[t] = epsock[e]

(* What mb_global_create_ep knows of the endpoint it has made. *)
Owners ==
  /\ \A t \in Threads : pc[t] \in Making =>
       epst[myep[t]] = "private" /\ epsock[myep[t]] = sk[t]
  /\ \A t, u \in Threads : pc[t] \in Making /\ pc[u] \in Making /\ myep[t] = myep[u]
       => t = u
  /\ \A t \in Threads : pc[t] = "ep_start" /\ Published(sk[t]) =>
       epst[myep[t]] = "listed" /\ epsock[myep[t]] = sk[t]

Shutting(t) == pc[t] \in StopPcs /\ op[t] = "shutdown"

(* Past its wait, the mb_shutdown of a published sock is its only user. *)
Alone ==
  \A t \in Threads :
    /\ pc[t] = "sd_wait" \/ Shutting(t) => stopping[sk[t]]
    /\ Shutting(t) /\ Published(sk[t]) =>
         \A u \in Threads : /\ Holding(u) /\ sk[u] = sk[t] => u = t
                            /\ osk[u] # sk[t]

SInv == Sweep /\ Stops /\ EpsKept /\ Owners /\ Alone

-----------------------------------------------------------------------------
(* What the actions of a thread leave alone. *)

TearPcs == Body \cup Making \cup {"cl_free", "ep_start"}

Others(t) ==
  \A u \in Threads \ {t} :
    /\ pc'[u] = pc[u] /\ op'[u] = op[u] /\ sk'[u] = sk[u]
    /\ osk'[u] = osk[u] /\ fd'[u] = fd[u] /\ myep'[u] = myep[u]

(* No step of a teardown or of the creation of an endpoint. *)
Still(t) ==
  /\ UNCHANGED <<alloc, state, epst, epsock>>
  /\ pc[t] \notin TearPcs /\ pc'[t] \notin TearPcs

(* No step of the loop of mb_term, no socket is published. *)
Kept(t) ==
  /\ flags' = flags
  /\ \A f \in Fds : socks'[f] \in {socks[f], NULL}
  /\ op'[t] = "term" => /\ op[t] = "term" /\ fd'[t] = fd[t]
                        /\ pc[t] \notin TermPcs /\ pc'[t] \notin TermPcs
  /\ pc'[t] = "idle" => fd'[t] = 0 \/ (pc[t] = "idle" /\ fd'[t] = fd[t])

(* The steps of a teardown or of the creation of an endpoint. *)
TearAction(t) ==
  \/ (\E o \in Socks : MbSocket(t, o))
  \/ CloseFree(t) \/ StopBegin(t) \/ StopEpsDone(t) \/ StopBase(t)
  \/ EpInsert(t) \/ EpDiscard(t) \/ EpStart(t)
  \/ \E e \in Eps : StopEp(t, e) \/ EpInit(t, e)

(* The steps of mb_term, and mb_socket. *)
SweepAction(t) ==
  \/ (\E o \in Socks : MbSocket(t, o))
  \/ MbTerm(t) \/ TermSlot(t) \/ TermCloseFails(t) \/ TermClose(t)
  \/ TermEnd(t) \/ CloseTerm(t)

(* A step changes the locals of its own thread only, and the teardown, the  *)
(* endpoints and the sweep of mb_term only where it belongs to them.        *)
LEMMA Effects ==
  ASSUME IInv, NEW t \in Threads, Begin(t) \/ Step(t)
  PROVE  /\ Others(t)
         /\ Still(t) \/ TearAction(t)
         /\ Kept(t) \/ SweepAction(t)
<1>d. /\ socks \in [Fds -> Socks \cup {NULL}]
      /\ pc \in [Threads -> Pcs] /\ op \in [Threads -> AllOps \cup {"none"}]
      /\ sk \in [Threads -> Socks \cup {NULL}] /\ osk \in [Threads -> Socks \cup {NULL}]
      /\ fd \in [Threads -> 0 .. MAX_SOCKETS] /\ myep \in [Threads -> Eps \cup {NULL}]
      /\ Frames
  BY Zenon DEF IInv, Typing
<1> USE <1>d DEF Others, Still, Kept, TearPcs, Body, Making, TermPcs, ClosePcs, StopPcs, CoroPcs,
             Frames, gvars, svars, evars, tvars
<1>1. MbSocketFails(t) => Others(t) /\ Still(t) /\ Kept(t)
  BY Zenon DEF MbSocketFails
<1>2. MbTerm(t) => Others(t) /\ Still(t)
  BY Zenon DEF MbTerm
<1>3. StartCrashes(t) => Others(t) /\ Still(t) /\ Kept(t)
  BY Zenon DEF StartCrashes, Crash
<1>4. TermSlot(t) => Others(t) /\ Still(t)
  BY Zenon DEF TermSlot, Goto
<1>5. TermCloseFails(t) => Others(t) /\ Still(t)
  BY Zenon DEF TermCloseFails, Goto
<1>6. TermClose(t) => Others(t) /\ Still(t)
  BY DEF TermClose, Unpublish, Goto
<1>7. TermEnd(t) => Others(t) /\ Still(t)
  BY DEF TermEnd, Return
<1>8. CloseFlag(t) => Others(t) /\ Still(t) /\ Kept(t)
  BY Zenon DEF CloseFlag, Goto
<1>9. CloseRele(t) => Others(t) /\ Still(t) /\ Kept(t)
  BY Zenon DEF CloseRele, Goto
<1>10. CloseWait(t) => Others(t) /\ Still(t) /\ Kept(t)
  BY Zenon DEF CloseWait, Goto
<1>11. CloseTerm(t) => Others(t) /\ Still(t)
  BY DEF CloseTerm, Goto, Return
<1>12. IoTry(t) => Others(t) /\ Still(t) /\ Kept(t)
  BY Zenon DEF IoTry, Goto
<1>13. IoAgain(t) => Others(t) /\ Still(t) /\ Kept(t)
  BY DEF IoAgain, Goto
<1>14. OptUse(t) => Others(t) /\ Still(t) /\ Kept(t)
  BY Zenon DEF OptUse, Goto
<1>15. Rele(t) => Others(t) /\ Still(t) /\ Kept(t)
  BY DEF Rele, Goto, Return
<1>16. CoroCall(t) => Others(t) /\ Still(t) /\ Kept(t)
  BY DEF CoroCall, Goto
<1>17. CoroCrashes(t) => Others(t) /\ Still(t) /\ Kept(t)
  BY Zenon DEF CoroCrashes, Crash
<1>18. CoroAgain(t) => Others(t) /\ Still(t) /\ Kept(t)
  BY DEF CoroAgain, Goto
<1>19. CoroRele(t) => Others(t) /\ Still(t) /\ Kept(t)
  BY DEF CoroRele, Return
<1>20. ShutdownFlag(t) => Others(t) /\ Still(t) /\ Kept(t)
  BY Zenon DEF ShutdownFlag, Goto
<1>21. ShutdownWait(t) => Others(t) /\ Still(t) /\ Kept(t)
  BY Zenon DEF ShutdownWait, Goto
<1>22. EpFails(t) => Others(t) /\ Still(t) /\ Kept(t)
  BY Zenon DEF EpFails, Goto
<1>23. CloseFree(t) => Others(t) /\ Kept(t)
  BY Zenon DEF CloseFree, Goto
<1>24. StopBegin(t) => Others(t) /\ Kept(t)
  BY Zenon DEF StopBegin, Goto
<1>25. StopEpsDone(t) => Others(t) /\ Kept(t)
  BY Zenon DEF StopEpsDone, Goto
<1>26. StopBase(t) => Others(t) /\ Kept(t)
  BY Zenon DEF StopBase, Goto
<1>27. EpInsert(t) => Others(t) /\ Kept(t)
  BY Zenon DEF EpInsert, Goto
<1>28. EpDiscard(t) => Others(t) /\ Kept(t)
  BY Zenon DEF EpDiscard, Goto
<1>29. EpStart(t) => Others(t) /\ Kept(t)
  BY Zenon DEF EpStart, Goto
<1>30. ASSUME NEW o \in Socks, MbSocket(t, o) PROVE Others(t)
  BY <1>30, Zenon DEF MbSocket
<1>31. ASSUME NEW s \in Fds, MbClose(t, s) PROVE Others(t) /\ Still(t) /\ Kept(t)
  BY <1>31, Zenon DEF MbClose, Unpublish, Goto
<1>32. ASSUME NEW c \in {"io", "coro", "ep", "opt", "shutdown"}, NEW s \in Fds,
              NEW n \in Timeouts, StartCall(t, c, s, n)
       PROVE  Others(t) /\ Still(t) /\ Kept(t)
  BY <1>32, Zenon DEF StartCall, Goto, Entry
<1>33. ASSUME NEW e \in Eps, StopEp(t, e) PROVE Others(t) /\ Kept(t)
  BY <1>33, Zenon DEF StopEp
<1>34. ASSUME NEW e \in Eps, EpInit(t, e) PROVE Others(t) /\ Kept(t)
  BY <1>34, Zenon DEF EpInit, Goto
<1> HIDE <1>d DEF Others, Still, Kept, TearPcs, Body, Making, TermPcs, ClosePcs, StopPcs, CoroPcs,
             Frames, gvars, svars, evars, tvars
<1> QED
  BY <1>1, <1>2, <1>3, <1>4, <1>5, <1>6, <1>7, <1>8, <1>9, <1>10, <1>11,
     <1>12, <1>13, <1>14, <1>15, <1>16, <1>17, <1>18, <1>19, <1>20, <1>21,
     <1>22, <1>23, <1>24, <1>25, <1>26, <1>27, <1>28, <1>29, <1>30, <1>31,
     <1>32, <1>33, <1>34, Zenon DEF Begin, Step, TearAction, SweepAction

-----------------------------------------------------------------------------
(* mb_term *)

(* The cursor of an mb_term never passes a slot in use, and once one has    *)
(* begun no slot is filled.                                                 *)
LEMMA SweepStep ==
  ASSUME IInv, CountFacts, Sweep, NEW t \in Threads, Begin(t) \/ Step(t)
  PROVE  Sweep'
<1>1. Typing /\ Frames /\ Others(t)
  BY Effects, Zenon DEF IInv
<1>n. ~ready => \A f \in Fds : socks[f] = NULL
  BY Zenon DEF CountFacts
<1>t. /\ pc \in [Threads -> Pcs] /\ op \in [Threads -> AllOps \cup {"none"}]
      /\ fd \in [Threads -> 0 .. MAX_SOCKETS] /\ socks \in [Fds -> Socks \cup {NULL}]
      /\ \A u \in Threads : fd[u] \in Int /\ (pc[u] # "tm_slot" => fd[u] \in Fds)
      /\ \A f \in Fds : f \in Int /\ f < MAX_SOCKETS
      /\ \A u \in Threads : pc[u] \in TermPcs => op[u] = "term"
  BY <1>1, LifecycleAssumption DEF Typing, Frames, Fds
<1>2. CASE Kept(t)
  BY <1>1, <1>2 DEF Kept, Others, Sweep, TermClosesAll
<1>3. ASSUME NEW o \in Socks, MbSocket(t, o) PROVE Sweep'
  <2>1. flags = {} /\ flags' = flags /\ op' = op /\ pc' = pc /\ fd' = fd
    BY <1>3, Zenon DEF MbSocket, tvars
  <2> QED
    BY <2>1, Zenon DEF Sweep, TermClosesAll
<1>4. CASE MbTerm(t)
  <2>1. /\ flags' = flags \cup {"TERMING"} /\ "TERMED" \notin flags
        /\ pc'[t] = "tm_slot" /\ fd' = fd /\ socks' = socks /\ fd[t] = 0
    BY <1>4, <1>t, Zenon DEF MbTerm, Sweep
  <2>2. \A f \in Fds : ~(f < fd'[t])
    BY <2>1 DEF Fds
  <2> QED
    BY <1>1, <1>4, <2>1, <2>2, Zenon DEF Sweep, TermClosesAll, TermPcs, Others
<1>5. CASE TermSlot(t) \/ TermCloseFails(t) \/ CloseTerm(t)
  <2>1. /\ flags' = flags /\ socks' = socks
        /\ pc'[t] = "idle" => fd'[t] = 0
        /\ op'[t] = "term" => /\ op[t] = "term" /\ pc'[t] \in TermPcs
                              /\ \/ fd'[t] = fd[t]
                                 \/ fd[t] \in Fds /\ fd'[t] = fd[t] + 1 /\ socks[fd[t]] = NULL
    <3>1. CASE TermSlot(t)
      BY <3>1, <1>1, <1>t, <1>n, LifecycleAssumption DEF TermSlot, Goto, TermPcs, gvars, Fds
    <3>2. CASE TermCloseFails(t)
      BY <3>2, <1>1, <1>t, <1>n, Zenon DEF TermCloseFails, Goto, TermPcs, gvars
    <3>3. CASE CloseTerm(t)
      BY <3>3, <1>t, Zenon DEF CloseTerm, Goto, Return, TermPcs, Sweep
    <3> QED
      BY <1>5, <3>1, <3>2, <3>3, Zenon
  <2>2. ASSUME op'[t] = "term", NEW f \in Fds,
               f < fd'[t] \/ (f = fd'[t] /\ pc'[t] \notin TermPcs)
        PROVE  socks'[f] = NULL
    BY <2>1, <2>2, <1>t DEF Sweep
  <2> QED
    BY <1>1, <2>1, <2>2 DEF Sweep, TermClosesAll, Others
<1>6. CASE TermClose(t)
  <2>1. /\ flags' = flags /\ socks' = [socks EXCEPT ![fd[t]] = NULL]
        /\ fd' = fd /\ op' = op /\ fd[t] \in Fds /\ pc'[t] # "idle"
    BY <1>6, <1>t, Zenon DEF TermClose, Unpublish, Goto
  <2> QED
    BY <1>1, <1>6, <1>t, <2>1 DEF Sweep, TermClosesAll, Others, TermClose
<1>7. CASE TermEnd(t)
  <2>1. op[t] = "term" /\ \A f \in Fds : socks[f] = NULL
    BY <1>7, <1>t, Zenon DEF TermEnd, TermPcs, Sweep
  <2>2. flags' = {"TERMED"} /\ socks' = socks /\ fd'[t] = 0 /\ op'[t] = "none"
    BY <1>7, <1>t, Zenon DEF TermEnd, Return
  <2> QED
    BY <1>1, <2>1, <2>2, Zenon DEF Sweep, TermClosesAll, Others
<1> QED
  BY <1>2, <1>3, <1>4, <1>5, <1>6, <1>7, Effects, Zenon DEF SweepAction

-----------------------------------------------------------------------------
(* mb_sock_stop *)

(* A thread in mb_sock_stop works on a live sock. *)
LEMMA StopperLive ==
  ASSUME IInv, CountFacts, NEW t \in Threads, pc[t] \in StopPcs \cup {"cl_free"}
  PROVE  /\ sk[t] \in Socks /\ alloc[sk[t]] = "live"
         /\ Holding(t) <=> Shutting(t)
         /\ InClose(t) <=> ~Shutting(t)
<1>1. /\ Holding(t) <=> Shutting(t)
      /\ InClose(t) <=> ~Shutting(t)
  BY Zenon DEF Holding, InClose, Shutting, HoldPcs, StopPcs, ClosePcs
<1> QED
  BY <1>1, Zenon DEF IInv, Frames, CountFacts, NoUseAfterFree

(* Two threads never both run the body of mb_sock_stop on one sock, and the *)
(* thread of mb_close finds no other one there.                             *)
LEMMA StopsStep ==
  ASSUME IInv, CountFacts, Stops, NEW t \in Threads, Begin(t) \/ Step(t)
  PROVE  Stops'
<1>1. Typing /\ Frames /\ RefCount /\ Others(t)
  BY Effects, Zenon DEF IInv
<1>t. /\ pc \in [Threads -> Pcs] /\ sk \in [Threads -> Socks \cup {NULL}]
      /\ alloc \in [Socks -> {"none", "live", "freed"}]
      /\ state \in [Socks -> {"INIT", "ACTIVE", "STOPPING_EPS"}]
  BY <1>1, Zenon DEF Typing
<1>s. \A u \in Threads : pc[u] \in Body \cup {"cl_free"} =>
        sk[u] \in Socks /\ alloc[sk[u]] = "live"
  BY StopperLive, Zenon DEF Body, StopPcs
<1>2. CASE Still(t)
  BY <1>1, <1>2 DEF Still, TearPcs, Others, Stops
<1>3. CASE EpInsert(t) \/ EpDiscard(t) \/ EpStart(t) \/ (\E e \in Eps : EpInit(t, e))
  <2>1. /\ UNCHANGED <<state, alloc, sk>>
        /\ pc[t] \notin Body \cup {"cl_free"} /\ pc'[t] \notin Body \cup {"cl_free"}
    BY <1>3, <1>t, Zenon DEF EpInsert, EpDiscard, EpStart, EpInit, Goto, Body, svars
  <2> QED
    BY <1>1, <2>1 DEF Others, Stops
<1>4. CASE (\E e \in Eps : StopEp(t, e)) \/ StopEpsDone(t)
  <2>1. /\ UNCHANGED <<state, alloc, sk>>
        /\ pc[t] = "st_eps" /\ pc'[t] \in Body
    BY <1>4, <1>t, Zenon DEF StopEp, StopEpsDone, Goto, Body, svars, tvars
  <2> QED
    BY <1>1, <2>1 DEF Others, Stops, Body
<1>5. ASSUME NEW o \in Socks, MbSocket(t, o) PROVE Stops'
  <2>1. /\ alloc[o] = "none" /\ alloc' = [alloc EXCEPT ![o] = "live"]
        /\ state' = [state EXCEPT ![o] = "ACTIVE"] /\ UNCHANGED <<pc, sk>>
    BY <1>5, Zenon DEF MbSocket, CreateSocket, tvars
  <2> QED
    BY <1>s, <1>t, <2>1 DEF Stops
<1>6. CASE CloseFree(t)
  <2>1. /\ alloc' = [alloc EXCEPT ![sk[t]] = "freed"] /\ state' = state
        /\ pc[t] = "cl_free" /\ pc'[t] = "cl_term"
    BY <1>6, <1>t, Zenon DEF CloseFree, Goto
  <2> QED
    BY <1>1, <1>s, <1>t, <2>1 DEF Others, Stops, Body
<1>7. CASE StopBegin(t)
  <2>0. pc[t] = "st_begin" /\ alloc' = alloc /\ sk' = sk
    BY <1>7, Zenon DEF StopBegin
  <2>s. sk[t] \in Socks /\ alloc[sk[t]] = "live"
    BY <2>0, StopperLive, Zenon DEF StopPcs
  <2>1. CASE state[sk[t]] = "ACTIVE"
    <3>1. pc'[t] = "st_eps" /\ state' = [state EXCEPT ![sk[t]] = "STOPPING_EPS"]
      BY <1>7, <1>t, <2>1, Zenon DEF StopBegin, Goto
    <3> QED
      BY <1>1, <1>t, <2>0, <2>s, <2>1, <3>1 DEF Others, Stops, Body
  <2>2. CASE state[sk[t]] # "ACTIVE"
    <3>1. /\ pc'[t] = IF op[t] = "shutdown" THEN "rele" ELSE "cl_free"
          /\ state' = state
      BY <1>7, <1>t, <2>2, Zenon DEF StopBegin, Goto
    <3>2. op[t] # "shutdown" => state[sk[t]] = "INIT"
      <4>1. SUFFICES ASSUME op[t] # "shutdown", state[sk[t]] = "STOPPING_EPS" PROVE FALSE
        BY <1>t, <2>s, <2>2, Zenon
      <4>2. PICK u \in Threads : pc[u] \in Body /\ sk[u] = sk[t]
        BY <2>s, <4>1, Zenon DEF Stops
      <4>3. InClose(t) /\ pc[t] \in StopPcs
        BY <2>0, <4>1, Zenon DEF InClose, StopPcs
      <4>4. Holders(sk[t]) = {} /\ (InClose(u) => u = t)
        BY <1>1, <2>s, <4>2, <4>3, Zenon DEF RefCount
      <4>5. u # t /\ (InClose(u) \/ Holding(u))
        BY <2>0, <4>2, Zenon DEF Body, InClose, Holding, StopPcs
      <4>6. <<u, "sk">> \in Holders(sk[t])
        BY <4>2, <4>4, <4>5, Zenon DEF Holders
      <4> QED
        BY <4>4, <4>6, Zenon
    <3> QED
      BY <1>1, <2>0, <3>1, <3>2 DEF Others, Stops, Body
  <2> QED
    BY <2>1, <2>2, Zenon
<1>8. CASE StopBase(t)
  <2>1. /\ pc[t] = "st_base" /\ alloc' = alloc /\ sk' = sk
        /\ state' = [state EXCEPT ![sk[t]] = "INIT"]
        /\ pc'[t] \in {"rele", "cl_free"}
    BY <1>8, <1>t, Zenon DEF StopBase, Goto
  <2> QED
    BY <1>1, <1>s, <1>t, <2>1 DEF Others, Stops, Body
<1> QED
  BY <1>2, <1>3, <1>4, <1>5, <1>6, <1>7, <1>8, Effects, Zenon DEF TearAction

-----------------------------------------------------------------------------
(* mb_shutdown *)

(* The steps at which a frame takes a reference, and those before and in    *)
(* the teardown of an mb_shutdown.                                          *)
AloneAction(t) ==
  \/ (\E o \in Socks : MbSocket(t, o)) \/ CoroCall(t)
  \/ (\E c \in {"io", "coro", "ep", "opt", "shutdown"}, s \in Fds, n \in Timeouts :
        StartCall(t, c, s, n))
  \/ ShutdownFlag(t) \/ ShutdownWait(t)

(* What the other steps do: no frame comes to hold a sock, no sock is       *)
(* published, and an mb_shutdown goes on in its teardown or returns.        *)
Loosens(t) ==
  /\ Holding(t)' => Holding(t) /\ sk'[t] = sk[t]
  /\ osk'[t] \in {osk[t], NULL}
  /\ \A f \in Fds : socks'[f] \in {socks[f], NULL}
  /\ \A o \in Socks : stopping[o] => stopping'[o]
  /\ pc'[t] # "sd_wait" /\ (Shutting(t)' => Shutting(t) /\ sk'[t] = sk[t])

(* Every step is of one kind or the other. *)
LEMMA LoosensOr ==
  ASSUME IInv, NEW t \in Threads, Begin(t) \/ Step(t)
  PROVE  Loosens(t) \/ AloneAction(t)
<1>d. /\ socks \in [Fds -> Socks \cup {NULL}] /\ stopping \in [Socks -> BOOLEAN]
      /\ pc \in [Threads -> Pcs] /\ op \in [Threads -> AllOps \cup {"none"}]
      /\ sk \in [Threads -> Socks \cup {NULL}] /\ osk \in [Threads -> Socks \cup {NULL}]
      /\ Frames
  BY Zenon DEF IInv, Typing
<1> USE <1>d DEF Loosens, Shutting, Holding, HoldPcs, StopPcs, ClosePcs, CoroPcs,
                 TermPcs, Frames, gvars, svars, evars, tvars
<1>1. MbSocketFails(t) => Loosens(t)
  BY Zenon DEF MbSocketFails
<1>2. MbTerm(t) => Loosens(t)
  BY Zenon DEF MbTerm
<1>3. StartCrashes(t) => Loosens(t)
  BY Zenon DEF StartCrashes, Crash
<1>4. TermSlot(t) => Loosens(t)
  BY Zenon DEF TermSlot, Goto
<1>5. TermCloseFails(t) => Loosens(t)
  BY Zenon DEF TermCloseFails, Goto
<1>6. TermClose(t) => Loosens(t)
  BY DEF TermClose, Unpublish, Goto
<1>7. TermEnd(t) => Loosens(t)
  BY Zenon DEF TermEnd, Return
<1>8. CloseFlag(t) => Loosens(t)
  BY Zenon DEF CloseFlag, Goto
<1>9. CloseRele(t) => Loosens(t)
  BY Zenon DEF CloseRele, Goto
<1>10. CloseWait(t) => Loosens(t)
  BY Zenon DEF CloseWait, Goto
<1>11. CloseTerm(t) => Loosens(t)
  BY DEF CloseTerm, Goto, Return
<1>12. IoTry(t) => Loosens(t)
  BY Zenon DEF IoTry, Goto
<1>13. IoAgain(t) => Loosens(t)
  BY Zenon DEF IoAgain, Goto
<1>14. OptUse(t) => Loosens(t)
  BY Zenon DEF OptUse, Goto
<1>15. Rele(t) => Loosens(t)
  BY DEF Rele, Goto, Return
<1>16. CoroCrashes(t) => Loosens(t)
  BY Zenon DEF CoroCrashes, Crash
<1>17. CoroAgain(t) => Loosens(t)
  BY Zenon DEF CoroAgain, Goto
<1>18. CoroRele(t) => Loosens(t)
  BY Zenon DEF CoroRele, Return
<1>19. EpFails(t) => Loosens(t)
  BY Zenon DEF EpFails, Goto
<1>20. CloseFree(t) => Loosens(t)
  BY Zenon DEF CloseFree, Goto
<1>21. StopBegin(t) => Loosens(t)
  BY DEF StopBegin, Goto
<1>22. StopEpsDone(t) => Loosens(t)
  BY Zenon DEF StopEpsDone, Goto
<1>23. StopBase(t) => Loosens(t)
  BY Zenon DEF StopBase, Goto
<1>24. EpInsert(t) => Loosens(t)
  BY Zenon DEF EpInsert, Goto
<1>25. EpDiscard(t) => Loosens(t)
  BY Zenon DEF EpDiscard, Goto
<1>26. EpStart(t) => Loosens(t)
  BY Zenon DEF EpStart, Goto
<1>31. ASSUME NEW s \in Fds, MbClose(t, s) PROVE Loosens(t)
  BY <1>31, Zenon DEF MbClose, Unpublish, Goto
<1>33. ASSUME NEW e \in Eps, StopEp(t, e) PROVE Loosens(t)
  BY <1>33, Zenon DEF StopEp
<1>34. ASSUME NEW e \in Eps, EpInit(t, e) PROVE Loosens(t)
  BY <1>34, Zenon DEF EpInit, Goto
<1> HIDE <1>d DEF Loosens, Shutting, Holding, HoldPcs, StopPcs, ClosePcs, CoroPcs,
                 TermPcs, Frames, gvars, svars, evars, tvars
<1> QED
  BY <1>1, <1>2, <1>3, <1>4, <1>5, <1>6, <1>7, <1>8, <1>9, <1>10, <1>11,
     <1>12, <1>13, <1>14, <1>15, <1>16, <1>17, <1>18, <1>19, <1>20, <1>21, <1>22,
     <1>23, <1>24, <1>25, <1>26, <1>31,
     <1>33, <1>34, Zenon DEF Begin, Step, AloneAction

(* Only the frames of one thread hold a published sock that mb_shutdown     *)
(* tears down: it has waited for the others, and stopping keeps new ones    *)
(* away.                                                                    *)
LEMMA AloneStep ==
  ASSUME IInv, CountFacts, Alone, NEW t \in Threads, TableMoves(t),
         Begin(t) \/ Step(t)
  PROVE  Alone'
<1>1. Typing /\ Frames /\ RefCount /\ Others(t)
  BY Effects, Zenon DEF IInv
<1>t. /\ pc \in [Threads -> Pcs] /\ sk \in [Threads -> Socks \cup {NULL}]
      /\ op \in [Threads -> AllOps \cup {"none"}]
      /\ osk \in [Threads -> Socks \cup {NULL}] /\ stopping \in [Socks -> BOOLEAN]
      /\ socks \in [Fds -> Socks \cup {NULL}]
  BY <1>1, Zenon DEF Typing
<1>s. \A u \in Threads : pc[u] = "sd_wait" \/ Shutting(u) => Holding(u) /\ sk[u] \in Socks
  BY <1>1, Zenon DEF Shutting, Holding, HoldPcs, Frames
<1>o. \A u \in Threads \ {t} : /\ Shutting(u)' <=> Shutting(u)
                               /\ Holding(u)' <=> Holding(u)
  BY <1>1, Zenon DEF Others, Shutting, Holding
<1>2. CASE Loosens(t)
  <2>1. \A o \in Socks : Published(o)' => Published(o)
    BY <1>2, LifecycleAssumption, Zenon DEF Loosens, Published
  <2> QED
    BY <1>1, <1>2, <1>s, <1>o, <2>1, LifecycleAssumption DEF Loosens, Others, Alone
<1>3. ASSUME NEW o \in Socks, MbSocket(t, o) PROVE Alone'
  <2>1. PICK s \in Fds : socks' = [socks EXCEPT ![s] = o]
    BY <1>3, Zenon DEF TableMoves
  <2>2. /\ alloc[o] = "none" /\ stopping' = [stopping EXCEPT ![o] = FALSE]
        /\ UNCHANGED <<pc, op, sk, osk>>
    BY <1>3, Zenon DEF MbSocket, CreateSocket, tvars
  <2>3. \A u \in Threads : Holding(u) => sk[u] # o
    BY <2>2, Zenon DEF CountFacts, NoUseAfterFree
  <2>4. \A u \in Threads : /\ Shutting(u)' <=> Shutting(u)
                           /\ Holding(u)' <=> Holding(u)
    BY <2>2, Zenon DEF Shutting, Holding
  <2>5. \A p \in Socks \ {o} : Published(p)' => Published(p)
    BY <1>t, <2>1, Zenon DEF Published
  <2> QED
    BY <1>s, <1>t, <2>2, <2>3, <2>4, <2>5, Zenon DEF Alone
<1>4. ASSUME NEW c \in {"io", "coro", "ep", "opt", "shutdown"}, NEW s \in Fds,
             NEW n \in Timeouts, StartCall(t, c, s, n)
      PROVE  Alone'
  <2>1. /\ socks[s] \in Socks /\ ~stopping[socks[s]] /\ UNCHANGED <<socks, stopping>>
        /\ \/ sk'[t] = socks[s] /\ osk'[t] = osk[t]
           \/ sk'[t] = sk[t] /\ osk'[t] = socks[s]
        /\ pc[t] = "idle" /\ osk[t] = NULL
        /\ pc'[t] = Entry(c)
    BY <1>4, <1>t, <1>1, Zenon DEF StartCall, CanHold, Goto, gvars, Frames
  <2>2. /\ pc'[t] # "sd_wait" /\ ~Shutting(t)' /\ ~Shutting(t)
        /\ c = "coro" => ~Holding(t)'
        /\ c # "coro" => sk'[t] = socks[s] /\ osk'[t] = osk[t]
    BY <1>4, <1>t, <2>1, Zenon DEF StartCall, Entry, Shutting, Holding, HoldPcs, StopPcs
  <2>4. \A u \in Threads : Shutting(u) => sk[u] # socks[s]
    BY <2>1, Zenon DEF Alone
  <2>5. ASSUME NEW u \in Threads PROVE pc'[u] = "sd_wait" \/ Shutting(u)' => stopping'[sk'[u]]
    BY <1>1, <1>o, <2>1, <2>2, Zenon DEF Alone, Others
  <2>6. ASSUME NEW u \in Threads, Shutting(u)', Published(sk[u])', NEW v \in Threads
        PROVE  (Holding(v)' /\ sk'[v] = sk'[u] => v = u) /\ osk'[v] # sk'[u]
    <3>1. u # t /\ Shutting(u) /\ sk'[u] = sk[u] /\ Published(sk[u])
      BY <1>1, <1>o, <2>1, <2>2, <2>6, Zenon DEF Others, Published
    <3>2. sk[u] # socks[s] /\ sk[u] # NULL
      BY <1>s, <2>4, <3>1, LifecycleAssumption, Zenon
    <3>3. CASE v # t
      BY <1>1, <1>o, <3>1, <3>3 DEF Others, Alone
    <3>4. CASE v = t
      BY <2>1, <2>2, <3>1, <3>2, <3>4, Zenon
    <3> QED
      BY <3>3, <3>4, Zenon
  <2> QED
    BY <2>5, <2>6, Zenon DEF Alone
<1>5. CASE CoroCall(t)
  <2>1. /\ UNCHANGED <<socks, stopping, osk, op>> /\ pc[t] = "coro_call"
        /\ pc'[t] \in {"io_try", "coro_rele"}
        /\ pc'[t] = "io_try" => /\ socks[fd[t]] # NULL /\ ~stopping[socks[fd[t]]]
                                /\ sk'[t] = socks[fd[t]]
    BY <1>5, <1>t, Zenon DEF CoroCall, CanHold, Goto, gvars
  <2>2. /\ ~Shutting(t)' /\ pc'[t] # "sd_wait" /\ ~Shutting(t)
        /\ Holding(t)' => pc'[t] = "io_try"
    BY <2>1, Zenon DEF Shutting, Holding, StopPcs, HoldPcs
  <2>4. ASSUME NEW u \in Threads PROVE pc'[u] = "sd_wait" \/ Shutting(u)' => stopping'[sk'[u]]
    BY <1>1, <1>o, <2>1, <2>2, Zenon DEF Alone, Others
  <2>5. ASSUME NEW u \in Threads, Shutting(u)', Published(sk[u])', NEW v \in Threads
        PROVE  (Holding(v)' /\ sk'[v] = sk'[u] => v = u) /\ osk'[v] # sk'[u]
    <3>1. u # t /\ Shutting(u) /\ sk'[u] = sk[u] /\ Published(sk[u])
      BY <1>1, <1>o, <2>1, <2>2, <2>5, Zenon DEF Others, Published
    <3>2. CASE v # t
      BY <1>1, <1>o, <3>1, <3>2 DEF Others, Alone
    <3>3. CASE v = t
      BY <2>1, <2>2, <3>1, <3>3, Zenon DEF Alone
    <3> QED
      BY <3>2, <3>3, Zenon
  <2> QED
    BY <2>4, <2>5, Zenon DEF Alone
<1>6. CASE ShutdownFlag(t)
  <2>1. /\ UNCHANGED <<socks, osk, op, sk>> /\ pc[t] = "sd_flag" /\ sk[t] \in Socks
        /\ pc'[t] \in {"rele", "sd_wait"} /\ stopping' = [stopping EXCEPT ![sk[t]] = TRUE]
    BY <1>6, <1>t, <1>1, Zenon DEF ShutdownFlag, Goto, gvars, Frames, Holding, HoldPcs
  <2>2. ~Shutting(t)' /\ Holding(t)
    BY <2>1, Zenon DEF Shutting, StopPcs, Holding, HoldPcs
  <2>3. \A o : Published(o)' <=> Published(o)
    BY <2>1, Zenon DEF Published
  <2> QED
    BY <1>1, <1>t, <1>s, <1>o, <2>1, <2>2, <2>3 DEF Alone, Others
<1>7. CASE ShutdownWait(t)
  <2>1. /\ UNCHANGED <<socks, osk, op, sk, stopping>> /\ pc[t] = "sd_wait"
        /\ pc'[t] = "st_begin" /\ ~(holds[sk[t]] > 3)
    BY <1>7, <1>t, Zenon DEF ShutdownWait, Goto, gvars, svars
  <2>2. \A u \in Threads : Published(sk[u])' <=> Published(sk[u])
    BY <2>1, Zenon DEF Published
  <2>3. PICK o \in Socks : o = sk[t] /\ <<t, "sk">> \in Holders(o)
    BY <1>s, <2>1, Zenon DEF Holders
  <2>4. Published(o) => Holders(o) = {<<t, "sk">>}
    BY <2>1, <2>3, Zenon DEF CountFacts, CallFrames
  <2>5. ASSUME Published(sk[t]), NEW u \in Threads
        PROVE  (Holding(u) /\ sk[u] = sk[t] => u = t) /\ osk[u] # sk[t]
    <3>1. Holding(u) /\ sk[u] = sk[t] => <<u, "sk">> \in Holders(o)
      BY <2>3, Zenon DEF Holders
    <3>2. osk[u] = sk[t] => <<u, "osk">> \in Holders(o)
      BY <2>3, Zenon DEF Holders
    <3> QED
      BY <2>3, <2>4, <2>5, <3>1, <3>2, Zenon
  <2>6. Holding(t) /\ (Holding(t)' <=> Holding(t))
    BY <1>1, <2>1, Zenon DEF Holding, HoldPcs, StopPcs, Frames
  <2> QED
    BY <1>1, <1>o, <2>1, <2>2, <2>5, <2>6 DEF Alone, Others
<1> QED
  BY <1>2, <1>3, <1>4, <1>5, <1>6, <1>7, LoosensOr, Zenon DEF AloneAction

-----------------------------------------------------------------------------
(* The endpoints *)

(* An endpoint is always in the care of one thread or of a socket that is   *)
(* neither being torn down nor gone.                                        *)
LEMMA EpsStep ==
  ASSUME IInv, SInv, NEW t \in Threads, Begin(t) \/ Step(t)
  PROVE  EpsKept'
<1>1. /\ Typing /\ Frames /\ RefCount /\ Others(t)
      /\ EpsKept /\ Owners /\ Stops
  BY Effects, Zenon DEF IInv, SInv
<1>t. /\ pc \in [Threads -> Pcs] /\ sk \in [Threads -> Socks \cup {NULL}]
      /\ myep \in [Threads -> Eps \cup {NULL}]
      /\ epst \in [Eps -> {"none", "private", "listed", "spliced", "freed"}]
      /\ epsock \in [Eps -> Socks \cup {NULL}]
      /\ state \in [Socks -> {"INIT", "ACTIVE", "STOPPING_EPS"}]
  BY <1>1, Zenon DEF Typing
<1>2. CASE Still(t)
  BY <1>1, <1>2 DEF Still, TearPcs, Others, EpsKept, Body
<1>3. CASE CloseFree(t) \/ EpStart(t)
  <2>1. /\ UNCHANGED <<epst, epsock, state>>
        /\ pc[t] \notin Making \cup Body /\ pc'[t] \notin Making \cup Body
    BY <1>3, <1>t, Zenon DEF CloseFree, EpStart, Goto, Making, Body, evars, svars
  <2> QED
    BY <1>1, <2>1 DEF Others, EpsKept, Body
<1>4. ASSUME NEW o \in Socks, MbSocket(t, o) PROVE EpsKept'
  <2>1. /\ alloc[o] = "none" /\ state' = [state EXCEPT ![o] = "ACTIVE"]
        /\ UNCHANGED <<pc, sk, myep, epst, epsock>>
    BY <1>4, Zenon DEF MbSocket, CreateSocket, tvars, evars
  <2> QED
    BY <1>1, <1>t, <2>1 DEF EpsKept
<1>5. CASE StopBegin(t)
  <2>0. pc[t] = "st_begin" /\ UNCHANGED <<sk, epsock, myep>>
    BY <1>5, Zenon DEF StopBegin
  <2>1. CASE state[sk[t]] = "ACTIVE"
    <3>1. /\ pc'[t] = "st_eps" /\ state' = [state EXCEPT ![sk[t]] = "STOPPING_EPS"]
          /\ epst' = [e \in Eps |-> IF epst[e] = "listed" /\ epsock[e] = sk[t]
                                    THEN "spliced" ELSE epst[e]]
      BY <1>5, <1>t, <2>1, Zenon DEF StopBegin, Goto
    <3> QED
      BY <1>1, <1>t, <2>0, <3>1 DEF Others, EpsKept, Making
  <2>2. CASE state[sk[t]] # "ACTIVE"
    <3>1. UNCHANGED <<state, epst>> /\ pc'[t] \in {"rele", "cl_free"}
      BY <1>5, <1>t, <2>2, Zenon DEF StopBegin, Goto
    <3> QED
      BY <1>1, <2>0, <3>1 DEF Others, EpsKept, Making
  <2> QED
    BY <2>1, <2>2, Zenon
<1>6. ASSUME NEW e \in Eps, StopEp(t, e) PROVE EpsKept'
  <2>1. /\ epst' = [epst EXCEPT ![e] = "freed"]
        /\ UNCHANGED <<pc, sk, myep, epsock, state>>
    BY <1>6, Zenon DEF StopEp, svars, tvars
  <2> QED
    BY <1>1, <1>t, <2>1 DEF EpsKept
<1>7. CASE StopEpsDone(t)
  <2>1. /\ UNCHANGED <<sk, myep, epst, epsock, state>> /\ pc[t] = "st_eps"
        /\ pc'[t] = "st_base"
        /\ \A e \in Eps : ~(epst[e] = "spliced" /\ epsock[e] = sk[t])
    BY <1>7, <1>t, Zenon DEF StopEpsDone, Spliced, Goto, svars, evars
  <2> QED
    BY <1>1, <2>1 DEF Others, EpsKept, Making
<1>8. CASE StopBase(t)
  <2>1. /\ UNCHANGED <<sk, myep, epst, epsock>> /\ pc[t] = "st_base"
        /\ state' = [state EXCEPT ![sk[t]] = "INIT"]
        /\ pc'[t] \in {"rele", "cl_free"}
    BY <1>8, <1>t, Zenon DEF StopBase, Goto, evars
  <2>2. state[sk[t]] = "STOPPING_EPS"
    BY <1>1, <2>1, Zenon DEF Stops, Body
  <2> QED
    BY <1>1, <1>t, <2>1, <2>2 DEF Others, EpsKept, Making
<1>9. ASSUME NEW e \in Eps, EpInit(t, e) PROVE EpsKept'
  <2>1. /\ pc[t] = "ep_check" /\ pc'[t] = "ep_insert" /\ sk' = sk /\ state' = state
        /\ epst' = [epst EXCEPT ![e] = "private"]
        /\ epsock' = [epsock EXCEPT ![e] = sk[t]] /\ myep'[t] = e
    BY <1>9, <1>t, Zenon DEF EpInit, Goto, svars
  <2> QED
    BY <1>1, <1>t, <2>1 DEF Others, EpsKept, Making
<1>10. CASE EpInsert(t)
  <2>0. /\ pc[t] = "ep_insert" /\ UNCHANGED <<sk, myep, epsock, state>>
        /\ Holding(t) /\ sk[t] \in Socks /\ myep[t] \in Eps /\ epsock[myep[t]] = sk[t]
    BY <1>10, <1>1, Zenon DEF EpInsert, svars, Holding, HoldPcs, Frames, Owners, Making
  <2>1. CASE epst' = epst /\ pc'[t] = "ep_discard"
    BY <1>1, <2>0, <2>1 DEF Others, EpsKept, Making
  <2>2. CASE /\ state[sk[t]] = "ACTIVE" /\ pc'[t] = "ep_start"
             /\ epst' = [epst EXCEPT ![myep[t]] = "listed"]
    BY <1>1, <1>t, <2>0, <2>2 DEF Others, EpsKept, Making
  <2> QED
    BY <1>10, <1>t, <2>1, <2>2, ZenonT(30) DEF EpInsert, Goto
<1>11. CASE EpDiscard(t)
  <2>1. /\ pc[t] = "ep_discard" /\ UNCHANGED <<sk, myep, epsock, state>>
        /\ pc'[t] = "rele" /\ epst' = [epst EXCEPT ![myep[t]] = "freed"]
        /\ myep[t] \in Eps
    BY <1>11, <1>t, <1>1, Zenon DEF EpDiscard, Goto, svars, Frames
  <2> QED
    BY <1>1, <1>t, <2>1 DEF Others, EpsKept, Making
<1> QED
  BY <1>2, <1>3, <1>4, <1>5, <1>6, <1>7, <1>8, <1>9, <1>10, <1>11, Effects, Zenon
  DEF TearAction

(* Nobody else touches an endpoint between its allocation and the return of *)
(* mb_global_create_ep while the sock is published.                         *)
LEMMA OwnersStep ==
  ASSUME IInv, CountFacts, SInv, NEW t \in Threads, TableMoves(t),
         Begin(t) \/ Step(t)
  PROVE  Owners'
<1>1. /\ Typing /\ Frames /\ RefCount /\ Others(t)
      /\ EpsKept /\ Owners /\ Stops /\ Alone
  BY Effects, Zenon DEF IInv, SInv
<1>t. /\ pc \in [Threads -> Pcs] /\ sk \in [Threads -> Socks \cup {NULL}]
      /\ myep \in [Threads -> Eps \cup {NULL}]
      /\ epst \in [Eps -> {"none", "private", "listed", "spliced", "freed"}]
      /\ epsock \in [Eps -> Socks \cup {NULL}]
      /\ \A u \in Threads : pc[u] \in Making \cup {"ep_start"} =>
           myep[u] \in Eps /\ Holding(u) /\ sk[u] \in Socks
  BY <1>1, Zenon DEF Typing, Frames, Making, Holding, HoldPcs
<1>p. (\E o \in Socks : MbSocket(t, o)) \/ \A o \in Socks : Published(o)' => Published(o)
  <2>1. CASE Kept(t)
    BY <2>1, LifecycleAssumption, Zenon DEF Kept, Published
  <2>2. CASE TermClose(t)
    <3>1. socks' = [socks EXCEPT ![fd[t]] = NULL]
      BY <2>2, Zenon DEF TermClose, Unpublish
    <3> QED
      BY <1>1, <3>1, LifecycleAssumption, Zenon DEF Published, Typing
  <2>3. CASE MbTerm(t) \/ TermSlot(t) \/ TermCloseFails(t) \/ TermEnd(t) \/ CloseTerm(t)
    BY <2>3, Zenon DEF MbTerm, TermSlot, TermCloseFails, TermEnd, CloseTerm, gvars, Published
  <2> QED
    BY <2>1, <2>2, <2>3, Effects, Zenon DEF SweepAction
<1>2. CASE Still(t) /\ \A o \in Socks : Published(o)' => Published(o)
  BY <1>1, <1>2, <1>t DEF Still, TearPcs, Others, Owners, Published
<1>3. CASE CloseFree(t) \/ EpStart(t) \/ StopEpsDone(t) \/ StopBase(t)
  <2>1. /\ UNCHANGED <<epst, epsock, socks>>
        /\ pc'[t] \notin Making \cup {"ep_start"}
    BY <1>3, <1>t, Zenon DEF CloseFree, EpStart, StopEpsDone, StopBase, Goto, Making, evars, gvars
  <2> QED
    BY <1>1, <2>1 DEF Others, Owners, Published
<1>4. ASSUME NEW o \in Socks, MbSocket(t, o) PROVE Owners'
  <2>1. PICK s \in Fds : socks' = [socks EXCEPT ![s] = o]
    BY <1>4, Zenon DEF TableMoves
  <2>2. alloc[o] = "none" /\ UNCHANGED <<pc, sk, myep, epst, epsock>>
    BY <1>4, Zenon DEF MbSocket, CreateSocket, tvars, evars
  <2>3. \A u \in Threads : pc[u] = "ep_start" => sk[u] # o
    BY <1>1, <1>t, <2>2, Zenon DEF CountFacts, NoUseAfterFree
  <2>4. \A u \in Threads : pc[u] = "ep_start" /\ Published(sk[u])' => Published(sk[u])
    BY <1>1, <2>1, <2>2, <2>3, Zenon DEF Published, Typing
  <2> QED
    BY <1>1, <2>2, <2>4, Zenon DEF Owners
<1>5. CASE StopBegin(t)
  <2>0. pc[t] = "st_begin" /\ UNCHANGED <<sk, epsock, myep, socks>>
        /\ pc'[t] \notin Making \cup {"ep_start"}
    BY <1>5, <1>t, Zenon DEF StopBegin, gvars, Goto, Making
  <2>1. \A e \in Eps : epst'[e] = epst[e] \/ (epst[e] = "listed" /\ epsock[e] = sk[t])
    BY <1>5, <1>t, Zenon DEF StopBegin
  <2>2. ASSUME NEW u \in Threads, pc[u] = "ep_start", Published(sk[u]) PROVE sk[u] # sk[t]
    <3>1. Shutting(t) \/ InClose(t)
      BY <2>0, Zenon DEF Shutting, InClose, StopPcs
    <3>2. CASE Shutting(t)
      BY <1>1, <1>t, <2>0, <2>2, <3>2, Zenon DEF Alone
    <3>3. CASE InClose(t)
      BY <1>1, <1>t, <2>2, <3>3, LifecycleAssumption DEF RefCount, Published
    <3> QED
      BY <3>1, <3>2, <3>3, Zenon
  <2> QED
    BY <1>1, <1>t, <2>0, <2>1, <2>2 DEF Others, Owners, Published
<1>6. ASSUME NEW e \in Eps, StopEp(t, e) PROVE Owners'
  <2>1. /\ epst' = [epst EXCEPT ![e] = "freed"] /\ epst[e] = "spliced"
        /\ UNCHANGED <<pc, sk, myep, epsock, socks>>
    BY <1>6, Zenon DEF StopEp, Spliced, gvars, tvars
  <2> QED
    BY <1>1, <1>t, <2>1, Zenon DEF Owners, Published
<1>9. ASSUME NEW e \in Eps, EpInit(t, e) PROVE Owners'
  <2>1. /\ pc[t] = "ep_check" /\ pc'[t] = "ep_insert" /\ sk' = sk /\ socks' = socks
        /\ epst' = [epst EXCEPT ![e] = "private"] /\ epst[e] = "none"
        /\ epsock' = [epsock EXCEPT ![e] = sk[t]] /\ myep'[t] = e
    BY <1>9, <1>t, Zenon DEF EpInit, Goto, gvars
  <2>2. \A u \in Threads \ {t} : pc[u] \in Making => myep[u] # e
    BY <1>1, <2>1, Zenon DEF Owners
  <2> QED
    BY <1>1, <1>t, <2>1, <2>2 DEF Others, Owners, Making, Published
<1>10. CASE EpInsert(t)
  <2>0. /\ pc[t] = "ep_insert" /\ UNCHANGED <<sk, myep, epsock, socks>> /\ myep[t] \in Eps
        /\ epst[myep[t]] = "private" /\ epsock[myep[t]] = sk[t]
        /\ \A u \in Threads \ {t} : pc[u] \in Making => myep[u] # myep[t]
    BY <1>10, <1>1, <1>t, Zenon DEF EpInsert, gvars, Owners, Making
  <2>1. CASE epst' = epst /\ pc'[t] = "ep_discard"
    BY <1>1, <2>0, <2>1 DEF Others, Owners, Making, Published
  <2>2. CASE pc'[t] = "ep_start" /\ epst' = [epst EXCEPT ![myep[t]] = "listed"]
    BY <1>1, <1>t, <2>0, <2>2 DEF Others, Owners, Making, Published
  <2> QED
    BY <1>10, <1>t, <2>1, <2>2, Zenon DEF EpInsert, Goto
<1>11. CASE EpDiscard(t)
  <2>1. /\ pc[t] = "ep_discard" /\ UNCHANGED <<sk, myep, epsock, socks>>
        /\ pc'[t] = "rele" /\ epst' = [epst EXCEPT ![myep[t]] = "freed"]
        /\ epst[myep[t]] = "private"
        /\ \A u \in Threads \ {t} : pc[u] \in Making => myep[u] # myep[t]
    BY <1>11, <1>t, <1>1, Zenon DEF EpDiscard, Goto, gvars, Owners, Making
  <2> QED
    BY <1>1, <1>t, <2>1 DEF Others, Owners, Making, Published
<1> QED
  BY <1>2, <1>3, <1>4, <1>5, <1>6, <1>9, <1>10, <1>11, <1>p, Effects, Zenon
  DEF TearAction

-----------------------------------------------------------------------------
(* The invariant *)

(* The invariant holds before the first call. *)
LEMMA InitSInv == Init => SInv
<1> SUFFICES ASSUME Init PROVE SInv
  BY Zenon
<1>1. Sweep
  BY Zenon DEF Init, Sweep, TermClosesAll
<1>2. Stops /\ EpsKept
  BY Zenon DEF Init, Stops, EpsKept, Body
<1>3. Owners /\ Alone
  BY Zenon DEF Init, Owners, Alone, Making, Shutting, StopPcs
<1> QED
  BY <1>1, <1>2, <1>3, Zenon DEF SInv

(* Every action of a thread preserves it. *)
LEMMA StopStep ==
  ASSUME IInv, CountFacts, SInv, NEW t \in Threads, TableMoves(t), Begin(t) \/ Step(t)
  PROVE  SInv'
<1>1. Sweep' /\ Stops' /\ Alone'
  BY SweepStep, StopsStep, AloneStep, Zenon DEF SInv
<1>2. EpsKept' /\ Owners'
  BY EpsStep, OwnersStep, Zenon
<1> QED
  BY <1>1, <1>2, Zenon DEF SInv

(* It speaks of the variables of the library only. *)
LEMMA StopStutter ==
  ASSUME SInv, UNCHANGED vars
  PROVE  SInv'
<1>1. /\ UNCHANGED gvars /\ UNCHANGED svars /\ UNCHANGED evars /\ UNCHANGED tvars
  BY Zenon DEF vars
<1>2. Sweep' /\ Stops'
  BY <1>1 DEF SInv, Sweep, TermClosesAll, Stops, gvars, svars, tvars
<1>3. EpsKept' /\ Owners'
  BY <1>1 DEF SInv, EpsKept, Owners, Published, gvars, svars, evars, tvars
<1>4. Alone'
  BY <1>1, Zenon DEF SInv, Alone, Shutting, Holding, Published, gvars, svars, tvars
<1> QED
  BY <1>2, <1>3, <1>4, Zenon DEF SInv

(* The teardown of a sock is single, and complete when the sock is freed. *)
LEMMA TornDownOnce ==
  ASSUME IInv, CountFacts, SInv
  PROVE  TeardownOnce
<1>0. Stops /\ EpsKept /\ Typing
  BY Zenon DEF IInv, SInv
<1>1. ASSUME NEW t \in Threads, pc[t] \in Making \cup {"st_eps"} PROVE alloc[sk[t]] = "live"
  <2>1. Holding(t) \/ InClose(t)
    BY <1>1, Zenon DEF Holding, InClose, Making, HoldPcs, StopPcs
  <2> QED
    BY <2>1, Zenon DEF CountFacts, NoUseAfterFree
<1>2. ASSUME NEW o \in Socks, alloc[o] = "freed", NEW e \in Eps, epsock[e] = o
      PROVE  epst[e] = "freed"
  <2>1. state[o] = "INIT" /\ o # NULL
    BY <1>0, <1>2, LifecycleAssumption, Zenon DEF Stops
  <2> QED
    BY <1>0, <1>1, <1>2, <2>1 DEF EpsKept, Typing
<1>3. \A o \in Socks : alloc[o] = "freed" => state[o] = "INIT"
  BY <1>0, Zenon DEF Stops
<1> QED
  BY <1>0, <1>2, <1>3, Zenon DEF TeardownOnce, Stops, Body
=============================================================================
