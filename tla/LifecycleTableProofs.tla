------------------------ MODULE LifecycleTableProofs ------------------------
(***************************************************************************)
(* Proofs about the socket table, for every number of threads, sockets and *)
(* descriptors: every action preserves the types and the shape of the      *)
(* frames of each thread, the free stack is preserved, and the steps that  *)
(* open, close and free a sock keep its reference count exact.             *)
(***************************************************************************)
EXTENDS LifecycleInv, FiniteSetTheorems, TLAPS

-----------------------------------------------------------------------------
(* Types and frames *)

(* The steps of mb_term, mb_close and mb_sock_stop, and those of the other calls. *)
CloseStep(t) ==
  \/ TermSlot(t) \/ TermCloseFails(t) \/ TermClose(t) \/ TermEnd(t)
  \/ CloseFlag(t) \/ CloseRele(t) \/ CloseWait(t) \/ CloseFree(t) \/ CloseTerm(t)
  \/ StopBegin(t) \/ (\E e \in Eps : StopEp(t, e)) \/ StopEpsDone(t) \/ StopBase(t)

CallStep(t) ==
  \/ IoTry(t) \/ IoAgain(t) \/ OptUse(t) \/ Rele(t)
  \/ CoroCall(t) \/ CoroCrashes(t) \/ CoroAgain(t) \/ CoroRele(t)
  \/ ShutdownFlag(t) \/ ShutdownWait(t)
  \/ EpFails(t) \/ (\E e \in Eps : EpInit(t, e))
  \/ EpInsert(t) \/ EpDiscard(t) \/ EpStart(t)

(* A call that begins leaves each variable within its type. *)
LEMMA TypingBegin ==
  ASSUME IInv, NEW t \in Threads, TableMoves(t), Begin(t)
  PROVE  Typing'
<1>a. nsocks' \in 0 .. MAX_SOCKETS /\ unused' \in [Fds -> Fds]
  BY Zenon DEF TableMoves
<1>b. 0 \in Fds /\ \A x \in Fds : x \in 0 .. MAX_SOCKETS /\ x + 1 \in 0 .. MAX_SOCKETS
  BY LifecycleAssumption DEF Fds
<1>c. \A x \in 0 .. MAX_SOCKETS : x < MAX_SOCKETS => x \in Fds
  BY LifecycleAssumption DEF Fds
<1> USE DEF IInv, Typing, AllOps, Pcs, HoldPcs, ClosePcs, StopPcs, CoroPcs,
             TermPcs, gvars, svars, evars, tvars
<1>1. ASSUME NEW o \in Socks, MbSocket(t, o) PROVE Typing'
  <2>1. PICK s \in Fds : socks' = [socks EXCEPT ![s] = o]
    BY <1>1, Zenon DEF TableMoves
  <2>2. /\ inited' = TRUE /\ ready' = TRUE
        /\ alloc' = [alloc EXCEPT ![o] = "live"]
        /\ stopping' = [stopping EXCEPT ![o] = FALSE]
        /\ holds' = [holds EXCEPT ![o] = 2]
        /\ state' = [state EXCEPT ![o] = "ACTIVE"]
        /\ UNCHANGED <<flags, evars, tvars, crashed>>
    BY <1>1, Zenon DEF MbSocket, CreateSocket
  <2>3. socks' \in [Fds -> Socks \cup {NULL}]
    BY <2>1, Zenon
  <2>4. /\ alloc' \in [Socks -> {"none", "live", "freed"}]
        /\ state' \in [Socks -> {"INIT", "ACTIVE", "STOPPING_EPS"}]
    BY <2>2, Zenon
  <2>5. stopping' \in [Socks -> BOOLEAN]
    BY <2>2, Zenon
  <2>6. holds' \in [Socks -> Int]
    BY <2>2
  <2>7. ready' \in BOOLEAN /\ inited' \in BOOLEAN /\ crashed' \in BOOLEAN
    BY <2>2, Zenon
  <2> QED
    BY <2>2, <2>3, <2>4, <2>5, <2>6, <2>7, <1>a, Zenon
<1>2. ASSUME NEW s \in Fds, MbClose(t, s) PROVE Typing'
  BY <1>2, <1>a, <1>b, <1>c, LifecycleAssumption, Zenon DEF MbClose, Unpublish, Goto
<1>3. ASSUME NEW c \in {"io", "coro", "ep", "opt", "shutdown"},
            NEW s \in Fds, NEW n \in Timeouts, StartCall(t, c, s, n)
     PROVE  Typing'
  BY <1>3, <1>a, <1>b, <1>c, LifecycleAssumption DEF StartCall, Goto, Hold,
     CanHold, Entry
<1>4. CASE MbSocketFails(t)
  BY <1>4, <1>a, <1>b, <1>c, LifecycleAssumption DEF MbSocketFails
<1>5. CASE MbTerm(t)
  BY <1>5, <1>a, <1>b, <1>c, LifecycleAssumption, Zenon DEF MbTerm
<1>6. CASE StartCrashes(t)
  BY <1>6, <1>a, <1>b, <1>c, LifecycleAssumption, Zenon DEF StartCrashes, Crash
<1> HIDE DEF IInv, Typing, AllOps, Pcs, HoldPcs, ClosePcs, StopPcs, CoroPcs,
              TermPcs, gvars, svars, evars, tvars
<1> QED
  BY <1>1, <1>2, <1>3, <1>4, <1>5, <1>6, Zenon DEF Begin

(* So does a step that closes. *)
LEMMA TypingClose ==
  ASSUME IInv, NEW t \in Threads, TableMoves(t), CloseStep(t)
  PROVE  Typing'
<1>a. nsocks' \in 0 .. MAX_SOCKETS /\ unused' \in [Fds -> Fds]
  BY Zenon DEF TableMoves
<1>b. 0 \in Fds /\ \A x \in Fds : x \in 0 .. MAX_SOCKETS /\ x + 1 \in 0 .. MAX_SOCKETS
  BY LifecycleAssumption DEF Fds
<1>c. \A x \in 0 .. MAX_SOCKETS : x < MAX_SOCKETS => x \in Fds
  BY LifecycleAssumption DEF Fds
<1> USE DEF IInv, Typing, AllOps, Pcs, HoldPcs, ClosePcs, StopPcs, CoroPcs,
             TermPcs, gvars, svars, evars, tvars
<1>1. ASSUME NEW e \in Eps, StopEp(t, e) PROVE Typing'
  BY <1>1, <1>a, <1>b, <1>c, LifecycleAssumption, Zenon DEF StopEp
<1>2. CASE TermSlot(t)
  BY <1>2, <1>a, <1>b, <1>c, LifecycleAssumption DEF TermSlot, Goto
<1>3. CASE TermCloseFails(t)
  BY <1>3, <1>a, <1>b, <1>c, LifecycleAssumption, Zenon DEF TermCloseFails, Goto,
     Frames, Holding, InClose
<1>4. CASE TermClose(t)
  BY <1>4, <1>a, <1>b, <1>c, LifecycleAssumption DEF TermClose, Unpublish,
     Goto
<1>5. CASE TermEnd(t)
  BY <1>5, <1>a, <1>b, <1>c, LifecycleAssumption, Zenon DEF TermEnd, Return
<1>6. CASE CloseFlag(t)
  BY <1>6, <1>a, <1>b, <1>c, LifecycleAssumption, Zenon DEF CloseFlag, Goto
<1>7. CASE CloseRele(t)
  BY <1>7, <1>a, <1>b, <1>c, LifecycleAssumption DEF CloseRele, Goto, Frames,
     Holding, InClose
<1>8. CASE CloseWait(t)
  BY <1>8, <1>a, <1>b, <1>c, LifecycleAssumption, Zenon DEF CloseWait, Goto
<1>9. CASE CloseFree(t)
  BY <1>9, <1>a, <1>b, <1>c, LifecycleAssumption, Zenon DEF CloseFree, Goto
<1>10. CASE CloseTerm(t)
  <2>1. fd[t] \in Fds
    BY <1>10, Zenon DEF CloseTerm, Frames
  <2>2. CASE op[t] = "term"
    BY <1>10, <2>1, <2>2, <1>b, LifecycleAssumption DEF CloseTerm, Goto
  <2>3. CASE op[t] # "term"
    BY <1>10, <2>3, <1>b, LifecycleAssumption DEF CloseTerm, Return
  <2> QED
    BY <2>2, <2>3, Zenon
<1>11. CASE StopBegin(t)
  BY <1>11, <1>a, <1>b, <1>c, LifecycleAssumption DEF StopBegin, Goto
<1>12. CASE StopEpsDone(t)
  BY <1>12, <1>a, <1>b, <1>c, LifecycleAssumption, Zenon DEF StopEpsDone, Goto
<1>13. CASE StopBase(t)
  BY <1>13, <1>a, <1>b, <1>c, LifecycleAssumption, Zenon DEF StopBase, Goto
<1> HIDE DEF IInv, Typing, AllOps, Pcs, HoldPcs, ClosePcs, StopPcs, CoroPcs,
              TermPcs, gvars, svars, evars, tvars
<1> QED
  BY <1>1, <1>2, <1>3, <1>4, <1>5, <1>6, <1>7, <1>8, <1>9, <1>10, <1>11,
     <1>12, <1>13, Zenon DEF CloseStep

(* So does a step of any other call. *)
LEMMA TypingCall ==
  ASSUME IInv, NEW t \in Threads, TableMoves(t), CallStep(t)
  PROVE  Typing'
<1>a. nsocks' \in 0 .. MAX_SOCKETS /\ unused' \in [Fds -> Fds]
  BY Zenon DEF TableMoves
<1>b. 0 \in Fds /\ \A x \in Fds : x \in 0 .. MAX_SOCKETS /\ x + 1 \in 0 .. MAX_SOCKETS
  BY LifecycleAssumption DEF Fds
<1>c. \A x \in 0 .. MAX_SOCKETS : x < MAX_SOCKETS => x \in Fds
  BY LifecycleAssumption DEF Fds
<1> USE DEF IInv, Typing, AllOps, Pcs, HoldPcs, ClosePcs, StopPcs, CoroPcs,
             TermPcs, gvars, svars, evars, tvars
<1>1. ASSUME NEW e \in Eps, EpInit(t, e) PROVE Typing'
  BY <1>1, <1>a, <1>b, <1>c, LifecycleAssumption, Zenon DEF EpInit, Goto
<1>2. CASE IoTry(t)
  BY <1>2, <1>a, <1>b, <1>c, LifecycleAssumption DEF IoTry, Goto
<1>3. CASE IoAgain(t)
  <2>1. UNCHANGED <<gvars, svars, evars, op, sk, osk, fd, myep, crashed>>
    BY <1>3, Zenon DEF IoAgain
  <2>2. pc' \in [Threads -> Pcs]
    BY <1>3 DEF IoAgain, Goto
  <2>3. tmo' \in [Threads -> Nat \cup {-1}]
    BY <1>3, LifecycleAssumption DEF IoAgain
  <2> QED
    BY <2>1, <2>2, <2>3, Zenon
<1>4. CASE OptUse(t)
  BY <1>4, <1>a, <1>b, <1>c, LifecycleAssumption, Zenon DEF OptUse, Goto
<1>5. CASE Rele(t)
  <2>1. sk[t] \in Socks
    BY <1>5, Zenon DEF Rele, Frames, Holding
  <2>2. CASE op[t] = "coro"
    BY <1>5, <2>1, <2>2 DEF Rele, Goto
  <2>3. CASE op[t] # "coro"
    <3>1. UNCHANGED <<gvars, alloc, stopping, state, evars, crashed>>
      BY <1>5, Zenon DEF Rele
    <3>2. holds' \in [Socks -> Int]
      BY <1>5, <2>1 DEF Rele
    <3>3. /\ pc' \in [Threads -> Pcs] /\ op' \in [Threads -> AllOps \cup {"none"}]
          /\ fd' \in [Threads -> 0..MAX_SOCKETS] /\ tmo' \in [Threads -> Nat \cup {-1}]
      BY <1>5, <2>3, <1>b DEF Rele, Return
    <3>4. /\ sk' \in [Threads -> Socks \cup {NULL}] /\ osk' \in [Threads -> Socks \cup {NULL}]
          /\ myep' \in [Threads -> Eps \cup {NULL}]
      BY <1>5, <2>3 DEF Rele, Return
    <3> QED
      BY <3>1, <3>2, <3>3, <3>4, Zenon
  <2> QED
    BY <2>2, <2>3, Zenon
<1>6. CASE CoroCall(t)
  <2>1. UNCHANGED <<gvars, alloc, stopping, state, evars, op, osk, fd, tmo, myep, crashed>>
    BY <1>6, Zenon DEF CoroCall
  <2>2. fd[t] \in Fds
    BY <1>6, Zenon DEF CoroCall, Frames
  <2>3. CASE CanHold(fd[t])
    <3>1. socks[fd[t]] \in Socks
      BY <2>2, <2>3 DEF CanHold
    <3>2. pc' \in [Threads -> Pcs]
      BY <1>6, <2>3 DEF CoroCall, Goto
    <3>3. holds' \in [Socks -> Int] /\ sk' \in [Threads -> Socks \cup {NULL}]
      BY <1>6, <2>3, <3>1 DEF CoroCall, Hold
    <3> QED
      BY <2>1, <3>2, <3>3, Zenon
  <2>4. CASE ~CanHold(fd[t])
    BY <1>6, <2>1, <2>4 DEF CoroCall, Goto
  <2> QED
    BY <2>3, <2>4, Zenon
<1>7. CASE CoroCrashes(t)
  BY <1>7, <1>a, <1>b, <1>c, LifecycleAssumption, Zenon DEF CoroCrashes, Crash
<1>8. CASE CoroAgain(t)
  <2>1. UNCHANGED <<gvars, svars, evars, op, sk, osk, fd, myep, crashed>>
    BY <1>8, Zenon DEF CoroAgain
  <2>2. pc' \in [Threads -> Pcs]
    BY <1>8 DEF CoroAgain, Goto
  <2>3. tmo' \in [Threads -> Nat \cup {-1}]
    BY <1>8, LifecycleAssumption DEF CoroAgain
  <2> QED
    BY <2>1, <2>2, <2>3, Zenon
<1>9. CASE CoroRele(t)
  BY <1>9, <1>a, <1>b, <1>c, LifecycleAssumption DEF CoroRele, Return,
     Frames, Holding, InClose
<1>10. CASE ShutdownFlag(t)
  BY <1>10, <1>a, <1>b, <1>c, LifecycleAssumption, Zenon DEF ShutdownFlag, Goto
<1>11. CASE ShutdownWait(t)
  BY <1>11, <1>a, <1>b, <1>c, LifecycleAssumption, Zenon DEF ShutdownWait, Goto
<1>12. CASE EpFails(t)
  BY <1>12, <1>a, <1>b, <1>c, LifecycleAssumption, Zenon DEF EpFails, Goto
<1>13. CASE EpInsert(t)
  BY <1>13, <1>a, <1>b, <1>c, LifecycleAssumption DEF EpInsert, Goto
<1>14. CASE EpDiscard(t)
  BY <1>14, <1>a, <1>b, <1>c, LifecycleAssumption, Zenon DEF EpDiscard, Goto
<1>15. CASE EpStart(t)
  BY <1>15, <1>a, <1>b, <1>c, LifecycleAssumption, Zenon DEF EpStart, Goto
<1> HIDE DEF IInv, Typing, AllOps, Pcs, HoldPcs, ClosePcs, StopPcs, CoroPcs,
              TermPcs, gvars, svars, evars, tvars
<1> QED
  BY <1>1, <1>2, <1>3, <1>4, <1>5, <1>6, <1>7, <1>8, <1>9, <1>10, <1>11,
     <1>12, <1>13, <1>14, <1>15, Zenon DEF CallStep

(* Every action of a thread leaves each variable within its type. *)
LEMMA TypingStep ==
  ASSUME IInv, NEW t \in Threads, TableMoves(t), Begin(t) \/ Step(t)
  PROVE  Typing'
<1>1. Step(t) => CloseStep(t) \/ CallStep(t)
  BY Zenon DEF Step, CloseStep, CallStep
<1> QED
  BY <1>1, TypingBegin, TypingClose, TypingCall, Zenon

-----------------------------------------------------------------------------
(* Every action leaves each thread with the frame its new place in the code expects. *)
LEMMA FramesStep ==
  ASSUME IInv, NEW t \in Threads, Begin(t) \/ Step(t)
  PROVE  Frames'
<1>b. 0 \in Fds /\ \A x \in Fds : x \in 0 .. MAX_SOCKETS /\ x + 1 \in 0 .. MAX_SOCKETS
  BY LifecycleAssumption DEF Fds
<1>c. \A x \in 0 .. MAX_SOCKETS : x < MAX_SOCKETS => x \in Fds
  BY LifecycleAssumption DEF Fds
<1>d. /\ socks \in [Fds -> Socks \cup {NULL}]
      /\ pc \in [Threads -> Pcs]
      /\ op \in [Threads -> AllOps \cup {"none"}]
      /\ sk \in [Threads -> Socks \cup {NULL}]
      /\ osk \in [Threads -> Socks \cup {NULL}]
      /\ fd \in [Threads -> 0 .. MAX_SOCKETS]
      /\ myep \in [Threads -> Eps \cup {NULL}]
      /\ Frames
  BY Zenon DEF IInv, Typing
<1> USE <1>b, <1>c, <1>d DEF Frames, Holding, InClose, AllOps, Pcs, HoldPcs,
             ClosePcs, StopPcs, CoroPcs, TermPcs, tvars
<1>1. ASSUME NEW o \in Socks, MbSocket(t, o) PROVE Frames'
  BY <1>1, Zenon DEF MbSocket, CreateSocket
<1>2. ASSUME NEW s \in Fds, MbClose(t, s) PROVE Frames'
  BY <1>2 DEF MbClose, Unpublish, Goto
<1>3. ASSUME NEW c \in {"io", "coro", "ep", "opt", "shutdown"},
            NEW s \in Fds, NEW n \in Timeouts, StartCall(t, c, s, n)
     PROVE  Frames'
  BY <1>3 DEF StartCall, Goto, Hold, CanHold,
     Entry
<1>4. ASSUME NEW e \in Eps, StopEp(t, e) PROVE Frames'
  BY <1>4, Zenon DEF StopEp
<1>5. ASSUME NEW e \in Eps, EpInit(t, e) PROVE Frames'
  BY <1>5 DEF EpInit, Goto
<1>6. CASE MbSocketFails(t)
  BY <1>6, Zenon DEF MbSocketFails
<1>7. CASE MbTerm(t)
  BY <1>7 DEF MbTerm
<1>8. CASE StartCrashes(t)
  BY <1>8, Zenon DEF StartCrashes, Crash
<1>9. CASE TermSlot(t)
  BY <1>9 DEF TermSlot, Goto
<1>10. CASE TermCloseFails(t)
  BY <1>10 DEF TermCloseFails, Goto
<1>11. CASE TermClose(t)
  BY <1>11 DEF TermClose, Unpublish, Goto
<1>12. CASE TermEnd(t)
  BY <1>12 DEF TermEnd, Return
<1>13. CASE CloseFlag(t)
  BY <1>13 DEF CloseFlag, Goto
<1>14. CASE CloseRele(t)
  BY <1>14 DEF CloseRele, Goto
<1>15. CASE CloseWait(t)
  BY <1>15 DEF CloseWait, Goto
<1>16. CASE CloseFree(t)
  BY <1>16 DEF CloseFree, Goto
<1>17. CASE CloseTerm(t)
  BY <1>17 DEF CloseTerm, Goto, Return
<1>18. CASE StopBegin(t)
  BY <1>18 DEF StopBegin, Goto
<1>19. CASE StopEpsDone(t)
  BY <1>19 DEF StopEpsDone, Goto
<1>20. CASE StopBase(t)
  BY <1>20 DEF StopBase, Goto
<1>21. CASE IoTry(t)
  BY <1>21 DEF IoTry, Goto
<1>22. CASE IoAgain(t)
  BY <1>22 DEF IoAgain, Goto
<1>23. CASE OptUse(t)
  BY <1>23 DEF OptUse, Goto
<1>24. CASE Rele(t)
  BY <1>24 DEF Rele, Goto, Return
<1>25. CASE CoroCall(t)
  BY <1>25 DEF CoroCall, Goto, Hold, CanHold
<1>26. CASE CoroCrashes(t)
  BY <1>26 DEF CoroCrashes, Crash
<1>27. CASE CoroAgain(t)
  BY <1>27 DEF CoroAgain, Goto
<1>28. CASE CoroRele(t)
  BY <1>28 DEF CoroRele, Return
<1>29. CASE ShutdownFlag(t)
  BY <1>29 DEF ShutdownFlag, Goto
<1>30. CASE ShutdownWait(t)
  BY <1>30 DEF ShutdownWait, Goto
<1>31. CASE EpFails(t)
  BY <1>31 DEF EpFails, Goto
<1>32. CASE EpInsert(t)
  BY <1>32 DEF EpInsert, Goto
<1>33. CASE EpDiscard(t)
  BY <1>33 DEF EpDiscard, Goto
<1>34. CASE EpStart(t)
  BY <1>34 DEF EpStart, Goto
<1> HIDE <1>b, <1>c, <1>d DEF Frames, Holding, InClose, AllOps, Pcs, HoldPcs,
              ClosePcs, StopPcs, CoroPcs, TermPcs, tvars
<1> QED
  BY <1>1, <1>2, <1>3, <1>4, <1>5, <1>6, <1>7, <1>8, <1>9, <1>10, <1>11,
     <1>12, <1>13, <1>14, <1>15, <1>16, <1>17, <1>18, <1>19, <1>20, <1>21,
     <1>22, <1>23, <1>24, <1>25, <1>26, <1>27, <1>28, <1>29, <1>30, <1>31,
     <1>32, <1>33, <1>34, Zenon DEF Begin, Step

-----------------------------------------------------------------------------
(* The free stack *)

(* The occupied slots are finitely many. *)
LEMMA UsedFinite == IsFiniteSet(Used)
<1>1. IsFiniteSet(Fds)
  BY FS_Interval, LifecycleAssumption DEF Fds
<1>2. Used \in SUBSET Fds
  BY Zenon DEF Used
<1> QED
  BY <1>1, <1>2, FS_Subset, Zenon

(* A published socket makes nsocks positive, so the push is within bounds. *)
LEMMA UnpublishBounds ==
  ASSUME Typing, Table, NEW s \in Fds, socks[s] # NULL
  PROVE  nsocks \in 1 .. MAX_SOCKETS
<1>1. s \in Used /\ IsFiniteSet(Used)
  BY UsedFinite, Zenon DEF Used
<1>2. Cardinality(Used) # 0
  BY <1>1, FS_EmptySet, Zenon
<1> QED
  BY <1>2 DEF Table, Typing

(* Clearing a slot and pushing its descriptor keeps the stack exact. *)
LEMMA UnpublishTable ==
  ASSUME Typing, Table, NEW t, NEW s \in Fds, Unpublish(t, s)
  PROVE  Table' /\ nsocks' \in 0 .. MAX_SOCKETS /\ unused' \in [Fds -> Fds]
<1>1. nsocks \in 1 .. MAX_SOCKETS
  BY UnpublishBounds, Zenon DEF Unpublish
<1>2. MAX_SOCKETS \in Nat /\ MAX_SOCKETS - nsocks \in Fds
  BY <1>1, LifecycleAssumption DEF Fds
<1>3. nsocks' \in 0 .. MAX_SOCKETS /\ unused' \in [Fds -> Fds]
  BY <1>1, <1>2 DEF Unpublish, Typing
<1>4. nsocks' = Cardinality(Used')
  <2>1. Used' = Used \ {s} /\ s \in Used
    BY Zenon DEF Unpublish, Used, Typing
  <2>2. Cardinality(Used') = Cardinality(Used) - 1
    BY <2>1, UsedFinite, FS_RemoveElement, Zenon
  <2> QED
    BY <2>2, Zenon DEF Table, Unpublish
<1>5. FreeStack'
  <2> SUFFICES ASSUME ready'
               PROVE  LET Stack == 0 .. MAX_SOCKETS - nsocks' - 1 IN
                      /\ \A i \in Stack : socks'[unused'[i]] = NULL
                      /\ \A i, j \in Stack : unused'[i] = unused'[j] => i = j
                      /\ \A f \in Fds : socks'[f] = NULL =>
                           \E i \in Stack : unused'[i] = f
    BY Zenon DEF FreeStack
  <2> DEFINE Old == 0 .. MAX_SOCKETS - nsocks - 1
             New == 0 .. MAX_SOCKETS - nsocks' - 1
             top == MAX_SOCKETS - nsocks
  <2>1. New = Old \cup {top} /\ top \notin Old /\ Old \subseteq Fds
    BY <1>1, <1>2 DEF Unpublish, Fds
  <2>2. ready /\ socks' = [socks EXCEPT ![s] = NULL] /\ socks[s] # NULL
        /\ unused' = [unused EXCEPT ![top] = s]
    BY Zenon DEF Unpublish
  <2>3. /\ \A i \in Old : socks[unused[i]] = NULL
        /\ \A i, j \in Old : unused[i] = unused[j] => i = j
        /\ \A f \in Fds : socks[f] = NULL => \E i \in Old : unused[i] = f
    BY <2>2, Zenon DEF Table, FreeStack
  <2>4. unused'[top] = s /\ \A i \in Old : unused'[i] = unused[i] /\ unused[i] # s
    BY <1>2, <2>1, <2>2, <2>3 DEF Typing
  <2> HIDE DEF Old, New, top
  <2>5. \A f \in Fds : socks'[f] = NULL => \E i \in New : unused'[i] = f
    BY <2>1, <2>2, <2>3, <2>4 DEF Typing
  <2>6. \A i \in New : socks'[unused'[i]] = NULL
    BY <2>1, <2>2, <2>3, <2>4 DEF Typing
  <2>7. \A i, j \in New : unused'[i] = unused'[j] => i = j
    BY <2>1, <2>3, <2>4
  <2> QED
    BY <2>5, <2>6, <2>7, Zenon DEF New
<1> QED
  BY <1>1, <1>3, <1>4, <1>5, Zenon DEF Table, Unpublish

(* Popping the top of the stack and filling the slot keeps the stack exact. *)
LEMMA CreateTable ==
  ASSUME Typing, Table, NEW t, NEW o \in Socks, MbSocket(t, o)
  PROVE  /\ Table' /\ nsocks' \in 0 .. MAX_SOCKETS /\ unused' \in [Fds -> Fds]
         /\ \E s \in Fds : socks[s] = NULL /\ socks' = [socks EXCEPT ![s] = o]
<1> DEFINE un == GlobalInit.unused
           n == GlobalInit.nsocks
           Old == 0 .. MAX_SOCKETS - n - 1
           New == 0 .. MAX_SOCKETS - nsocks' - 1
           top == MAX_SOCKETS - n - 1
           s == un[top]
<1>1. n = nsocks /\ n \in Nat /\ n < MAX_SOCKETS /\ MAX_SOCKETS \in Nat
  BY LifecycleAssumption DEF GlobalInit, Table, Typing, MbSocket, CreateSocket
<1>2. un \in [Fds -> Fds]
  BY LifecycleAssumption DEF GlobalInit, Typing, Fds
<1>3. /\ \A i \in Old : socks[un[i]] = NULL
      /\ \A i, j \in Old : un[i] = un[j] => i = j
      /\ \A f \in Fds : socks[f] = NULL => \E i \in Old : un[i] = f
  <2>1. CASE ready
    BY <2>1 DEF GlobalInit, Table, FreeStack
  <2>2. CASE ~ready
    <3>1. n = 0 /\ un = [i \in Fds |-> MAX_SOCKETS - i - 1] /\ Old = Fds
      BY <2>2, <1>1 DEF GlobalInit, Fds
    <3>2. Used = {}
      BY <2>2, UsedFinite, FS_EmptySet, Zenon DEF Table
    <3>3. \A f \in Fds : un[MAX_SOCKETS - f - 1] = f /\ MAX_SOCKETS - f - 1 \in Fds
      BY <3>1, <1>1 DEF Fds
    <3>4. \A i, j \in Fds : un[i] = un[j] => i = j
      BY <3>1, <1>1 DEF Fds
    <3> QED
      BY <3>1, <3>2, <3>3, <3>4, <1>2, Zenon DEF Used
  <2> QED
    BY <2>1, <2>2, Zenon
<1>4. /\ ready' /\ unused' = un /\ nsocks' = n + 1
      /\ socks' = [socks EXCEPT ![s] = o]
  BY Zenon DEF MbSocket, CreateSocket
<1> HIDE DEF un, n
<1>5. top \in Old /\ New = Old \ {top} /\ Old \subseteq Fds /\ s \in Fds
  <2>1. n \in Nat /\ n < MAX_SOCKETS /\ MAX_SOCKETS \in Nat /\ nsocks' = n + 1
    BY <1>1, <1>4, Zenon
  <2>2. top \in Old
    BY <2>1
  <2>3. New = Old \ {top}
    BY <2>1
  <2>4. Old \subseteq Fds
    BY <2>1 DEF Fds
  <2> HIDE DEF Old, top
  <2>5. s \in Fds
    BY <1>2, <2>2, <2>4, Zenon
  <2> QED
    BY <2>2, <2>3, <2>4, <2>5, Zenon
<1> HIDE DEF Old, top
<1>6. socks[s] = NULL /\ o # NULL
  BY <1>3, <1>5, LifecycleAssumption, Zenon
<1>7. nsocks' = Cardinality(Used')
  <2>1. Used' = Used \cup {s} /\ s \notin Used
    BY <1>4, <1>5, <1>6 DEF Used, Typing
  <2> QED
    BY <2>1, <1>1, <1>4, UsedFinite, FS_AddElement, Zenon DEF Table
<1>8. /\ \A i \in New : socks'[unused'[i]] = NULL
      /\ \A i, j \in New : unused'[i] = unused'[j] => i = j
      /\ \A f \in Fds : socks'[f] = NULL => \E i \in New : unused'[i] = f
  BY <1>2, <1>3, <1>4, <1>5, <1>6, Zenon DEF Typing
<1> HIDE DEF New
<1>9. Table'
  BY <1>4, <1>7, <1>8, Zenon DEF Table, FreeStack, New
<1>10. nsocks' \in 0 .. MAX_SOCKETS /\ unused' \in [Fds -> Fds]
  BY <1>1, <1>2, <1>4
<1> HIDE DEF s
<1> QED
  BY <1>4, <1>5, <1>6, <1>9, <1>10, Zenon

(* A failing mb_socket frees the table only when it is empty. *)
LEMMA FailTable ==
  ASSUME Typing, Table, NEW t, MbSocketFails(t)
  PROVE  Table' /\ nsocks' = nsocks /\ unused' \in [Fds -> Fds]
<1>1. nsocks' = nsocks /\ socks' = socks /\ (ready' => ready /\ unused' = unused)
      /\ (~ready' => nsocks = 0)
  BY DEF MbSocketFails, GlobalInit, Table, Typing
<1>2. unused' \in [Fds -> Fds]
  BY LifecycleAssumption DEF MbSocketFails, GlobalInit, Typing, Fds
<1> QED
  BY <1>1, <1>2 DEF Table, FreeStack, Used

(* The other steps leave the table alone, or free it when it is empty. *)
LEMMA SameTable ==
  ASSUME Typing, Table, UNCHANGED <<socks, unused, nsocks>>,
         ready' = ready \/ ready' = (ready /\ nsocks > 0)
  PROVE  Table'
<1>1. Used' = Used /\ Fds' = Fds
  BY Zenon DEF Used, Fds
<1>2. nsocks' = Cardinality(Used')
  BY <1>1, Zenon DEF Table
<1>3. CASE ready' = ready
  BY <1>2, <1>3, Zenon DEF Table, FreeStack
<1>4. CASE ready' = (ready /\ nsocks > 0)
  BY <1>2, <1>4 DEF Table, FreeStack, Typing
<1> QED
  BY <1>3, <1>4, Zenon

-----------------------------------------------------------------------------
(* One lemma per part of the invariant; each goes through the actions. *)

(* Every action keeps the free stack exact. *)
LEMMA TableStep ==
  ASSUME IInv, NEW t \in Threads, Begin(t) \/ Step(t)
  PROVE  Table' /\ nsocks' \in 0 .. MAX_SOCKETS /\ unused' \in [Fds -> Fds]
<1> USE DEF IInv
<1>1. ASSUME NEW o \in Socks, MbSocket(t, o)
      PROVE  Table' /\ nsocks' \in 0 .. MAX_SOCKETS /\ unused' \in [Fds -> Fds]
  BY <1>1, CreateTable, Zenon
<1>2. CASE MbSocketFails(t)
  BY <1>2, FailTable, Zenon DEF Typing
<1>3. ASSUME NEW s \in Fds, MbClose(t, s)
      PROVE  Table' /\ nsocks' \in 0 .. MAX_SOCKETS /\ unused' \in [Fds -> Fds]
  BY <1>3, UnpublishTable, Zenon DEF MbClose
<1>4. CASE TermClose(t)
  <2>1. fd[t] \in Fds
    BY <1>4, Zenon DEF TermClose, Frames
  <2> QED
    BY <1>4, <2>1, UnpublishTable, Zenon DEF TermClose
<1>5. CASE CloseTerm(t)
  BY <1>5, SameTable, Zenon DEF CloseTerm, Typing
<1>6. CASE \/ MbTerm(t) \/ StartCrashes(t) \/ TermEnd(t)
           \/ \E c \in {"io", "coro", "ep", "opt", "shutdown"}, s \in Fds, n \in Timeouts :
                StartCall(t, c, s, n)
  <2>1. UNCHANGED <<socks, unused, nsocks, ready>>
    BY <1>6, Zenon DEF MbTerm, StartCrashes, Crash, TermEnd, StartCall, gvars
  <2> QED
    BY <2>1, SameTable, Zenon DEF Typing
<1>7. CASE /\ Step(t) /\ ~TermClose(t) /\ ~CloseTerm(t) /\ ~TermEnd(t)
  <2>1. UNCHANGED <<socks, unused, nsocks, ready>>
    BY <1>7, Zenon DEF Step, TermSlot, TermCloseFails, CloseFlag, CloseRele, CloseWait,
       CloseFree, StopBegin, StopEp, StopEpsDone, StopBase, IoTry, IoAgain, OptUse,
       Rele, CoroCall, CoroCrashes, Crash, CoroAgain, CoroRele, ShutdownFlag,
       ShutdownWait, EpFails, EpInit, EpInsert, EpDiscard, EpStart, gvars
  <2> QED
    BY <2>1, SameTable, Zenon DEF Typing
<1> QED
  BY <1>1, <1>2, <1>3, <1>4, <1>5, <1>6, <1>7, Zenon DEF Begin

(* The step of a thread moves the table within its types. *)
LEMMA TableMovesStep ==
  ASSUME IInv, NEW t \in Threads, Begin(t) \/ Step(t)
  PROVE  TableMoves(t)
<1>1. nsocks' \in 0 .. MAX_SOCKETS /\ unused' \in [Fds -> Fds]
  BY TableStep, Zenon
<1>2. ASSUME NEW o \in Socks, MbSocket(t, o)
      PROVE  \E s \in Fds : socks[s] = NULL /\ socks' = [socks EXCEPT ![s] = o]
  BY <1>2, CreateTable, Zenon DEF IInv
<1> QED
  BY <1>1, <1>2, Zenon DEF TableMoves

-----------------------------------------------------------------------------
(* The steps that open, close and free a sock. *)

(* The holders of a sock can be counted: two frames per thread at most. *)
LEMMA HoldersFinite ==
  \A o : IsFiniteSet(Holders(o)) /\ Cardinality(Holders(o)) \in Nat
<1> TAKE o
<1>1. IsFiniteSet({"sk", "osk"})
  <2>1. IsFiniteSet({"sk"})
    BY FS_Singleton, Zenon
  <2>2. {"sk", "osk"} = {"sk"} \cup {"osk"}
    BY Zenon
  <2> QED
    BY <2>1, <2>2, FS_AddElement, Zenon
<1>2. IsFiniteSet(Threads \X {"sk", "osk"})
  BY <1>1, FS_Product, LifecycleAssumption, Zenon
<1>3. Holders(o) \in SUBSET (Threads \X {"sk", "osk"})
  BY Zenon DEF Holders
<1>4. IsFiniteSet(Holders(o))
  BY <1>2, <1>3, FS_Subset, Zenon
<1> QED
  BY <1>4, FS_CardinalityType, Zenon

(* mb_socket publishes a new sock with its two permanent references. *)
LEMMA MbSocketRef ==
  ASSUME Typing, Frames, Table, RefCount, NEW t \in Threads, NEW o \in Socks,
         MbSocket(t, o)
  PROVE  RefCount' /\ \A p \in Socks : Holders(p)' = Holders(p)
<1>1. PICK s \in Fds : socks[s] = NULL /\ socks' = [socks EXCEPT ![s] = o]
  BY CreateTable, Zenon
<1>2. /\ alloc[o] = "none" /\ alloc' = [alloc EXCEPT ![o] = "live"]
      /\ holds' = [holds EXCEPT ![o] = 2]
      /\ UNCHANGED <<pc, op, sk, osk>>
  BY Zenon DEF MbSocket, CreateSocket, tvars
<1>3. \A p \in Socks : Holders(p)' = Holders(p)
  BY <1>2, Zenon DEF Holders, Holding
<1>4. \A u \in Threads : (InClose(u)' <=> InClose(u)) /\ Dropped(u)' = Dropped(u)
  BY <1>2, Zenon DEF InClose, Dropped
<1>5. Holders(o) = {} /\ Cardinality(Holders(o)) = 0
  BY <1>2, FS_EmptySet, Zenon DEF RefCount
<1>6. \A u \in Threads : InClose(u) => sk[u] # o
  BY <1>2, Zenon DEF RefCount
<1>7. \A f \in Fds : socks'[f] # NULL =>
        /\ alloc'[socks'[f]] = "live"
        /\ \A g \in Fds : socks'[g] = socks'[f] => g = f
        /\ \A u \in Threads : InClose(u)' => sk'[u] # socks'[f]
  <2>1. \A f \in Fds : socks[f] # o
    BY <1>2, LifecycleAssumption DEF RefCount
  <2> QED
    BY <1>1, <1>2, <1>4, <1>6, <2>1 DEF RefCount, Typing
<1>8. \A u \in Threads, p \in Socks : InClose(u)' /\ sk'[u] = p =>
        /\ alloc'[p] = "live"
        /\ holds'[p] = 2 - Dropped(u)' + Cardinality(Holders(p)')
        /\ pc'[u] \in StopPcs \cup {"cl_free"} => Holders(p)' = {}
        /\ \A v \in Threads : InClose(v)' /\ sk'[v] = p => v = u
  <2> SUFFICES ASSUME NEW u \in Threads, NEW p \in Socks, InClose(u)', sk'[u] = p
               PROVE  /\ alloc'[p] = "live"
                      /\ holds'[p] = 2 - Dropped(u)' + Cardinality(Holders(p)')
                      /\ pc'[u] \in StopPcs \cup {"cl_free"} => Holders(p)' = {}
                      /\ \A v \in Threads : InClose(v)' /\ sk'[v] = p => v = u
    BY Zenon
  <2>1. sk' = sk /\ pc' = pc /\ InClose(u) /\ sk[u] = p /\ p # o
    BY <1>2, <1>4, <1>6, Zenon
  <2>2. alloc'[p] = alloc[p] /\ holds'[p] = holds[p]
    BY <1>2, <2>1 DEF Typing
  <2>3. /\ alloc[p] = "live"
        /\ holds[p] = 2 - Dropped(u) + Cardinality(Holders(p))
        /\ pc[u] \in StopPcs \cup {"cl_free"} => Holders(p) = {}
        /\ \A v \in Threads : InClose(v) /\ sk[v] = p => v = u
    BY <2>1, Zenon DEF RefCount
  <2> QED
    BY <1>3, <1>4, <2>1, <2>2, <2>3, Zenon
<1>9. \A p \in Socks :
        /\ Holders(p)' # {} => alloc'[p] = "live"
        /\ (alloc'[p] = "live" /\ \A u \in Threads : InClose(u)' => sk'[u] # p)
             => holds'[p] = 2 + Cardinality(Holders(p)')
  <2>1. alloc'[o] = "live" /\ holds'[o] = 2 + Cardinality(Holders(o)')
    <3>1. Holders(o)' = Holders(o) /\ alloc'[o] = "live" /\ holds'[o] = 2
      BY <1>2, <1>3 DEF Typing
    <3> QED
      BY <3>1, <1>5
  <2>2. ASSUME NEW p \in Socks, p # o
        PROVE  /\ alloc'[p] = alloc[p] /\ holds'[p] = holds[p]
               /\ Holders(p)' = Holders(p)
    BY <1>2, <1>3, <2>2 DEF Typing
  <2>3. sk' = sk
    BY <1>2, Zenon
  <2> SUFFICES ASSUME NEW p \in Socks
               PROVE  /\ Holders(p)' # {} => alloc'[p] = "live"
                      /\ (alloc'[p] = "live" /\ \A u \in Threads : InClose(u)' => sk'[u] # p)
                           => holds'[p] = 2 + Cardinality(Holders(p)')
    BY Zenon
  <2>4. CASE p = o
    BY <2>1, <2>4, Zenon
  <2>5. CASE p # o
    <3>1. (\A u \in Threads : InClose(u)' => sk'[u] # p) =>
            \A u \in Threads : InClose(u) => sk[u] # p
      BY <1>4, <2>3, Zenon
    <3>2. /\ Holders(p) # {} => alloc[p] = "live"
          /\ (alloc[p] = "live" /\ \A u \in Threads : InClose(u) => sk[u] # p)
               => holds[p] = 2 + Cardinality(Holders(p))
      BY Zenon DEF RefCount
    <3> QED
      BY <2>2, <2>5, <3>1, <3>2, Zenon
  <2> QED
    BY <2>4, <2>5, Zenon
<1> QED
  BY <1>3, <1>7, <1>8, <1>9, Zenon DEF RefCount

(* mb_close clears the slot; its own frame then owns the permanent references. *)
LEMMA UnpublishRef ==
  ASSUME Typing, Frames, RefCount, NEW t \in Threads, NEW s \in Fds,
         pc[t] \in {"idle", "tm_close"}, Unpublish(t, s), op'[t] \in {"close", "term"},
         \A u \in Threads \ {t} : op'[u] = op[u]
  PROVE  RefCount' /\ \A p \in Socks : Holders(p)' = Holders(p)
<1>1. PICK o \in Socks : o = socks[s]
  BY DEF Unpublish, Typing
<1>2. /\ socks' = [socks EXCEPT ![s] = NULL] /\ sk' = [sk EXCEPT ![t] = o]
      /\ pc' = [pc EXCEPT ![t] = "cl_flag"]
      /\ UNCHANGED <<alloc, holds, osk>>
      /\ o # NULL
  BY <1>1, LifecycleAssumption, Zenon DEF Unpublish, Goto, svars
<1>3. \A p \in Socks : Holders(p)' = Holders(p)
  BY <1>2 DEF Holders, Holding, HoldPcs, StopPcs, Typing
<1>4. /\ ~InClose(t) /\ InClose(t)' /\ Dropped(t)' = 0 /\ sk'[t] = o
      /\ pc'[t] \notin StopPcs \cup {"cl_free"}
  BY <1>2, Zenon DEF InClose, Dropped, ClosePcs, StopPcs, Typing
<1>5. \A u \in Threads \ {t} :
        /\ InClose(u)' <=> InClose(u)
        /\ Dropped(u)' = Dropped(u) /\ sk'[u] = sk[u] /\ pc'[u] = pc[u]
  BY <1>2, Zenon DEF InClose, Dropped, Typing
<1>6. /\ alloc[o] = "live" /\ \A u \in Threads : InClose(u) => sk[u] # o
      /\ \A g \in Fds : socks[g] = o => g = s
  BY <1>1, <1>2, Zenon DEF RefCount
<1>7. holds[o] = 2 + Cardinality(Holders(o)) /\ Cardinality(Holders(o)) \in Nat
  BY <1>6, HoldersFinite, Zenon DEF RefCount
<1>8. \A f \in Fds : socks'[f] # NULL =>
        /\ alloc'[socks'[f]] = "live"
        /\ \A g \in Fds : socks'[g] = socks'[f] => g = f
        /\ \A u \in Threads : InClose(u)' => sk'[u] # socks'[f]
  <2>1. \A f \in Fds : socks'[f] # NULL => socks'[f] = socks[f] /\ socks[f] # o
    BY <1>1, <1>2, <1>6, Zenon DEF Typing
  <2>2. \A f \in Fds : socks[f] # NULL =>
          /\ alloc[socks[f]] = "live"
          /\ \A g \in Fds : socks[g] = socks[f] => g = f
          /\ \A u \in Threads : InClose(u) => sk[u] # socks[f]
    BY Zenon DEF RefCount
  <2> QED
    BY <1>2, <1>4, <1>5, <2>1, <2>2
<1>9. \A u \in Threads, p \in Socks : InClose(u)' /\ sk'[u] = p =>
        /\ alloc'[p] = "live"
        /\ holds'[p] = 2 - Dropped(u)' + Cardinality(Holders(p)')
        /\ pc'[u] \in StopPcs \cup {"cl_free"} => Holders(p)' = {}
        /\ \A v \in Threads : InClose(v)' /\ sk'[v] = p => v = u
  <2> TAKE u \in Threads, p \in Socks
  <2> HAVE InClose(u)' /\ sk'[u] = p
  <2>1. Holders(p)' = Holders(p) /\ alloc' = alloc /\ holds' = holds
    BY <1>2, <1>3, Zenon
  <2>2. CASE u = t
    <3>1. p = o /\ \A v \in Threads : InClose(v)' /\ sk'[v] = p => v = u
      BY <1>4, <1>5, <1>6, <2>2, Zenon
    <3>2. holds[o] = 2 - Dropped(u)' + Cardinality(Holders(o))
      BY <1>4, <1>7, <2>2
    <3> QED
      BY <1>4, <1>6, <2>1, <2>2, <3>1, <3>2, Zenon
  <2>3. CASE u # t
    <3>1. /\ InClose(u) /\ sk[u] = p /\ pc'[u] = pc[u] /\ Dropped(u)' = Dropped(u)
          /\ p # o
      BY <1>5, <1>6, <2>3, Zenon
    <3>2. /\ alloc[p] = "live"
          /\ holds[p] = 2 - Dropped(u) + Cardinality(Holders(p))
          /\ pc[u] \in StopPcs \cup {"cl_free"} => Holders(p) = {}
          /\ \A v \in Threads : InClose(v) /\ sk[v] = p => v = u
      BY <3>1, Zenon DEF RefCount
    <3>3. \A v \in Threads : InClose(v)' /\ sk'[v] = p => v = u
      BY <1>4, <1>5, <3>1, <3>2, Zenon
    <3> QED
      BY <2>1, <3>1, <3>2, <3>3, Zenon
  <2> QED
    BY <2>2, <2>3, Zenon
<1>10. \A p \in Socks :
        /\ Holders(p)' # {} => alloc'[p] = "live"
        /\ (alloc'[p] = "live" /\ \A u \in Threads : InClose(u)' => sk'[u] # p)
             => holds'[p] = 2 + Cardinality(Holders(p)')
  <2> TAKE p \in Socks
  <2>1. Holders(p)' = Holders(p) /\ alloc' = alloc /\ holds' = holds
    BY <1>2, <1>3, Zenon
  <2>2. (\A u \in Threads : InClose(u)' => sk'[u] # p) =>
          \A u \in Threads : InClose(u) => sk[u] # p
    BY <1>4, <1>5, Zenon
  <2>3. /\ Holders(p) # {} => alloc[p] = "live"
        /\ (alloc[p] = "live" /\ \A u \in Threads : InClose(u) => sk[u] # p)
             => holds[p] = 2 + Cardinality(Holders(p))
    BY Zenon DEF RefCount
  <2> QED
    BY <2>1, <2>2, <2>3, Zenon
<1> QED
  BY <1>3, <1>8, <1>9, <1>10, Zenon DEF RefCount

(* What the steps of mb_close of thread t on sock o have in common: they     *)
(* touch no other thread and no other sock, and publish nothing.             *)
OthersSame(t, o) ==
  /\ socks' = socks
  /\ \A p \in Socks : Holders(p)' = Holders(p)
  /\ \A u \in Threads \ {t} :
       /\ InClose(u)' <=> InClose(u)
       /\ Dropped(u)' = Dropped(u) /\ sk'[u] = sk[u] /\ pc'[u] = pc[u]
  /\ \A p \in Socks \ {o} : alloc'[p] = alloc[p] /\ holds'[p] = holds[p]

(* Where such a step may leave the sock: still counted, or freed unheld. *)
StillCounted(t, o) ==
  /\ InClose(t)' /\ sk'[t] = o /\ alloc'[o] = "live"
  /\ holds'[o] = 2 - Dropped(t)' + Cardinality(Holders(o))
  /\ pc'[t] \in StopPcs \cup {"cl_free"} => Holders(o) = {}

FreedUnheld(t, o) == ~InClose(t)' /\ alloc'[o] # "live" /\ Holders(o) = {}

(* Such a step keeps the count exact. *)
LEMMA CloserMoves ==
  ASSUME RefCount, NEW t \in Threads, NEW o \in Socks, InClose(t), sk[t] = o,
         OthersSame(t, o), StillCounted(t, o) \/ FreedUnheld(t, o),
         \A f \in Fds : socks[f] # NULL => socks[f] \in Socks
  PROVE  RefCount'
<1>1. /\ \A u \in Threads : InClose(u) /\ sk[u] = o => u = t
      /\ \A f \in Fds : socks[f] # NULL => socks[f] # o
  BY Zenon DEF RefCount
<1>2. \A u \in Threads : InClose(u)' => InClose(u) /\ sk'[u] = sk[u]
  BY Zenon DEF OthersSame, StillCounted, FreedUnheld
<1>3. \A f \in Fds : socks'[f] # NULL =>
        /\ alloc'[socks'[f]] = "live"
        /\ \A g \in Fds : socks'[g] = socks'[f] => g = f
        /\ \A u \in Threads : InClose(u)' => sk'[u] # socks'[f]
  <2> TAKE f \in Fds
  <2> HAVE socks'[f] # NULL
  <2>1. /\ socks' = socks /\ socks[f] # NULL /\ socks[f] \in Socks \ {o}
    BY <1>1, Zenon DEF OthersSame
  <2>2. /\ alloc[socks[f]] = "live"
        /\ \A g \in Fds : socks[g] = socks[f] => g = f
        /\ \A u \in Threads : InClose(u) => sk[u] # socks[f]
    BY <2>1, Zenon DEF RefCount
  <2>3. alloc'[socks[f]] = alloc[socks[f]]
    BY <2>1, Zenon DEF OthersSame
  <2> QED
    BY <1>2, <2>1, <2>2, <2>3, Zenon
<1>4. ASSUME NEW u \in Threads, NEW p \in Socks, InClose(u)', sk'[u] = p
      PROVE  /\ alloc'[p] = "live"
             /\ holds'[p] = 2 - Dropped(u)' + Cardinality(Holders(p)')
             /\ pc'[u] \in StopPcs \cup {"cl_free"} => Holders(p)' = {}
             /\ \A v \in Threads : InClose(v)' /\ sk'[v] = p => v = u
  <2>1. Holders(p)' = Holders(p)
    BY Zenon DEF OthersSame
  <2>2. InClose(u) /\ sk[u] = p
    BY <1>2, <1>4, Zenon
  <2>3. /\ alloc[p] = "live"
        /\ holds[p] = 2 - Dropped(u) + Cardinality(Holders(p))
        /\ pc[u] \in StopPcs \cup {"cl_free"} => Holders(p) = {}
        /\ \A v \in Threads : InClose(v) /\ sk[v] = p => v = u
    BY <2>2, Zenon DEF RefCount
  <2>4. \A v \in Threads : InClose(v)' /\ sk'[v] = p => v = u
    BY <1>2, <2>3, Zenon
  <2>5. CASE u = t
    <3>1. p = o
      BY <2>2, <2>5, Zenon
    <3> QED
      BY <1>4, <2>1, <2>4, <2>5, <3>1, Zenon DEF StillCounted, FreedUnheld
  <2>6. CASE u # t
    <3>1. p # o
      BY <1>1, <2>2, <2>6, Zenon
    <3>2. /\ alloc'[p] = alloc[p] /\ holds'[p] = holds[p]
          /\ Dropped(u)' = Dropped(u) /\ pc'[u] = pc[u]
      BY <2>6, <3>1, Zenon DEF OthersSame
    <3> QED
      BY <2>1, <2>3, <2>4, <3>2, Zenon
  <2> QED
    BY <2>5, <2>6, Zenon
<1>5. ASSUME NEW p \in Socks
      PROVE  /\ Holders(p)' # {} => alloc'[p] = "live"
             /\ (alloc'[p] = "live" /\ \A u \in Threads : InClose(u)' => sk'[u] # p)
                  => holds'[p] = 2 + Cardinality(Holders(p)')
  <2>1. Holders(p)' = Holders(p)
    BY Zenon DEF OthersSame
  <2>2. CASE p = o
    BY <2>1, <2>2, Zenon DEF StillCounted, FreedUnheld
  <2>3. CASE p # o
    <3>1. alloc'[p] = alloc[p] /\ holds'[p] = holds[p]
      BY <2>3, Zenon DEF OthersSame
    <3>2. (\A u \in Threads : InClose(u)' => sk'[u] # p) =>
            \A u \in Threads : InClose(u) => sk[u] # p
      BY <2>3, Zenon DEF OthersSame
    <3>3. /\ Holders(p) # {} => alloc[p] = "live"
          /\ (alloc[p] = "live" /\ \A u \in Threads : InClose(u) => sk[u] # p)
               => holds[p] = 2 + Cardinality(Holders(p))
      BY Zenon DEF RefCount
    <3> QED
      BY <2>1, <3>1, <3>2, <3>3, Zenon
  <2> QED
    BY <2>2, <2>3, Zenon
<1>6. \A f \in Fds : socks'[f] # NULL =>
        /\ alloc'[socks'[f]] = "live"
        /\ \A g \in Fds : socks'[g] = socks'[f] => g = f
        /\ \A u \in Threads : InClose(u)' => sk'[u] # socks'[f]
  BY <1>3, Zenon
<1>7. \A u \in Threads, p \in Socks : InClose(u)' /\ sk'[u] = p =>
        /\ alloc'[p] = "live"
        /\ holds'[p] = 2 - Dropped(u)' + Cardinality(Holders(p)')
        /\ pc'[u] \in StopPcs \cup {"cl_free"} => Holders(p)' = {}
        /\ \A v \in Threads : InClose(v)' /\ sk'[v] = p => v = u
  BY <1>4, Zenon
<1> QED
  BY <1>5, <1>6, <1>7, Zenon DEF RefCount

(* What RefCount says of the sock mb_close is about to drop or free. *)
LEMMA CloserCount ==
  ASSUME Frames, RefCount, NEW t \in Threads, InClose(t)
  PROVE  /\ sk[t] \in Socks /\ ~Holding(t)
         /\ holds[sk[t]] = 2 - Dropped(t) + Cardinality(Holders(sk[t]))
         /\ alloc[sk[t]] = "live"
         /\ pc[t] \in StopPcs \cup {"cl_free"} => Holders(sk[t]) = {}
<1>1. sk[t] \in Socks /\ ~Holding(t)
  BY Zenon DEF InClose, Holding, Frames, ClosePcs, HoldPcs, StopPcs
<1> QED
  BY <1>1, Zenon DEF RefCount

(* mb_close drops its references, waits for the others and frees the sock. *)
LEMMA CloseStepRef ==
  ASSUME Typing, Frames, RefCount, NEW t \in Threads,
         CloseRele(t) \/ CloseWait(t) \/ CloseFree(t)
  PROVE  RefCount' /\ \A p \in Socks : Holders(p)' = Holders(p)
<1>0. /\ pc \in [Threads -> Pcs] /\ sk \in [Threads -> Socks \cup {NULL}]
      /\ holds \in [Socks -> Int] /\ alloc \in [Socks -> {"none", "live", "freed"}]
      /\ \A f \in Fds : socks[f] # NULL => socks[f] \in Socks
  BY DEF Typing
<1>1. InClose(t)
  BY Zenon DEF CloseRele, CloseWait, CloseFree, InClose, Frames, ClosePcs, StopPcs
<1>2. PICK o \in Socks : o = sk[t]
  BY <1>1, CloserCount, Zenon
<1>3. /\ alloc[o] = "live" /\ holds[o] = 2 - Dropped(t) + Cardinality(Holders(o))
      /\ pc[t] \in StopPcs \cup {"cl_free"} => Holders(o) = {}
      /\ ~Holding(t)
  BY <1>1, <1>2, CloserCount, Zenon
<1>4. /\ \A u \in Threads \ {t} : pc'[u] = pc[u] /\ sk'[u] = sk[u]
      /\ UNCHANGED <<socks, op, osk>>
  BY <1>0, Zenon DEF CloseRele, CloseWait, CloseFree, Goto, gvars
<1>5. ~Holding(t)'
  <2>1. pc[t] \in ClosePcs /\ pc'[t] \in {"cl_rele2", "cl_wait", "st_begin", "cl_term"}
    BY <1>0, Zenon DEF CloseRele, CloseWait, CloseFree, Goto, ClosePcs
  <2>2. op[t] # "shutdown"
    BY <2>1, Zenon DEF Frames
  <2> QED
    BY <1>4, <2>1, <2>2, Zenon DEF Holding, HoldPcs, StopPcs
<1>6. \A p \in Socks : Holders(p)' = Holders(p)
  <2>1. \A u \in Threads \ {t} : Holding(u)' <=> Holding(u)
    BY <1>4, Zenon DEF Holding
  <2> QED
    BY <1>3, <1>4, <1>5, <2>1, Zenon DEF Holders
<1>7. \A u \in Threads \ {t} : (InClose(u)' <=> InClose(u)) /\ Dropped(u)' = Dropped(u)
  BY <1>4, Zenon DEF InClose, Dropped
<1>8. CASE CloseRele(t)
  <2>1. holds' = [holds EXCEPT ![o] = @ - 1] /\ alloc' = alloc /\ sk' = sk
    BY <1>2, <1>8, Zenon DEF CloseRele
  <2>2. \/ pc[t] = "cl_rele1" /\ pc'[t] = "cl_rele2"
        \/ pc[t] = "cl_rele2" /\ pc'[t] = "cl_wait"
    BY <1>0, <1>8, Zenon DEF CloseRele, Goto
  <2>3. /\ InClose(t)' /\ Dropped(t)' = Dropped(t) + 1 /\ Dropped(t) \in Int
        /\ pc'[t] \notin StopPcs \cup {"cl_free"}
    BY <2>2 DEF InClose, Dropped, ClosePcs, StopPcs
  <2>4. /\ holds'[o] = holds[o] - 1
        /\ \A p \in Socks \ {o} : holds'[p] = holds[p]
    BY <1>0, <2>1, Zenon
  <2>5. Cardinality(Holders(o)) \in Nat
    BY HoldersFinite, Zenon
  <2>6. holds'[o] = 2 - Dropped(t)' + Cardinality(Holders(o))
    BY <1>3, <2>3, <2>4, <2>5
  <2>7. StillCounted(t, o)
    BY <1>2, <1>3, <2>1, <2>3, <2>6, Zenon DEF StillCounted
  <2>8. OthersSame(t, o)
    BY <1>4, <1>6, <1>7, <2>1, <2>4, Zenon DEF OthersSame
  <2> QED
    BY <1>0, <1>1, <1>2, <1>6, <2>7, <2>8, CloserMoves, Zenon
<1>9. CASE CloseWait(t)
  <2>1. /\ UNCHANGED <<holds, alloc, sk>> /\ ~(holds[o] > 0)
        /\ pc[t] = "cl_wait" /\ pc'[t] = "st_begin"
    <3>1. pc' = [pc EXCEPT ![t] = "st_begin"]
      BY <1>9, Zenon DEF CloseWait, Goto
    <3>2. UNCHANGED <<holds, alloc, sk>> /\ ~(holds[o] > 0) /\ pc[t] = "cl_wait"
      BY <1>2, <1>9, Zenon DEF CloseWait, svars
    <3> QED
      BY <1>0, <3>1, <3>2, Zenon
  <2>2. op[t] # "shutdown"
    BY <2>1, Zenon DEF Frames, ClosePcs
  <2>3. InClose(t)' /\ Dropped(t)' = 2 /\ Dropped(t) = 2
    BY <1>4, <2>1, <2>2, Zenon DEF InClose, Dropped, ClosePcs, StopPcs
  <2>4. IsFiniteSet(Holders(o)) /\ Cardinality(Holders(o)) \in Nat
    BY HoldersFinite, Zenon
  <2>5. Cardinality(Holders(o)) = 0
    BY <1>3, <2>1, <2>3, <2>4
  <2>6. Holders(o) = {}
    BY <2>4, <2>5, FS_EmptySet, Zenon
  <2>7. StillCounted(t, o)
    BY <1>2, <1>3, <2>1, <2>3, <2>6, Zenon DEF StillCounted
  <2>8. OthersSame(t, o)
    BY <1>4, <1>6, <1>7, <2>1, Zenon DEF OthersSame
  <2> QED
    BY <1>0, <1>1, <1>2, <1>6, <2>7, <2>8, CloserMoves, Zenon
<1>10. CASE CloseFree(t)
  <2>1. /\ alloc' = [alloc EXCEPT ![o] = "freed"] /\ holds' = holds
        /\ pc[t] = "cl_free"
    BY <1>2, <1>10, Zenon DEF CloseFree
  <2>2. ~InClose(t)'
    BY <1>0, <1>10, Zenon DEF CloseFree, Goto, InClose, ClosePcs, StopPcs
  <2>3. /\ alloc'[o] = "freed"
        /\ \A p \in Socks \ {o} : alloc'[p] = alloc[p]
    BY <1>0, <2>1, Zenon
  <2>4. Holders(o) = {}
    BY <1>3, <2>1, Zenon
  <2>5. FreedUnheld(t, o)
    BY <2>2, <2>3, <2>4, Zenon DEF FreedUnheld
  <2>6. OthersSame(t, o)
    BY <1>4, <1>6, <1>7, <2>1, <2>3, Zenon DEF OthersSame
  <2> QED
    BY <1>0, <1>1, <1>2, <1>6, <2>5, <2>6, CloserMoves, Zenon
<1> QED
  BY <1>8, <1>9, <1>10, Zenon

(* A sock a thread still refers to has not been freed: its reference is counted. *)
LEMMA HeldLive ==
  ASSUME Typing, Frames, RefCount
  PROVE  NoUseAfterFree
<1>1. ASSUME NEW t \in Threads, Holding(t) PROVE alloc[sk[t]] = "live"
  <2>1. PICK o \in Socks : o = sk[t]
    BY <1>1, Zenon DEF Frames
  <2>2. <<t, "sk">> \in Holders(o)
    BY <1>1, <2>1, Zenon DEF Holders
  <2> QED
    BY <2>1, <2>2, Zenon DEF RefCount
<1>2. ASSUME NEW t \in Threads, osk[t] # NULL PROVE alloc[osk[t]] = "live"
  <2>1. PICK o \in Socks : o = osk[t]
    BY <1>2, Zenon DEF Typing
  <2>2. <<t, "osk">> \in Holders(o)
    BY <2>1, Zenon DEF Holders
  <2> QED
    BY <2>1, <2>2, Zenon DEF RefCount
<1>3. ASSUME NEW t \in Threads, InClose(t) PROVE alloc[sk[t]] = "live"
  BY <1>3, Zenon DEF RefCount, Frames
<1> QED
  BY <1>1, <1>2, <1>3, Zenon DEF NoUseAfterFree

(* A published sock with one reference besides the permanent two has one user. *)
LEMMA SoleHolder ==
  ASSUME Typing, RefCount, NEW o \in Socks, NEW x \in Holders(o), Published(o),
         ~(holds[o] > 3)
  PROVE  Holders(o) = {x}
<1>1. alloc[o] = "live" /\ \A u \in Threads : InClose(u) => sk[u] # o
  BY LifecycleAssumption DEF Published, RefCount
<1>2. holds[o] = 2 + Cardinality(Holders(o))
  BY <1>1, Zenon DEF RefCount
<1>3. IsFiniteSet(Holders(o)) /\ Cardinality(Holders(o)) \in Nat
  BY HoldersFinite, Zenon
<1>4. Cardinality(Holders(o)) <= 1
  BY <1>2, <1>3
<1>5. SUFFICES ASSUME NEW y \in Holders(o), y # x PROVE FALSE
  BY Zenon
<1>6. /\ IsFiniteSet(Holders(o) \ {y})
      /\ Cardinality(Holders(o) \ {y}) = Cardinality(Holders(o)) - 1
  BY <1>3, FS_RemoveElement, Zenon
<1>7. Cardinality(Holders(o) \ {y}) # 0
  BY <1>5, <1>6, FS_EmptySet
<1>8. Cardinality(Holders(o) \ {y}) \in Nat
  BY <1>6, FS_CardinalityType, Zenon
<1> QED
  BY <1>3, <1>4, <1>6, <1>7, <1>8

(* What the invariant says of the counts. *)
LEMMA CountsTell ==
  ASSUME IInv
  PROVE  CountFacts
<1>1. Typing /\ Frames /\ Table /\ RefCount
  BY Zenon DEF IInv
<1>2. NoUseAfterFree
  BY <1>1, HeldLive, Zenon
<1>3. ~ready => \A f \in Fds : socks[f] = NULL
  BY <1>1, UsedFinite, FS_EmptySet, Zenon DEF Table, Used
<1>4. \A o \in Socks, x \in CallFrames :
        x \in Holders(o) /\ Published(o) /\ ~(holds[o] > 3) => Holders(o) = {x}
  BY <1>1, SoleHolder, Zenon
<1> QED
  BY <1>2, <1>3, <1>4, Zenon DEF CountFacts
=============================================================================
