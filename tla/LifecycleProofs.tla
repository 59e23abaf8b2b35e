-------------------------- MODULE LifecycleProofs ---------------------------
(***************************************************************************)
(* The theorems about the socket table.  First, the steps that do not      *)
(* open, close or free a sock keep its reference count exact, and every    *)
(* step is one of SocketHandle; then the invariant is inductive, for every *)
(* number of threads, sockets and descriptors, and what follows from it.   *)
(***************************************************************************)
EXTENDS LifecycleTableProofs, LifecycleStopProofs

PastWait == StopPcs \cup {"cl_free"}

(* No mb_close begins, ends, drops a reference or stops waiting. *)
ClosersSame ==
  \A u \in Threads :
    /\ InClose(u)' <=> InClose(u)
    /\ InClose(u) => /\ sk'[u] = sk[u]
                     /\ Dropped(u)' = Dropped(u)
                     /\ pc'[u] \in PastWait => pc[u] \in PastWait

(* A step that leaves the table and mb_close alone keeps the count exact    *)
(* when holds moves with the holders, and admits none on an unpublished     *)
(* sock.                                                                    *)
LEMMA RefMoves ==
  ASSUME Typing, Frames, RefCount, ClosersSame, UNCHANGED <<socks, alloc>>,
         holds' \in [Socks -> Int],
         \A o \in Socks :
           /\ holds'[o] - Cardinality(Holders(o)') = holds[o] - Cardinality(Holders(o))
           /\ Cardinality(Holders(o)') \in Nat /\ Cardinality(Holders(o)) \in Nat
           /\ Holders(o)' # {} => alloc[o] = "live"
           /\ Holders(o) = {} /\ ~Published(o) => Holders(o)' = {}
  PROVE  RefCount'
<1> DEFINE C(o) == Cardinality(Holders(o))
           D(o) == Cardinality(Holders(o)')
<1>1. \A u \in Threads : Dropped(u) \in Int
  BY DEF Dropped
<1>2. \A u \in Threads, o \in Socks : InClose(u) /\ sk[u] = o => ~Published(o)
  BY LifecycleAssumption DEF RefCount, Published
<1>3. ASSUME NEW u \in Threads, NEW o \in Socks, InClose(u)', sk'[u] = o
      PROVE  /\ alloc'[o] = "live"
             /\ holds'[o] = 2 - Dropped(u)' + D(o)
             /\ pc'[u] \in PastWait => Holders(o)' = {}
             /\ \A v \in Threads : InClose(v)' /\ sk'[v] = o => v = u
  <2>1. InClose(u) /\ sk[u] = o /\ Dropped(u)' = Dropped(u)
    BY <1>3, Zenon DEF ClosersSame
  <2>2. /\ alloc[o] = "live"
        /\ holds[o] = 2 - Dropped(u) + C(o)
        /\ pc[u] \in PastWait => Holders(o) = {}
        /\ \A v \in Threads : InClose(v) /\ sk[v] = o => v = u
    BY <2>1, Zenon DEF RefCount, PastWait
  <2>3. holds'[o] - D(o) = holds[o] - C(o)
        /\ C(o) \in Nat /\ D(o) \in Nat /\ holds[o] \in Int /\ holds'[o] \in Int
    BY Zenon DEF Typing
  <2>4. holds'[o] = 2 - Dropped(u) + D(o)
    BY <2>2, <2>3, <1>1
  <2>5. pc'[u] \in PastWait => Holders(o)' = {}
    BY <2>1, <2>2, <1>2, Zenon DEF ClosersSame
  <2>6. \A v \in Threads : InClose(v)' /\ sk'[v] = o => v = u
    BY <2>2, Zenon DEF ClosersSame
  <2> QED
    BY <2>1, <2>2, <2>4, <2>5, <2>6, Zenon
<1>4. \A f \in Fds : socks'[f] # NULL =>
        /\ alloc'[socks'[f]] = "live"
        /\ \A g \in Fds : socks'[g] = socks'[f] => g = f
        /\ \A u \in Threads : InClose(u)' => sk'[u] # socks'[f]
  BY DEF RefCount, ClosersSame
<1>5. \A o \in Socks : Holders(o)' # {} => alloc'[o] = "live"
  BY Zenon
<1>6. ASSUME NEW o \in Socks, alloc'[o] = "live",
             \A u \in Threads : InClose(u)' => sk'[u] # o
      PROVE  holds'[o] = 2 + D(o)
  <2>1. holds[o] = 2 + C(o)
    BY <1>6 DEF RefCount, ClosersSame
  <2> QED
    BY <2>1 DEF Typing
<1> QED
  BY <1>3, <1>4, <1>5, <1>6 DEF RefCount, PastWait

(* No frame takes or drops a reference. *)
HoldsSame ==
  \A u \in Threads :
    /\ Holding(u)' <=> Holding(u)
    /\ Holding(u) => sk'[u] = sk[u]
    /\ osk'[u] = osk[u]

Quiet == ClosersSame /\ HoldsSame /\ UNCHANGED <<socks, alloc, holds>>

(* A step that moves no frame changes no set of holders. *)
LEMMA QuietHolders ==
  ASSUME HoldsSame
  PROVE  \A o \in Socks : Holders(o)' = Holders(o)
BY Zenon DEF HoldsSame, Holders

(* So it keeps the count exact. *)
LEMMA QuietRef ==
  ASSUME Typing, Frames, RefCount, Quiet
  PROVE  RefCount'
<1>1. \A o \in Socks : Holders(o)' = Holders(o)
  BY QuietHolders, Zenon DEF Quiet
<1>2. \A o \in Socks : Cardinality(Holders(o)) \in Nat /\ holds[o] \in Int
  BY HoldersFinite, Zenon DEF Typing
<1>3. ClosersSame /\ UNCHANGED <<socks, alloc, holds>> /\ holds \in [Socks -> Int]
  BY Zenon DEF Quiet, Typing
<1>4. \A o \in Socks : Holders(o) # {} => alloc[o] = "live"
  BY Zenon DEF RefCount
<1> QED
  BY <1>1, <1>2, <1>3, <1>4, RefMoves, Zenon

(* The steps that neither take nor drop a reference nor open, close, free. *)
QuietAction(t) ==
  \/ MbSocketFails(t) \/ MbTerm(t) \/ StartCrashes(t) \/ TermSlot(t)
  \/ TermCloseFails(t) \/ TermEnd(t) \/ CloseFlag(t) \/ CloseTerm(t)
  \/ StopBegin(t) \/ StopEpsDone(t) \/ StopBase(t) \/ IoTry(t) \/ IoAgain(t)
  \/ OptUse(t) \/ CoroCrashes(t) \/ CoroAgain(t) \/ ShutdownFlag(t)
  \/ ShutdownWait(t) \/ EpFails(t) \/ EpInsert(t) \/ EpDiscard(t)
  \/ EpStart(t)
  \/ \E e \in Eps : StopEp(t, e) \/ EpInit(t, e)

(* The actions that neither take nor drop a reference are such steps. *)
LEMMA QuietActions ==
  ASSUME Typing, Frames, NEW t \in Threads, QuietAction(t)
  PROVE  Quiet
<1> USE DEF Quiet, ClosersSame, HoldsSame, Holding, InClose, Dropped, PastWait,
            Typing, gvars, svars, evars, tvars, HoldPcs, ClosePcs, StopPcs
<1>1. ASSUME NEW e \in Eps, StopEp(t, e) PROVE Quiet
  BY <1>1, Zenon DEF StopEp
<1>2. ASSUME NEW e \in Eps, EpInit(t, e) PROVE Quiet
  BY <1>2 DEF EpInit, Goto
<1>3. CASE MbSocketFails(t)
  BY <1>3, Zenon DEF MbSocketFails
<1>4. CASE MbTerm(t)
  BY <1>4 DEF MbTerm
<1>5. CASE StartCrashes(t)
  BY <1>5, Zenon DEF StartCrashes, Crash
<1>6. CASE TermSlot(t)
  BY <1>6 DEF TermSlot, Goto
<1>7. CASE TermCloseFails(t)
  BY <1>7 DEF TermCloseFails, Goto
<1>8. CASE TermEnd(t)
  BY <1>8 DEF TermEnd, Return, Frames, TermPcs
<1>9. CASE CloseFlag(t)
  BY <1>9, Zenon DEF CloseFlag, Goto
<1>10. CASE CloseTerm(t)
  BY <1>10 DEF CloseTerm, Goto, Return, Frames
<1>11. CASE StopBegin(t)
  BY <1>11 DEF StopBegin, Goto, Frames
<1>12. CASE StopEpsDone(t)
  BY <1>12, ZenonT(30) DEF StopEpsDone, Goto
<1>13. CASE StopBase(t)
  BY <1>13 DEF StopBase, Goto, Frames
<1>14. CASE IoTry(t)
  BY <1>14 DEF IoTry, Goto
<1>15. CASE IoAgain(t)
  BY <1>15 DEF IoAgain, Goto
<1>16. CASE OptUse(t)
  BY <1>16, Zenon DEF OptUse, Goto
<1>17. CASE CoroCrashes(t)
  BY <1>17, Zenon DEF CoroCrashes, Crash
<1>18. CASE CoroAgain(t)
  BY <1>18 DEF CoroAgain, Goto
<1>19. CASE ShutdownFlag(t)
  BY <1>19, Zenon DEF ShutdownFlag, Goto
<1>20. CASE ShutdownWait(t)
  BY <1>20 DEF ShutdownWait, Goto, Frames
<1>21. CASE EpFails(t)
  BY <1>21, Zenon DEF EpFails, Goto
<1>22. CASE EpInsert(t)
  BY <1>22 DEF EpInsert, Goto
<1>23. CASE EpDiscard(t)
  BY <1>23, ZenonT(30) DEF EpDiscard, Goto
<1>24. CASE EpStart(t)
  BY <1>24 DEF EpStart, Goto
<1> HIDE DEF Quiet, ClosersSame, HoldsSame, Holding, InClose, Dropped, PastWait,
             Typing, gvars, svars, evars, tvars, HoldPcs, ClosePcs, StopPcs
<1> QED
  BY <1>1, <1>2, <1>3, <1>4, <1>5, <1>6, <1>7, <1>8, <1>9, <1>10, <1>11,
     <1>12, <1>13, <1>14, <1>15, <1>16, <1>17, <1>18, <1>19, <1>20, <1>21,
     <1>22, <1>23, <1>24, Zenon DEF QuietAction

-----------------------------------------------------------------------------
(* The steps that take or drop one reference. *)

(* The frame x begins to hold o, which is published. *)
Takes(o, x) ==
  /\ UNCHANGED <<socks, alloc>> /\ Published(o) /\ x \notin Holders(o)
  /\ Holders(o)' = Holders(o) \cup {x}
  /\ \A p \in Socks \ {o} : Holders(p)' = Holders(p)

(* The frame x lets go of o. *)
Drops(o, x) ==
  /\ UNCHANGED <<socks, alloc>> /\ x \in Holders(o)
  /\ Holders(o)' = Holders(o) \ {x}
  /\ \A p \in Socks \ {o} : Holders(p)' = Holders(p)

(* mb_global_hold_socket: one more holder, one more in holds. *)
LEMMA TakeRef ==
  ASSUME Typing, Frames, RefCount, ClosersSame, NEW o \in Socks,
         NEW x \in CallFrames, Takes(o, x), holds' = [holds EXCEPT ![o] = @ + 1]
  PROVE  RefCount' /\ \E p \in Socks, y \in CallFrames : Takes(p, y)
<1>0. /\ UNCHANGED <<socks, alloc>> /\ Published(o) /\ x \notin Holders(o)
      /\ Holders(o)' = Holders(o) \cup {x}
      /\ \A p \in Socks \ {o} : Holders(p)' = Holders(p)
  BY Zenon DEF Takes
<1>1. \A p \in Socks : IsFiniteSet(Holders(p)) /\ Cardinality(Holders(p)) \in Nat
  BY HoldersFinite, Zenon
<1>2. Cardinality(Holders(o) \cup {x}) = Cardinality(Holders(o)) + 1
  BY <1>0, <1>1, FS_AddElement, Zenon
<1>3. alloc[o] = "live"
  BY <1>0, LifecycleAssumption DEF RefCount, Published
<1>4. \A p \in Socks :
        /\ holds'[p] - Cardinality(Holders(p)') = holds[p] - Cardinality(Holders(p))
        /\ Cardinality(Holders(p)') \in Nat /\ Cardinality(Holders(p)) \in Nat
        /\ Holders(p)' # {} => alloc[p] = "live"
        /\ Holders(p) = {} /\ ~Published(p) => Holders(p)' = {}
  <2>1. ASSUME NEW p \in Socks \ {o}
        PROVE  Holders(p)' = Holders(p) /\ holds'[p] = holds[p] /\ holds[p] \in Int
    BY <1>0, Zenon DEF Typing
  <2>2. holds'[o] = holds[o] + 1 /\ holds[o] \in Int
    BY Zenon DEF Typing
  <2>3. \A p \in Socks : Holders(p) # {} => alloc[p] = "live"
    BY Zenon DEF RefCount
  <2>4. /\ holds'[o] - Cardinality(Holders(o)') = holds[o] - Cardinality(Holders(o))
        /\ Cardinality(Holders(o)') \in Nat
    BY <1>0, <1>1, <1>2, <2>2
  <2> QED
    BY <1>0, <1>1, <1>3, <2>1, <2>3, <2>4, Zenon
<1>5. holds' \in [Socks -> Int]
  BY DEF Typing
<1>6. RefCount'
  BY <1>0, <1>4, <1>5, RefMoves, Zenon
<1> QED
  BY <1>6, Zenon

(* mb_global_rele_socket: one holder less, one less in holds. *)
LEMMA DropRef ==
  ASSUME Typing, Frames, RefCount, ClosersSame, NEW o \in Socks,
         NEW x \in CallFrames, Drops(o, x), holds' = [holds EXCEPT ![o] = @ - 1]
  PROVE  RefCount' /\ \E p \in Socks, y \in CallFrames : Drops(p, y)
<1>0. /\ UNCHANGED <<socks, alloc>> /\ x \in Holders(o)
      /\ Holders(o)' = Holders(o) \ {x}
      /\ \A p \in Socks \ {o} : Holders(p)' = Holders(p)
  BY Zenon DEF Drops
<1>1. \A p \in Socks : IsFiniteSet(Holders(p)) /\ Cardinality(Holders(p)) \in Nat
  BY HoldersFinite, Zenon
<1>2. /\ IsFiniteSet(Holders(o) \ {x})
      /\ Cardinality(Holders(o) \ {x}) = Cardinality(Holders(o)) - 1
  BY <1>0, <1>1, FS_RemoveElement, Zenon
<1>3. Cardinality(Holders(o) \ {x}) \in Nat
  BY <1>2, FS_CardinalityType, Zenon
<1>4. \A p \in Socks :
        /\ holds'[p] - Cardinality(Holders(p)') = holds[p] - Cardinality(Holders(p))
        /\ Cardinality(Holders(p)') \in Nat /\ Cardinality(Holders(p)) \in Nat
        /\ Holders(p)' # {} => alloc[p] = "live"
        /\ Holders(p) = {} /\ ~Published(p) => Holders(p)' = {}
  <2>1. ASSUME NEW p \in Socks \ {o}
        PROVE  Holders(p)' = Holders(p) /\ holds'[p] = holds[p] /\ holds[p] \in Int
    BY <1>0, Zenon DEF Typing
  <2>2. holds'[o] = holds[o] - 1 /\ holds[o] \in Int
    BY Zenon DEF Typing
  <2>3. \A p \in Socks : Holders(p) # {} => alloc[p] = "live"
    BY Zenon DEF RefCount
  <2>4. holds'[o] - Cardinality(Holders(o)') = holds[o] - Cardinality(Holders(o))
    BY <1>0, <1>1, <1>2, <2>2
  <2> QED
    BY <1>0, <1>1, <1>3, <2>1, <2>3, <2>4, Zenon
<1>5. holds' \in [Socks -> Int]
  BY DEF Typing
<1>6. RefCount'
  BY <1>0, <1>4, <1>5, RefMoves, Zenon
<1> QED
  BY <1>6, Zenon

(* A call that enters through mb_global_hold_socket takes one reference. *)
LEMMA StartCallRef ==
  ASSUME Typing, Frames, RefCount, NEW t \in Threads,
         NEW c \in {"io", "coro", "ep", "opt", "shutdown"}, NEW s \in Fds,
         NEW n \in Timeouts, StartCall(t, c, s, n)
  PROVE  RefCount' /\ \E o \in Socks, x \in CallFrames : Takes(o, x)
<1>1. PICK o \in Socks : o = socks[s]
  BY DEF StartCall, CanHold, Typing
<1>2. Published(o)
  BY <1>1, Zenon DEF Published
<1>3. /\ pc[t] = "idle" /\ pc' = [pc EXCEPT ![t] = Entry(c)]
      /\ op' = [op EXCEPT ![t] = c] /\ holds' = [holds EXCEPT ![o] = @ + 1]
      /\ UNCHANGED <<socks, alloc>>
      /\ IF c = "coro" THEN osk' = [osk EXCEPT ![t] = o] /\ sk' = sk
                       ELSE sk' = [sk EXCEPT ![t] = o] /\ osk' = osk
  BY <1>1, Zenon DEF StartCall, Hold, Goto, gvars
<1>4. /\ c = "coro" => Entry(c) = "coro_call"
      /\ c # "coro" => Entry(c) \in HoldPcs
      /\ Entry(c) \notin ClosePcs \cup StopPcs
  BY Zenon DEF StartCall, Entry, HoldPcs, ClosePcs, StopPcs, AllOps
<1>5. ClosersSame
  BY <1>3, <1>4 DEF ClosersSame, InClose, Dropped, PastWait, ClosePcs, StopPcs, Typing
<1>6. ~Holding(t) /\ osk[t] = NULL /\ o # NULL
  BY <1>3, LifecycleAssumption, Zenon DEF Frames, Holding, HoldPcs, StopPcs
<1>7. \A u \in Threads \ {t} :
        (Holding(u)' <=> Holding(u)) /\ sk'[u] = sk[u] /\ osk'[u] = osk[u]
  BY <1>3 DEF Holding, Typing
<1>8. CASE c = "coro"
  <2>1. ~Holding(t)' /\ osk'[t] = o
    BY <1>3, <1>4, <1>8 DEF Holding, HoldPcs, StopPcs, Typing
  <2>2. /\ <<t, "osk">> \notin Holders(o)
        /\ Holders(o)' = Holders(o) \cup {<<t, "osk">>}
        /\ \A p \in Socks \ {o} : Holders(p)' = Holders(p)
    BY <1>6, <1>7, <2>1, LifecycleAssumption DEF Holders
  <2>3. Takes(o, <<t, "osk">>) /\ <<t, "osk">> \in CallFrames
    BY <1>2, <1>3, <2>2, Zenon DEF Takes, CallFrames
  <2> QED
    BY <1>3, <1>5, <2>3, TakeRef, Zenon
<1>9. CASE c # "coro"
  <2>1. Holding(t)' /\ sk'[t] = o /\ osk'[t] = NULL
    BY <1>3, <1>4, <1>6, <1>9 DEF Holding, Typing
  <2>2. /\ <<t, "sk">> \notin Holders(o)
        /\ Holders(o)' = Holders(o) \cup {<<t, "sk">>}
        /\ \A p \in Socks \ {o} : Holders(p)' = Holders(p)
    BY <1>6, <1>7, <2>1, LifecycleAssumption DEF Holders
  <2>3. Takes(o, <<t, "sk">>) /\ <<t, "sk">> \in CallFrames
    BY <1>2, <1>3, <2>2, Zenon DEF Takes, CallFrames
  <2> QED
    BY <1>3, <1>5, <2>3, TakeRef, Zenon
<1> QED
  BY <1>8, <1>9, Zenon

(* The call inside mb_co_send or mb_co_recv takes a reference of its own. *)
LEMMA CoroCallRef ==
  ASSUME Typing, Frames, RefCount, NEW t \in Threads, CoroCall(t)
  PROVE  RefCount' /\ (Quiet \/ \E o \in Socks, x \in CallFrames : Takes(o, x))
<1>1. pc[t] = "coro_call" /\ fd[t] \in Fds /\ UNCHANGED <<socks, alloc, op, osk>>
  BY Zenon DEF CoroCall, Frames, gvars
<1>2. CASE ~CanHold(fd[t])
  <2>1. Quiet
    BY <1>2 DEF CoroCall, Goto, Quiet, ClosersSame, HoldsSame, Holding, InClose,
       Dropped, PastWait, Typing, gvars, HoldPcs, ClosePcs, StopPcs
  <2> QED
    BY <2>1, QuietRef, Zenon
<1>3. CASE CanHold(fd[t])
  <2>1. PICK o \in Socks : o = socks[fd[t]]
    BY <1>1, <1>3 DEF CanHold, Typing
  <2>2. Published(o)
    BY <1>1, <2>1, Zenon DEF Published
  <2>3. /\ pc' = [pc EXCEPT ![t] = "io_try"] /\ sk' = [sk EXCEPT ![t] = o]
        /\ holds' = [holds EXCEPT ![o] = @ + 1]
    BY <1>3, <2>1, Zenon DEF CoroCall, Hold, Goto
  <2>4. ClosersSame
    BY <1>1, <2>3 DEF ClosersSame, InClose, Dropped, PastWait, ClosePcs, StopPcs, Typing
  <2>5. ~Holding(t) /\ Holding(t)' /\ sk'[t] = o
    BY <1>1, <2>3, Zenon DEF Holding, HoldPcs, StopPcs, Typing
  <2>6. \A u \in Threads \ {t} : (Holding(u)' <=> Holding(u)) /\ sk'[u] = sk[u]
    BY <1>1, <2>3 DEF Holding, Typing
  <2>7. /\ <<t, "sk">> \notin Holders(o)
        /\ Holders(o)' = Holders(o) \cup {<<t, "sk">>}
        /\ \A p \in Socks \ {o} : Holders(p)' = Holders(p)
    BY <1>1, <2>5, <2>6 DEF Holders
  <2>8. Takes(o, <<t, "sk">>) /\ <<t, "sk">> \in CallFrames
    BY <1>1, <2>2, <2>7, Zenon DEF Takes, CallFrames
  <2> QED
    BY <2>3, <2>4, <2>8, TakeRef, Zenon
<1> QED
  BY <1>2, <1>3, Zenon

(* A call that returns drops its reference. *)
LEMMA ReleRef ==
  ASSUME Typing, Frames, RefCount, NEW t \in Threads, Rele(t)
  PROVE  RefCount' /\ \E o \in Socks, x \in CallFrames : Drops(o, x)
<1>1. pc[t] \in {"rele", "rele_again"} /\ Holding(t) /\ sk[t] \in Socks
  BY Zenon DEF Rele, Holding, HoldPcs, Frames
<1>2. PICK o \in Socks : o = sk[t]
  BY <1>1, Zenon
<1>3. /\ holds' = [holds EXCEPT ![o] = @ - 1] /\ UNCHANGED <<socks, alloc>>
  BY <1>2, Zenon DEF Rele, gvars
<1>4. /\ pc'[t] \in {"idle", "coro_rele", "coro_again"}
      /\ \A u \in Threads \ {t} :
           pc'[u] = pc[u] /\ op'[u] = op[u] /\ sk'[u] = sk[u] /\ osk'[u] = osk[u]
  BY <1>1 DEF Rele, Goto, Return, Typing
<1>5. osk'[t] = osk[t]
  BY DEF Rele, Return, Typing, Frames
<1>6. ClosersSame
  BY <1>1, <1>4, Zenon DEF ClosersSame, InClose, Dropped, PastWait, ClosePcs, StopPcs
<1>7. ~Holding(t)'
  BY <1>4, Zenon DEF Holding, HoldPcs, StopPcs
<1>8. \A u \in Threads \ {t} : Holding(u)' <=> Holding(u)
  BY <1>4, Zenon DEF Holding
<1>9. /\ <<t, "sk">> \in Holders(o)
      /\ Holders(o)' = Holders(o) \ {<<t, "sk">>}
      /\ \A p \in Socks \ {o} : Holders(p)' = Holders(p)
  BY <1>1, <1>2, <1>4, <1>5, <1>7, <1>8 DEF Holders
<1>10. Drops(o, <<t, "sk">>) /\ <<t, "sk">> \in CallFrames
  BY <1>3, <1>9, Zenon DEF Drops, CallFrames
<1> QED
  BY <1>3, <1>6, <1>10, DropRef, Zenon

(* mb_co_send and mb_co_recv drop the outer reference when they return. *)
LEMMA CoroReleRef ==
  ASSUME Typing, Frames, RefCount, NEW t \in Threads, CoroRele(t)
  PROVE  RefCount' /\ \E o \in Socks, x \in CallFrames : Drops(o, x)
<1>1. pc[t] = "coro_rele" /\ osk[t] \in Socks /\ ~Holding(t)
  BY Zenon DEF CoroRele, Holding, HoldPcs, StopPcs, CoroPcs, Frames, Typing
<1>2. PICK o \in Socks : o = osk[t]
  BY <1>1, Zenon
<1>3. /\ holds' = [holds EXCEPT ![o] = @ - 1] /\ UNCHANGED <<socks, alloc>>
      /\ pc'[t] = "idle" /\ osk'[t] = NULL
      /\ \A u \in Threads \ {t} :
           pc'[u] = pc[u] /\ op'[u] = op[u] /\ sk'[u] = sk[u] /\ osk'[u] = osk[u]
  BY <1>2 DEF CoroRele, Return, gvars, Typing
<1>4. ClosersSame
  BY <1>1, <1>3, Zenon DEF ClosersSame, InClose, Dropped, PastWait, ClosePcs, StopPcs
<1>5. ~Holding(t)' /\ \A u \in Threads \ {t} : Holding(u)' <=> Holding(u)
  BY <1>3, Zenon DEF Holding, HoldPcs, StopPcs
<1>6. /\ <<t, "osk">> \in Holders(o)
      /\ Holders(o)' = Holders(o) \ {<<t, "osk">>}
      /\ \A p \in Socks \ {o} : Holders(p)' = Holders(p)
  BY <1>1, <1>2, <1>3, <1>5, LifecycleAssumption DEF Holders
<1>7. Drops(o, <<t, "osk">>) /\ <<t, "osk">> \in CallFrames
  BY <1>3, <1>6, Zenon DEF Drops, CallFrames
<1> QED
  BY <1>3, <1>4, <1>7, DropRef, Zenon

-----------------------------------------------------------------------------
(* The table implements SocketHandle, step by step. *)

(* A step of SocketHandle is one of its operations, or changes nothing. *)
LEMMA HandleStep ==
  ASSUME NEW o \in Socks,
         \/ Handle!Open(o) \/ Handle!Close(o) \/ Handle!Free(o)
         \/ \E x \in CallFrames : Handle!Acquire(o, x) \/ Handle!Release(o, x)
  PROVE  [Handle!Next]_(Handle!hvars)
BY Zenon DEF Handle!Next, CallFrames

(* The phase of a sock depends on the table and on its memory only. *)
LEMMA PhaseSame ==
  ASSUME UNCHANGED <<socks, alloc>>
  PROVE  \A o \in Socks : Phase(o)' = Phase(o)
BY Zenon DEF Phase, Published

(* A call that takes or drops its reference acquires or releases the sock. *)
LEMMA HolderMoves ==
  ASSUME RefCount, NEW o \in Socks, NEW x \in CallFrames, Takes(o, x) \/ Drops(o, x)
  PROVE  [Handle!Next]_(Handle!hvars)
<1>1. \A p \in Socks : Phase(p)' = Phase(p)
  BY PhaseSame, Zenon DEF Takes, Drops
<1>2. CASE Takes(o, x)
  <2>1. Phase(o) = "open"
    <3>1. Published(o) /\ alloc[o] = "live"
      BY <1>2, LifecycleAssumption DEF Takes, Published, RefCount
    <3> QED
      BY <3>1, Zenon DEF Phase
  <2>2. Handle!Acquire(o, x)
    BY <1>1, <1>2, <2>1, Zenon DEF Takes, Handle!Acquire
  <2> QED
    BY <2>2, HandleStep, Zenon
<1>3. CASE Drops(o, x)
  <2>1. Handle!Release(o, x)
    BY <1>1, <1>3, Zenon DEF Drops, Handle!Release
  <2> QED
    BY <2>1, HandleStep, Zenon
<1> QED
  BY <1>2, <1>3, Zenon

(* A step that moves neither the table, nor memory, nor a user. *)
LEMMA HandleStutter ==
  ASSUME UNCHANGED <<socks, alloc>>, \A p \in Socks : Holders(p)' = Holders(p)
  PROVE  [Handle!Next]_(Handle!hvars)
<1>1. \A p \in Socks : Phase(p)' = Phase(p)
  BY PhaseSame, Zenon
<1>2. UNCHANGED Handle!hvars
  BY <1>1, Zenon DEF Handle!hvars
<1> QED
  BY <1>2, Zenon

(* One sock changes its phase and no user comes or goes. *)
LEMMA PhaseMoves ==
  ASSUME NEW o \in Socks, \A p \in Socks : Holders(p)' = Holders(p),
         \A p \in Socks \ {o} : Phase(p)' = Phase(p),
         \/ Phase(o) = "none" /\ Phase(o)' = "open"
         \/ Phase(o) = "open" /\ Phase(o)' = "closing"
         \/ Phase(o) = "closing" /\ Phase(o)' = "freed" /\ Holders(o) = {}
  PROVE  [Handle!Next]_(Handle!hvars)
<1>1. Handle!Open(o) \/ Handle!Close(o) \/ Handle!Free(o)
  BY Zenon DEF Handle!Open, Handle!Close, Handle!Free
<1> QED
  BY <1>1, HandleStep, Zenon

(* mb_socket opens a sock. *)
LEMMA MbSocketOpens ==
  ASSUME Typing, Frames, Table, RefCount, NEW t \in Threads, NEW o \in Socks,
         MbSocket(t, o)
  PROVE  [Handle!Next]_(Handle!hvars)
<1>1. PICK s \in Fds : socks[s] = NULL /\ socks' = [socks EXCEPT ![s] = o]
  BY CreateTable, Zenon
<1>2. alloc[o] = "none" /\ alloc' = [alloc EXCEPT ![o] = "live"]
  BY Zenon DEF MbSocket, CreateSocket
<1>3. /\ socks \in [Fds -> Socks \cup {NULL}]
      /\ alloc \in [Socks -> {"none", "live", "freed"}]
  BY Zenon DEF Typing
<1>4. Published(o)' /\ \A p \in Socks \ {o} : Published(p)' <=> Published(p)
  BY <1>1, <1>3, LifecycleAssumption, Zenon DEF Published
<1>5. alloc'[o] = "live" /\ \A p \in Socks \ {o} : alloc'[p] = alloc[p]
  BY <1>2, <1>3, Zenon
<1>6. Phase(o) = "none" /\ Phase(o)' = "open"
  BY <1>2, <1>4, <1>5, Zenon DEF Phase
<1>7. \A p \in Socks \ {o} : Phase(p)' = Phase(p)
  BY <1>4, <1>5, Zenon DEF Phase
<1>8. \A p \in Socks : Holders(p)' = Holders(p)
  BY MbSocketRef, Zenon
<1> QED
  BY <1>6, <1>7, <1>8, PhaseMoves, Zenon

(* mb_close, of the application or of mb_term, closes the sock of its slot. *)
LEMMA UnpublishCloses ==
  ASSUME Typing, Frames, RefCount, NEW t \in Threads, NEW s \in Fds,
         Unpublish(t, s), \A p \in Socks : Holders(p)' = Holders(p)
  PROVE  [Handle!Next]_(Handle!hvars)
<1>1. PICK o \in Socks : o = socks[s]
  BY DEF Unpublish, Typing
<1>2. socks' = [socks EXCEPT ![s] = NULL] /\ UNCHANGED alloc
  BY Zenon DEF Unpublish, svars
<1>3. alloc[o] = "live" /\ \A g \in Fds : socks[g] = o => g = s
  BY <1>1, LifecycleAssumption, Zenon DEF RefCount
<1>4. socks \in [Fds -> Socks \cup {NULL}]
  BY Zenon DEF Typing
<1>5. Published(o) /\ ~Published(o)'
  BY <1>1, <1>2, <1>3, <1>4, LifecycleAssumption, Zenon DEF Published
<1>6. \A p \in Socks \ {o} : Published(p)' <=> Published(p)
  BY <1>1, <1>2, <1>4, LifecycleAssumption, Zenon DEF Published
<1>7. Phase(o) = "open" /\ Phase(o)' = "closing"
  BY <1>2, <1>3, <1>5, Zenon DEF Phase
<1>8. \A p \in Socks \ {o} : Phase(p)' = Phase(p)
  BY <1>2, <1>6, Zenon DEF Phase
<1> QED
  BY <1>7, <1>8, PhaseMoves, Zenon

(* mb_free ends a sock that is closed and that nobody uses. *)
LEMMA CloseFreeFrees ==
  ASSUME Typing, Frames, RefCount, NEW t \in Threads, CloseFree(t)
  PROVE  [Handle!Next]_(Handle!hvars)
<1>1. InClose(t) /\ pc[t] = "cl_free"
  BY Zenon DEF CloseFree, InClose, ClosePcs, Frames
<1>2. /\ sk[t] \in Socks /\ alloc[sk[t]] = "live" /\ Holders(sk[t]) = {}
  BY <1>1, CloserCount, Zenon
<1>3. PICK o \in Socks : o = sk[t] /\ alloc[o] = "live" /\ Holders(o) = {}
  BY <1>2, Zenon
<1>4. ~Published(o)
  BY <1>1, <1>3, LifecycleAssumption DEF RefCount, Published
<1>5. UNCHANGED socks /\ alloc' = [alloc EXCEPT ![o] = "freed"]
  BY <1>3, Zenon DEF CloseFree, gvars
<1>6. alloc'[o] = "freed" /\ \A p \in Socks \ {o} : alloc'[p] = alloc[p]
  BY <1>5, Zenon DEF Typing
<1>7. Phase(o) = "closing" /\ Phase(o)' = "freed"
  BY <1>3, <1>4, <1>6, Zenon DEF Phase
<1>8. \A p \in Socks \ {o} : Phase(p)' = Phase(p)
  BY <1>5, <1>6, Zenon DEF Phase, Published
<1>9. \A p \in Socks : Holders(p)' = Holders(p)
  BY CloseStepRef, Zenon
<1> QED
  BY <1>3, <1>7, <1>8, <1>9, PhaseMoves, Zenon

(* Every action of a thread is a step of SocketHandle, or a stutter. *)
LEMMA StepImplements ==
  ASSUME IInv, NEW t \in Threads, Begin(t) \/ Step(t)
  PROVE  [Handle!Next]_(Handle!hvars)
<1> DEFINE H == [Handle!Next]_(Handle!hvars)
<1>1. Typing /\ Frames /\ Table /\ RefCount
  BY Zenon DEF IInv
<1>q. ASSUME Quiet PROVE H
  <2>1. UNCHANGED <<socks, alloc>> /\ \A p \in Socks : Holders(p)' = Holders(p)
    BY <1>q, QuietHolders, Zenon DEF Quiet
  <2> QED
    BY <2>1, HandleStutter, Zenon
<1> HIDE DEF H
<1>2. ASSUME QuietAction(t) PROVE H
  BY <1>1, <1>2, <1>q, QuietActions, Zenon
<1>3. ASSUME NEW o \in Socks, MbSocket(t, o) PROVE H
  BY <1>1, <1>3, MbSocketOpens, Zenon DEF H
<1>4. ASSUME NEW s \in Fds, MbClose(t, s) PROVE H
  <2>1. /\ pc[t] \in {"idle", "tm_close"} /\ Unpublish(t, s)
        /\ op'[t] \in {"close", "term"} /\ \A u \in Threads \ {t} : op'[u] = op[u]
    BY <1>1, <1>4 DEF MbClose, Typing
  <2>2. \A p \in Socks : Holders(p)' = Holders(p)
    BY <1>1, <2>1, UnpublishRef, Zenon
  <2> QED
    BY <1>1, <2>1, <2>2, UnpublishCloses, Zenon DEF H
<1>5. ASSUME TermClose(t) PROVE H
  <2>1. /\ pc[t] \in {"idle", "tm_close"} /\ Unpublish(t, fd[t]) /\ fd[t] \in Fds
        /\ op'[t] \in {"close", "term"} /\ \A u \in Threads \ {t} : op'[u] = op[u]
    BY <1>1, <1>5, Zenon DEF TermClose, Typing, Frames, TermPcs
  <2>2. \A p \in Socks : Holders(p)' = Holders(p)
    BY <1>1, <2>1, UnpublishRef, Zenon
  <2> QED
    BY <1>1, <2>1, <2>2, UnpublishCloses, Zenon DEF H
<1>6. ASSUME CloseRele(t) \/ CloseWait(t) PROVE H
  <2>1. UNCHANGED <<socks, alloc>>
    BY <1>6, Zenon DEF CloseRele, CloseWait, gvars, svars
  <2>2. \A p \in Socks : Holders(p)' = Holders(p)
    BY <1>1, <1>6, CloseStepRef, Zenon
  <2> QED
    BY <2>1, <2>2, HandleStutter, Zenon DEF H
<1>7. ASSUME CloseFree(t) PROVE H
  BY <1>1, <1>7, CloseFreeFrees, Zenon DEF H
<1>8. ASSUME NEW o \in Socks, NEW x \in CallFrames, Takes(o, x) \/ Drops(o, x) PROVE H
  BY <1>1, <1>8, HolderMoves, Zenon DEF H
<1>9. ASSUME NEW c \in {"io", "coro", "ep", "opt", "shutdown"}, NEW s \in Fds,
             NEW n \in Timeouts, StartCall(t, c, s, n)
      PROVE  H
  BY <1>1, <1>8, <1>9, StartCallRef, Zenon
<1>10. ASSUME CoroCall(t) PROVE H
  BY <1>1, <1>q, <1>8, <1>10, CoroCallRef, Zenon
<1>11. ASSUME Rele(t) PROVE H
  BY <1>1, <1>8, <1>11, ReleRef, Zenon
<1>12. ASSUME CoroRele(t) PROVE H
  BY <1>1, <1>8, <1>12, CoroReleRef, Zenon
<1>13. H
  BY <1>2, <1>3, <1>4, <1>5, <1>6, <1>7, <1>9, <1>10, <1>11, <1>12, Zenon
  DEF Begin, Step, QuietAction
<1> QED
  BY <1>13, Zenon DEF H

-----------------------------------------------------------------------------
(* The inductive invariant *)

(* Every action keeps the count exact, by the lemma of its kind. *)
LEMMA RefCountStep ==
  ASSUME IInv, NEW t \in Threads, Begin(t) \/ Step(t)
  PROVE  RefCount'
<1>1. Typing /\ Frames /\ Table /\ RefCount
  BY Zenon DEF IInv
<1>2. CASE QuietAction(t)
  BY <1>1, <1>2, QuietActions, QuietRef, Zenon
<1>3. ASSUME NEW o \in Socks, MbSocket(t, o) PROVE RefCount'
  BY <1>1, <1>3, MbSocketRef, Zenon
<1>4. ASSUME NEW s \in Fds, MbClose(t, s) PROVE RefCount'
  <2>1. /\ pc[t] \in {"idle", "tm_close"} /\ Unpublish(t, s)
        /\ op'[t] \in {"close", "term"} /\ \A u \in Threads \ {t} : op'[u] = op[u]
    BY <1>1, <1>4 DEF MbClose, Typing
  <2> QED
    BY <1>1, <2>1, UnpublishRef, Zenon
<1>5. CASE TermClose(t)
  <2>1. /\ pc[t] \in {"idle", "tm_close"} /\ Unpublish(t, fd[t]) /\ fd[t] \in Fds
        /\ op'[t] \in {"close", "term"} /\ \A u \in Threads \ {t} : op'[u] = op[u]
    BY <1>1, <1>5, Zenon DEF TermClose, Typing, Frames, TermPcs
  <2> QED
    BY <1>1, <2>1, UnpublishRef, Zenon
<1>6. CASE CloseRele(t) \/ CloseWait(t) \/ CloseFree(t)
  BY <1>1, <1>6, CloseStepRef, Zenon
<1>7. ASSUME NEW c \in {"io", "coro", "ep", "opt", "shutdown"}, NEW s \in Fds,
             NEW n \in Timeouts, StartCall(t, c, s, n)
      PROVE  RefCount'
  BY <1>1, <1>7, StartCallRef, Zenon
<1>8. CASE CoroCall(t)
  BY <1>1, <1>8, CoroCallRef, Zenon
<1>9. CASE Rele(t)
  BY <1>1, <1>9, ReleRef, Zenon
<1>10. CASE CoroRele(t)
  BY <1>1, <1>10, CoroReleRef, Zenon
<1> QED
  BY <1>2, <1>3, <1>4, <1>5, <1>6, <1>7, <1>8, <1>9, <1>10, Zenon
  DEF Begin, Step, QuietAction

(* A sock that is not allocated keeps holds at zero: nobody may touch it. *)
LEMMA DeadStep ==
  ASSUME IInv, NEW t \in Threads, Begin(t) \/ Step(t)
  PROVE  Dead'
<1>1. Typing /\ Frames /\ Table /\ RefCount /\ Dead
  BY Zenon DEF IInv
<1>2. CASE QuietAction(t)
  BY <1>1, <1>2, QuietActions, Zenon DEF Quiet, Dead
<1>3. ASSUME NEW o \in Socks, MbSocket(t, o) PROVE Dead'
  BY <1>1, <1>3, Zenon DEF MbSocket, CreateSocket, Dead, Typing
<1>4. CASE (\E s \in Fds : MbClose(t, s)) \/ TermClose(t) \/ CloseWait(t)
  BY <1>1, <1>4, Zenon DEF MbClose, TermClose, Unpublish, CloseWait, Dead, svars
<1>5. CASE CloseRele(t) \/ CloseFree(t)
  <2>1. InClose(t) /\ sk[t] \in Socks
    BY <1>1, <1>5, Zenon DEF CloseRele, CloseFree, InClose, Frames, ClosePcs
  <2>2. PICK o \in Socks : o = sk[t]
    BY <2>1, Zenon
  <2>3. alloc[o] = "live" /\ (pc[t] = "cl_free" => holds[o] = 0)
    <3>1. /\ alloc[o] = "live" /\ holds[o] = 2 - Dropped(t) + Cardinality(Holders(o))
          /\ pc[t] = "cl_free" => Holders(o) = {}
      BY <1>1, <2>1, <2>2, Zenon DEF RefCount
    <3>2. pc[t] = "cl_free" => Dropped(t) = 2
      BY Zenon DEF Dropped
    <3> QED
      BY <3>1, <3>2, FS_EmptySet
  <2> QED
    BY <1>1, <1>5, <2>2, <2>3 DEF CloseRele, CloseFree, Dead, Typing
<1>7. ASSUME NEW c \in {"io", "coro", "ep", "opt", "shutdown"}, NEW s \in Fds,
             NEW n \in Timeouts, StartCall(t, c, s, n)
      PROVE  Dead'
  <2>1. /\ socks[s] \in Socks /\ alloc[socks[s]] = "live" /\ alloc' = alloc
        /\ holds' = [holds EXCEPT ![socks[s]] = @ + 1]
    BY <1>1, <1>7 DEF StartCall, CanHold, Hold, RefCount, Typing
  <2> QED
    BY <1>1, <2>1, Zenon DEF Dead, Typing
<1>8. CASE CoroCall(t)
  <2>1. CASE CanHold(fd[t])
    <3>0. fd[t] \in Fds
      BY <1>1, <1>8 DEF CoroCall, Frames
    <3>1. /\ socks[fd[t]] \in Socks /\ alloc[socks[fd[t]]] = "live" /\ alloc' = alloc
          /\ holds' = [holds EXCEPT ![socks[fd[t]]] = @ + 1]
      BY <1>1, <1>8, <2>1, <3>0 DEF CoroCall, CanHold, Hold, RefCount, Typing
    <3> QED
      BY <1>1, <3>1, Zenon DEF Dead, Typing
  <2>2. CASE ~CanHold(fd[t])
    BY <1>1, <1>8, <2>2, Zenon DEF CoroCall, Dead
  <2> QED
    BY <2>1, <2>2, Zenon
<1>9. CASE Rele(t)
  <2>1. Holding(t) /\ sk[t] \in Socks
    BY <1>1, <1>9, Zenon DEF Rele, Holding, HoldPcs, Frames
  <2>2. alloc[sk[t]] = "live"
    BY <1>1, <2>1, HeldLive, Zenon DEF NoUseAfterFree
  <2> QED
    BY <1>1, <1>9, <2>1, <2>2, Zenon DEF Rele, Dead, Typing
<1>10. CASE CoroRele(t)
  <2>1. osk[t] \in Socks
    BY <1>1, <1>10, Zenon DEF CoroRele, CoroPcs, Frames, Typing
  <2>2. alloc[osk[t]] = "live"
    BY <1>1, <2>1, HeldLive, LifecycleAssumption, Zenon DEF NoUseAfterFree
  <2> QED
    BY <1>1, <1>10, <2>1, <2>2, Zenon DEF CoroRele, Dead, Typing
<1> QED
  BY <1>2, <1>3, <1>4, <1>5, <1>7, <1>8, <1>9, <1>10, Zenon
  DEF Begin, Step, QuietAction

(* The invariant holds before the first call. *)
LEMMA InitIInv == Init => IInv
<1> SUFFICES ASSUME Init PROVE IInv
  BY Zenon
<1>1. Typing
  <2>1. unused \in [Fds -> Fds] /\ nsocks \in 0 .. MAX_SOCKETS
    BY LifecycleAssumption DEF Init, Fds
  <2>2. /\ stopping \in [Socks -> BOOLEAN] /\ ready \in BOOLEAN
        /\ inited \in BOOLEAN /\ crashed \in BOOLEAN
    BY Zenon DEF Init
  <2>3. fd \in [Threads -> 0 .. MAX_SOCKETS] /\ pc \in [Threads -> Pcs]
    BY LifecycleAssumption DEF Init, Pcs
  <2> QED
    BY <2>1, <2>2, <2>3 DEF Init, Typing
<1>2. Frames
  BY LifecycleAssumption DEF Init, Frames, Holding, InClose, HoldPcs, ClosePcs,
     StopPcs, CoroPcs, TermPcs, Fds
<1>3. Table
  <2>1. Used = {} /\ nsocks = Cardinality(Used)
    BY FS_EmptySet, Zenon DEF Init, Used
  <2> QED
    BY <2>1, LifecycleAssumption, Zenon DEF Init, Table, FreeStack, Fds
<1>4. RefCount
  <2>1. /\ \A o \in Socks : Holders(o) = {} /\ alloc[o] = "none"
        /\ \A t \in Threads : ~InClose(t)
        /\ \A f \in Fds : socks[f] = NULL
    BY LifecycleAssumption, Zenon DEF Init, Holders, Holding, InClose, HoldPcs,
       ClosePcs, StopPcs
  <2> QED
    BY <2>1, Zenon DEF RefCount
<1>5. Dead
  BY Zenon DEF Init, Dead
<1> QED
  BY <1>1, <1>2, <1>3, <1>4, <1>5, Zenon DEF IInv

(* Every step preserves the invariant. *)
LEMMA NextIInv == IInv /\ [Next]_vars => IInv'
<1>1. ASSUME IInv, UNCHANGED vars PROVE IInv'
  <2>1. /\ UNCHANGED gvars /\ UNCHANGED svars /\ UNCHANGED evars
        /\ UNCHANGED tvars /\ UNCHANGED crashed
    BY <1>1, Zenon DEF vars
  <2>2. Typing'
    BY <1>1, <2>1, Zenon DEF IInv, Typing, gvars, svars, evars, tvars
  <2>3. Frames'
    BY <1>1, <2>1 DEF IInv, Frames, Holding, InClose, tvars
  <2>4. Table'
    BY <1>1, <2>1, ZenonT(30) DEF IInv, Table, FreeStack, Used, gvars
  <2>5. RefCount'
    <3>1. Quiet
      BY <2>1, Zenon DEF Quiet, ClosersSame, HoldsSame, Holding, InClose, Dropped,
         gvars, svars, tvars
    <3> QED
      BY <1>1, <3>1, QuietRef, Zenon DEF IInv
  <2>6. Dead'
    BY <1>1, <2>1, Zenon DEF IInv, Dead, svars
  <2> QED
    BY <2>2, <2>3, <2>4, <2>5, <2>6, Zenon DEF IInv
<1>2. ASSUME IInv, NEW t \in Threads, Begin(t) \/ Step(t) PROVE IInv'
  <2>1. Typing' /\ Frames' /\ Table'
    BY <1>2, TableMovesStep, TypingStep, FramesStep, TableStep, Zenon
  <2>2. RefCount' /\ Dead'
    BY <1>2, RefCountStep, DeadStep, Zenon
  <2> QED
    BY <2>1, <2>2, Zenon DEF IInv
<1> QED
  BY <1>1, <1>2, Zenon DEF Next

(* Hence the invariant holds in every reachable state. *)
LEMMA Inductive == Spec => []IInv
BY InitIInv, NextIInv, PTL DEF Spec

(* Every variable of the library keeps its declared range; in particular no *)
(* interleaving of mb_socket, mb_close, mb_term, mb_shutdown and the calls  *)
(* that use a socket drives sock->holds below zero.                         *)
THEOREM TypeCorrect == Spec => []TypeOK
<1>1. IInv => TypeOK
  <2> SUFFICES ASSUME IInv PROVE TypeOK
    BY Zenon
  <2>1. ASSUME NEW o \in Socks PROVE holds[o] \in Nat
    <3>1. Cardinality(Holders(o)) \in Nat
      BY HoldersFinite, Zenon
    <3>2. CASE alloc[o] # "live"
      BY <3>2 DEF IInv, Dead
    <3>3. CASE \E t \in Threads : InClose(t) /\ sk[t] = o
      <4>1. PICK t \in Threads : InClose(t) /\ sk[t] = o
        BY <3>3, Zenon
      <4>2. holds[o] = 2 - Dropped(t) + Cardinality(Holders(o))
        BY <4>1, Zenon DEF IInv, RefCount
      <4>3. Dropped(t) \in 0 .. 2
        BY DEF Dropped
      <4> QED
        BY <3>1, <4>2, <4>3
    <3>4. CASE alloc[o] = "live" /\ \A t \in Threads : InClose(t) => sk[t] # o
      <4>1. holds[o] = 2 + Cardinality(Holders(o))
        BY <3>4, Zenon DEF IInv, RefCount
      <4> QED
        BY <3>1, <4>1
    <3> QED
      BY <3>2, <3>3, <3>4, Zenon
  <2>2. holds \in [Socks -> Nat]
    BY <2>1, Zenon DEF IInv, Typing
  <2> QED
    BY <2>2, Zenon DEF IInv, Typing, TypeOK
<1> QED
  BY <1>1, Inductive, PTL

(* g_self.unused is always a stack without repetitions of exactly the free  *)
(* descriptors, so mb_socket never hands out a descriptor twice.            *)
THEOREM FreeStackCorrect == Spec => []FreeStack
<1>1. IInv => FreeStack
  BY Zenon DEF IInv, Table
<1> QED
  BY <1>1, Inductive, PTL

(* sock->holds is exact in every state: two permanent references less those *)
(* mb_close has dropped, plus one for each frame between                    *)
(* mb_global_hold_socket and mb_global_rele_socket.                         *)
THEOREM RefCountExact == Spec => []RefCount
<1>1. IInv => RefCount
  BY Zenon DEF IInv
<1> QED
  BY <1>1, Inductive, PTL

(* mb_close never frees a sock some call still holds, whatever the calls,   *)
(* their number and their interleaving.                                     *)
THEOREM SafeReclamation == Spec => []NoUseAfterFree
<1>1. IInv => NoUseAfterFree
  BY HeldLive, Zenon DEF IInv
<1> QED
  BY <1>1, Inductive, PTL

(* The socket table keeps the promise of SocketHandle: whatever the calls   *)
(* and their interleaving, mb_global_hold_socket admits users of an open    *)
(* socket only, and mb_close frees a sock only after its last user left.    *)
THEOREM TableImplementsHandle == Spec => ImplementsHandle
<1>1. Init => Handle!Init
  <2> SUFFICES ASSUME Init PROVE Handle!Init
    BY Zenon
  <2>1. \A o \in Socks : Phase(o) = "none" /\ Holders(o) = {}
    BY LifecycleAssumption, Zenon DEF Init, Phase, Holders, Holding, HoldPcs, StopPcs
  <2> QED
    BY <2>1, Zenon DEF Handle!Init
<1>2. IInv /\ [Next]_vars => [Handle!Next]_(Handle!hvars)
  <2>1. ASSUME IInv, UNCHANGED vars PROVE [Handle!Next]_(Handle!hvars)
    <3>1. UNCHANGED <<socks, alloc>> /\ HoldsSame
      BY <2>1, Zenon DEF vars, gvars, svars, tvars, HoldsSame, Holding
    <3> QED
      BY <3>1, QuietHolders, HandleStutter, Zenon
  <2> QED
    BY <2>1, StepImplements, Zenon DEF Next
<1> QED
  BY <1>1, <1>2, Inductive, PTL DEF Spec, ImplementsHandle, Handle!Spec

-----------------------------------------------------------------------------
(* The teardown and mb_term. *)

(* The second invariant holds in every reachable state. *)
LEMMA StopInductive == Spec => []SInv
<1>1. IInv /\ SInv /\ [Next]_vars => SInv'
  BY CountsTell, TableMovesStep, StopStep, StopStutter, Zenon DEF Next
<1> QED
  BY <1>1, InitSInv, Inductive, PTL DEF Spec

(* Whatever mb_shutdown and mb_close calls meet on a sock, one thread only  *)
(* runs the body of mb_sock_stop, and mb_close frees the sock only when its *)
(* protocol object and every endpoint ever made for it are gone.            *)
THEOREM OneTeardown == Spec => []TeardownOnce
<1>1. IInv /\ SInv => TeardownOnce
  BY CountsTell, TornDownOnce, Zenon
<1> QED
  BY <1>1, Inductive, StopInductive, PTL

(* mb_global_create_ep may use its endpoint after it has left ctx: no       *)
(* mb_shutdown frees it while the sock is published, because mb_shutdown    *)
(* has waited for the reference of the creating call.                       *)
THEOREM EndpointOutlivesCreation == Spec => []EpAlive
<1>1. SInv => EpAlive
  BY Zenon DEF SInv, Owners, EpAlive, Making
<1> QED
  BY <1>1, StopInductive, PTL

(* When mb_term has returned, every descriptor is closed, and none can be   *)
(* opened behind the cursor of its loop, however many mb_term, mb_close and *)
(* mb_socket calls run at once.                                             *)
THEOREM TermLeavesNothing == Spec => []TermClosesAll
<1>1. SInv => TermClosesAll
  BY Zenon DEF SInv, Sweep
<1> QED
  BY <1>1, StopInductive, PTL
=============================================================================
