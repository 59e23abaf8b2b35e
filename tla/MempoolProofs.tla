--------------------------- MODULE MempoolProofs ---------------------------
(***************************************************************************)
(* Proofs about the message pool, for a slab of any capacity.  NoSlotLost  *)
(* is not inductive: whether mb_slab_free moves count depends on the       *)
(* header of the chunk, so the invariant has to say what the headers are.  *)
(***************************************************************************)
EXTENDS Mempool, TLAPS

(* The chunks before count are stamped, and a stamped chunk is in use. *)
StampedBelow ==
  \A i \in Slots : (i < count => stamped[i]) /\ (stamped[i] => lent[i] > 0)

IInv == TypeOK /\ StampedBelow

(* The invariant holds of an empty pool. *)
LEMMA InitIInv == Init => IInv
<1> SUFFICES ASSUME Init PROVE IInv
  OBVIOUS
<1>1. TypeOK
  <2>1. count \in 0 .. capacity /\ capacity \in 0 .. CAPACITY
    BY MempoolAssumption DEF Init
  <2>2. lent \in [Slots -> Nat]
    BY DEF Init
  <2> QED
    BY <2>1, <2>2, Zenon DEF Init, TypeOK
<1>2. StampedBelow
  BY MempoolAssumption DEF Init, StampedBelow, Slots
<1> QED
  BY <1>1, <1>2 DEF IInv

(* Every allocation and free preserves it. *)
LEMMA NextIInv == IInv /\ [Next]_vars => IInv'
<1> SUFFICES ASSUME IInv, [Next]_vars PROVE IInv'
  OBVIOUS
<1> USE MempoolAssumption DEF IInv, TypeOK, StampedBelow, Slots
<1>1. CASE SlabAlloc
  BY <1>1 DEF SlabAlloc, arena
<1>2. ASSUME NEW i \in Slots, FreeSlabMsg(i) PROVE IInv'
  <2>1. CASE stamped[i]
    <3>1. /\ capacity' = capacity
          /\ stamped' = [stamped EXCEPT ![i] = FALSE]
          /\ lent' = [lent EXCEPT ![i] = @ - 1]
          /\ count' = IF i < count THEN i ELSE count
      BY <1>2, <2>1 DEF FreeSlabMsg, SlabFree
    <3>2. count' \in 0 .. capacity' /\ lent' \in [Slots -> Nat]
      BY <1>2, <3>1 DEF FreeSlabMsg
    <3>3. StampedBelow'
      BY <3>1
    <3>4. stamped' \in [Slots -> BOOLEAN]
      BY <3>1
    <3> QED
      BY <1>2, <3>1, <3>2, <3>3, <3>4, Zenon DEF FreeSlabMsg, arena
  <2>2. CASE ~stamped[i]
    BY <1>2, <2>2 DEF FreeSlabMsg, arena
  <2> QED
    BY <2>1, <2>2
<1>3. ASSUME NEW c \in Chunks, ArenaAlloc(c) \/ Write(c) \/ FreeArenaMsg(c)
      PROVE  IInv'
  <2>1. UNCHANGED slab
    BY <1>3 DEF ArenaAlloc, Write, FreeArenaMsg
  <2>2. CASE ArenaAlloc(c)
    BY <2>1, <2>2 DEF ArenaAlloc, slab
  <2>3. CASE Write(c)
    BY <2>1, <2>3 DEF Write, slab
  <2>4. CASE FreeArenaMsg(c)
    BY <2>1, <2>4, Zenon DEF FreeArenaMsg, slab
  <2> QED
    BY <1>3, <2>2, <2>3, <2>4
<1>4. CASE UNCHANGED vars
  BY <1>4 DEF vars, slab, arena
<1> QED
  BY <1>1, <1>2, <1>3, <1>4, Zenon DEF Next

(* Hence it holds in every reachable state. *)
LEMMA Inductive == Spec => []IInv
  BY InitIInv, NextIInv, PTL DEF Spec

(* count never passes the capacity mb_slab_init reached, whatever is         *)
(* allocated and freed (mb_slab_alloc, mb_slab_free).                        *)
THEOREM TypeCorrect == Spec => []TypeOK
<1>1. IInv => TypeOK
  BY DEF IInv
<1> QED
  BY <1>1, Inductive, PTL

(* mb_slab_free loses no chunk: one that nobody holds lies at or after       *)
(* count, so mb_slab_alloc comes to it before the pool turns to the arena.   *)
THEOREM NoSlotLostCorrect == Spec => []NoSlotLost
<1>1. IInv => NoSlotLost
  BY MempoolAssumption DEF IInv, TypeOK, StampedBelow, NoSlotLost, Slots
<1> QED
  BY <1>1, Inductive, PTL
=============================================================================
