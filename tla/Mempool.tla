------------------------------ MODULE Mempool ------------------------------
(***************************************************************************)
(* The message pool of memory/pool.c: mb_mempool_alloc_msg takes from the  *)
(* slab of memory/slab.c and, when that is full, from the arena;           *)
(* mb_mempool_free_msg tells the two apart by the tag in front of the      *)
(* message.  The pool takes no lock: one thread calls it.                  *)
(*                                                                         *)
(* The slab is its array of raw chunks, the index `count' of the next one  *)
(* to hand out, and the header of each.  An arena chunk is its tag: the    *)
(* magic in front of the message and the echo of the object size, which    *)
(* struct mb_arena_msg_hdr puts in the message's own first eight bytes.    *)
(* `lent' counts the pointers to a chunk that callers have not given back. *)
(***************************************************************************)
EXTENDS Naturals, FiniteSets

CONSTANTS
  CAPACITY,   \* chunks mb_slab_init is asked for
  MaxLent,    \* bound: callers that hold one slab chunk
  MaxArena    \* bound: chunks taken from the arena

ASSUME MempoolAssumption ==
  CAPACITY \in Nat /\ MaxLent \in Nat /\ MaxArena \in Nat

Slots == 0 .. CAPACITY - 1
Chunks == 1 .. MaxArena

VARIABLES
  capacity,   \* slab.capacity
  count,      \* slab.count
  stamped,    \* per slot: the header holds MB_SLAB_MAGIC and the size
  lent,       \* per slot: the callers that hold it
  chunk,      \* per arena chunk: "none", "lent" or "back"
  magic,      \* per arena chunk: the tag holds MB_ARENA_MSG_MAGIC
  echo        \* per arena chunk: the tag holds sizeof (struct mb_msg)

slab == <<capacity, count, stamped, lent>>
arena == <<chunk, magic, echo>>
vars == <<slab, arena>>

(* mb_slab_init keeps the chunks it got before mb_alloc failed. *)
Init ==
  /\ capacity \in 0 .. CAPACITY
  /\ count = 0
  /\ stamped = [i \in Slots |-> FALSE]
  /\ lent = [i \in Slots |-> 0]
  /\ chunk = [c \in Chunks |-> "none"]
  /\ magic = [c \in Chunks |-> FALSE]
  /\ echo = [c \in Chunks |-> FALSE]

(* mb_slab_alloc, tried first by mb_mempool_alloc_msg. *)
SlabAlloc ==
  /\ count < capacity /\ lent[count] < MaxLent
  /\ count' = count + 1
  /\ stamped' = [stamped EXCEPT ![count] = TRUE]
  /\ lent' = [lent EXCEPT ![count] = @ + 1]
  /\ UNCHANGED <<capacity, arena>>

(* mb_mempool_alloc_msg when the slab is full: the arena, with a tag. *)
ArenaAlloc(c) ==
  /\ count >= capacity
  /\ chunk[c] = "none"
  /\ chunk' = [chunk EXCEPT ![c] = "lent"]
  /\ magic' = [magic EXCEPT ![c] = TRUE]
  /\ echo' = [echo EXCEPT ![c] = TRUE]
  /\ UNCHANGED slab

(* The caller fills in its message, over the echo: the tag is 16 bytes and  *)
(* the message starts 8 bytes into it.                                      *)
Write(c) ==
  /\ chunk[c] = "lent"
  /\ echo' = [echo EXCEPT ![c] = FALSE]
  /\ UNCHANGED <<slab, chunk, magic>>

(* Mutant: count is set to the freed index whatever it was. *)
SlabFreeForward(i) == count' = i

(* mb_slab_free on a stamped chunk of its own: count moves back to it. *)
SlabFree(i) == count' = IF i < count THEN i ELSE count

(* mb_mempool_free_msg on a slab message.  Its tag is not the arena's, so it *)
(* goes to mb_slab_free, which ignores a chunk whose header is cleared.      *)
FreeSlabMsg(i) ==
  /\ lent[i] > 0
  /\ lent' = [lent EXCEPT ![i] = @ - 1]
  /\ IF stamped[i]
     THEN SlabFree(i) /\ stamped' = [stamped EXCEPT ![i] = FALSE]
     ELSE UNCHANGED <<count, stamped>>
  /\ UNCHANGED <<capacity, arena>>

(* mb_mempool_free_msg on an arena message: the tag is cleared, or the      *)
(* message goes on to mb_slab_free, which does not know it and ignores it.  *)
FreeArenaMsg(c) ==
  /\ chunk[c] = "lent"
  /\ chunk' = [chunk EXCEPT ![c] = "back"]
  /\ IF magic[c] /\ echo[c]
     THEN /\ magic' = [magic EXCEPT ![c] = FALSE]
          /\ echo' = [echo EXCEPT ![c] = FALSE]
     ELSE UNCHANGED <<magic, echo>>
  /\ UNCHANGED slab

Next ==
  \/ SlabAlloc
  \/ \E i \in Slots : FreeSlabMsg(i)
  \/ \E c \in Chunks : ArenaAlloc(c) \/ Write(c) \/ FreeArenaMsg(c)

Spec == Init /\ [][Next]_vars

-----------------------------------------------------------------------------
(* Properties *)

(* Every variable stays within its type; mb_slab_alloc never moves count     *)
(* past the chunks mb_slab_init got.                                         *)
TypeOK ==
  /\ capacity \in 0 .. CAPACITY
  /\ count \in 0 .. capacity
  /\ stamped \in [Slots -> BOOLEAN]
  /\ lent \in [Slots -> Nat]
  /\ chunk \in [Chunks -> {"none", "lent", "back"}]
  /\ magic \in [Chunks -> BOOLEAN]
  /\ echo \in [Chunks -> BOOLEAN]

(* A slab chunk nobody holds is still to come in the array: mb_slab_free     *)
(* loses none, and mb_mempool_alloc_msg takes from the arena only while      *)
(* every chunk of the slab is in use.                                        *)
NoSlotLost == \A i \in Slots : lent[i] = 0 => i >= count

(* test_slab.c:31: after mb_slab_free of objects 5 and 10 and two            *)
(* mb_slab_alloc, they are "now owned by r2/r1": a chunk has one owner.      *)
OneOwner == \A i \in Slots : lent[i] <= 1
=============================================================================
