------------------------------ MODULE MsgQueue ------------------------------
(***************************************************************************)
(* transport/inproc/msgqueue.c: the queue of one inproc pipe as a chain of *)
(* chunks of GRANULARITY slots, with a write cursor (out), a read cursor   *)
(* (in) and one spare chunk (cache).  Every function holds self->sync from *)
(* its first to its last line, so each one is a single step.  Allocating a *)
(* chunk may fail.  A message is its body's size.                          *)
(***************************************************************************)
EXTENDS Integers, Sequences, FiniteSets

CONSTANTS Sizes,         \* body sizes that are sent
          Limits,        \* values of MB_RCVBUF: mb_setsockopt takes none below 1
          Chunks,        \* the heap: the addresses chunks can have
          GRANULARITY,
          NULL,          \* no chunk
          FREE           \* a slot that holds no message

ASSUME MsgQueueAssumption == /\ GRANULARITY \in Nat \ {0}
                             /\ Sizes \subseteq Nat /\ Limits \subseteq Nat \ {0}
                             /\ NULL \notin Chunks /\ FREE \notin Nat

VARIABLES heap, slot, next,         \* allocated chunks; their slots and links
          inChunk, inPos, outChunk, outPos, cache,
          count, mem, maxmem, pending,
          dead                      \* mb_msgqueue_term has run

store == <<heap, slot, next, inChunk, inPos, outChunk, outPos, cache>>
vars == <<store, count, mem, maxmem, pending, dead>>

Slots == 0 .. GRANULARITY - 1

Init ==
  /\ heap = {} /\ cache = NULL
  /\ slot = [c \in Chunks |-> [i \in Slots |-> FREE]]
  /\ next = [c \in Chunks |-> NULL]
  /\ inChunk = NULL /\ inPos = 0 /\ outChunk = NULL /\ outPos = 0
  /\ count = 0 /\ mem = 0 /\ pending = 0
  /\ maxmem \in Limits
  /\ dead = FALSE

CheckSz(sz) == IF maxmem > 0 /\ sz = 0 THEN 1 ELSE sz

Fits(used, max, c) == max = 0 \/ (c <= max /\ used <= max - c)

(* The refused size after a change of the bytes in use or of the limit. *)
Settle(used, max) == IF pending # 0 /\ Fits(used, max, pending) THEN 0 ELSE pending

SetMaxmem(n) ==
  /\ ~dead
  /\ maxmem' = n
  /\ pending' = Settle(mem, n)
  /\ UNCHANGED <<store, count, mem, dead>>

PushRefused(sz) ==
  /\ ~dead /\ ~Fits(mem, maxmem, CheckSz(sz))
  /\ pending' = IF maxmem > 0 THEN CheckSz(sz) ELSE pending
  /\ UNCHANGED <<store, count, mem, maxmem, dead>>

(* What mb_msgqueue_alloc_chunk may answer: the cached chunk, else a fresh  *)
(* one or none.                                                             *)
AllocChunk(h, spare) ==
  IF spare # NULL THEN {[chunk |-> spare, heap |-> h, cache |-> NULL]}
  ELSE {[chunk |-> NULL, heap |-> h, cache |-> NULL]} \cup
       {[chunk |-> c, heap |-> h \cup {c}, cache |-> NULL] : c \in Chunks \ h}

(* A fresh chunk is zeroed, a cached one is taken as it is. *)
Zeroed(s, h, c) == IF c \in h THEN s ELSE [s EXCEPT ![c] = [i \in Slots |-> FREE]]

(* Chunk c becomes the last of the chain whose last chunk is tail. *)
Linked(links, tail, c) ==
  [x \in Chunks |-> IF x = c THEN NULL ELSE IF x = tail THEN c ELSE links[x]]

(* Push with a writable slot, a the answer to the allocation the push itself *)
(* needs and b the answer to the eager one.                                  *)
PushInto(sz, grow, a, b) ==
  LET links == IF grow THEN Linked(next, outChunk, a.chunk) ELSE next
      s     == IF grow THEN Zeroed(slot, heap, a.chunk) ELSE slot
      pos   == IF grow THEN 0 ELSE outPos
      full  == pos + 1 = GRANULARITY
      extra == full /\ b.chunk # NULL
      put   == [s EXCEPT ![a.chunk][pos] = sz]
  IN
  /\ slot' = IF extra THEN Zeroed(put, a.heap, b.chunk) ELSE put
  /\ next' = IF extra THEN Linked(links, a.chunk, b.chunk) ELSE links
  /\ outChunk' = IF extra THEN b.chunk ELSE a.chunk
  /\ outPos' = IF extra THEN 0 ELSE pos + 1
  /\ inChunk' = IF outChunk = NULL /\ inChunk = NULL THEN a.chunk ELSE inChunk
  /\ inPos' = IF outChunk = NULL /\ inChunk = NULL THEN 0 ELSE inPos
  /\ heap' = b.heap /\ cache' = b.cache

(* ENOMEM changes nothing: the push that finds no chunk is not a step. *)
Push(sz) ==
  LET c     == CheckSz(sz)
      grow  == outChunk = NULL \/ outPos = GRANULARITY
      Here(h, spare) == {[chunk |-> outChunk, heap |-> h, cache |-> spare]}
  IN
  /\ ~dead /\ Fits(mem, maxmem, c)
  /\ \E a \in IF grow THEN AllocChunk(heap, cache) ELSE Here(heap, cache) :
       /\ a.chunk # NULL
       /\ \E b \in IF (IF grow THEN 0 ELSE outPos) + 1 = GRANULARITY
                   THEN AllocChunk(a.heap, a.cache) ELSE Here(a.heap, a.cache) :
            PushInto(sz, grow, a, b)
  /\ count' = count + 1
  /\ mem' = mem + c
  /\ pending' = Settle(mem + c, maxmem)
  /\ UNCHANGED <<maxmem, dead>>

(* Mutant: the read cursor is compared with the write cursor of another chunk. *)
ConsumedAcrossChunks == inPos + 1 = GRANULARITY \/ inPos + 1 = outPos

(* The pop that takes slot inPos of inChunk leaves nothing in that chunk. *)
Consumed ==
  inPos + 1 = GRANULARITY \/ (inChunk = outChunk /\ inPos + 1 = outPos)

(* Mutant: a consumed chunk that cannot be cached is not freed. *)
RecycleLeaks(c) == heap' = heap /\ cache' = c

Recycle(c) == IF cache # NULL THEN heap' = heap \ {c} /\ cache' = cache
                              ELSE heap' = heap /\ cache' = c

Pop ==
  /\ ~dead /\ count > 0
  /\ slot' = [slot EXCEPT ![inChunk][inPos] = FREE]
  /\ count' = count - 1
  /\ mem' = mem - CheckSz(slot[inChunk][inPos])
  /\ pending' = Settle(mem', maxmem)
  /\ IF Consumed
     THEN /\ inChunk' = next[inChunk] /\ inPos' = 0
          /\ outChunk' = IF inChunk = outChunk THEN NULL ELSE outChunk
          /\ outPos' = IF inChunk = outChunk THEN 0 ELSE outPos
          /\ Recycle(inChunk)
     ELSE /\ inPos' = inPos + 1
          /\ UNCHANGED <<inChunk, outChunk, outPos, heap, cache>>
  /\ UNCHANGED <<next, maxmem, dead>>

(* The chunks the links lead to from first: the least set that follows them. *)
ChainOf(first, links) ==
  LET Follows(S) == {first} \cup {links[c] : c \in S} \subseteq S \cup {NULL}
  IN {c \in Chunks : \A S \in SUBSET Chunks : Follows(S) => c \in S}

Chain == ChainOf(inChunk, next)

Term ==
  /\ ~dead
  /\ slot' = [c \in Chunks |-> IF c \in Chain THEN [i \in Slots |-> FREE] ELSE slot[c]]
  /\ heap' = heap \ (Chain \cup {cache})
  /\ cache' = NULL /\ inChunk' = NULL /\ outChunk' = NULL
  /\ count' = 0 /\ pending' = 0
  /\ dead' = TRUE
  /\ UNCHANGED <<next, inPos, outPos, mem, maxmem>>

Next == \/ \E sz \in Sizes : Push(sz) \/ PushRefused(sz)
        \/ Pop
        \/ \E n \in Limits : SetMaxmem(n)
        \/ Term

Spec == Init /\ [][Next]_vars

-----------------------------------------------------------------------------
(* Properties *)

(* The fields of struct mb_msgqueue stay in range; in particular the size_t *)
(* mem never wraps below zero.                                              *)
TypeOK ==
  /\ heap \subseteq Chunks /\ cache \in heap \cup {NULL}
  /\ slot \in [Chunks -> [Slots -> Sizes \cup {FREE}]]
  /\ next \in [Chunks -> Chunks \cup {NULL}]
  /\ inChunk \in heap \cup {NULL} /\ outChunk \in heap \cup {NULL}
  /\ inPos \in Slots /\ outPos \in 0 .. GRANULARITY
  /\ {count, mem, pending} \subseteq Nat
  /\ maxmem \in Limits /\ dead \in BOOLEAN

(* Where the next n steps of a cursor lead that is at slot pos of chunk c. *)
Places(c, pos, links, n) ==
  LET f[k \in 0 .. n] ==
        IF k = 0 THEN <<c, pos>>
        ELSE IF f[k - 1][2] + 1 = GRANULARITY THEN <<links[f[k - 1][1]], 0>>
        ELSE <<f[k - 1][1], f[k - 1][2] + 1>>
  IN f

Read(s, places, n) == [k \in 1 .. n |-> s[places[k - 1][1]][places[k - 1][2]]]

(* The messages between the cursors, oldest first. *)
Contents == Read(slot, Places(inChunk, inPos, next, count), count)

Fifo == INSTANCE MsgFifo
          WITH q <- [msgs |-> Contents, maxmem |-> maxmem, pending |-> pending]

(* The chunk chain is a byte-bounded FIFO: whatever the chunk boundaries,   *)
(* failed eager allocations and recycled chunks, mb_msgqueue_pop returns    *)
(* the messages mb_msgqueue_push accepted, in order, and mem is the sum of  *)
(* their charges.                                                           *)
ImplementsFifo == Fifo!Spec

(* Every allocated chunk is in the chain or is the cached one, and no       *)
(* message sits outside the cursors: mb_msgqueue_term frees all and only    *)
(* what is left, and a recycled chunk holds no stale message.               *)
NoLeak ==
  /\ heap = Chain \cup ({cache} \ {NULL})
  /\ cache \notin Chain
  /\ Cardinality({x \in heap \X Slots : slot[x[1]][x[2]] # FREE}) = count

=============================================================================
