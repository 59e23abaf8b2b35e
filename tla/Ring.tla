-------------------------------- MODULE Ring --------------------------------
(***************************************************************************)
(* The consistent-hash ring of src/distributed/ring.c: an array of nodes   *)
(* in the order of their arrival and an array of virtual nodes kept sorted *)
(* by hash.  Both arrays grow by allocation, which may fail.  VHash gives  *)
(* the hash of each virtual node; a key is its hash.                       *)
(***************************************************************************)
EXTENDS Naturals, SequencesExt, FiniteSetsExt

CONSTANTS Hashes,   \* the number of hash values: 2^32 in the code
          VHash,    \* VHash[n][i], the hash of the i-th virtual node of n
          VIRTUAL,  \* MB_RING_VIRTUAL_NODES
          NCAP,     \* the first capacity of the array of nodes: 4
          VCAP      \* the first capacity of the array of virtual nodes: 16

NoNode == 0

mb_ring_init == [nodes |-> <<>>, ncap |-> 0, vnodes |-> <<>>, vcap |-> 0]

Doubled(cap, first) == IF cap = 0 THEN first ELSE 2 * cap

mb_ring_grow_nodes(r) ==
  IF Len(r.nodes) < r.ncap THEN r ELSE [r EXCEPT !.ncap = Doubled(@, NCAP)]

mb_ring_grow_vnodes(r) ==
  IF Len(r.vnodes) < r.vcap THEN r ELSE [r EXCEPT !.vcap = Doubled(@, VCAP)]

mb_ring_insert_vnode_sorted(vnodes, vn) ==
  InsertAt(vnodes, Len(SelectSeq(vnodes, LAMBDA v : v.hash < vn.hash)) + 1, vn)

WithoutVnodes(r, n) == [r EXCEPT !.vnodes = SelectSeq(@, LAMBDA v : v.node # n)]

(* What mb_ring_add takes back when an allocation fails half way. *)
RolledBack(r, n) == [WithoutVnodes(r, n) EXCEPT !.nodes = Front(@)]

(* Adds the node and its virtual nodes one by one.  Only the first mem     *)
(* allocations of the call succeed.                                        *)
mb_ring_add(r, n, mem) ==
  LET grown == mb_ring_grow_nodes(r)
      left == IF grown = r THEN mem ELSE mem - 1
      AddVnode(a, i) ==
        LET g == mb_ring_grow_vnodes(a.r)
            cost == IF g = a.r THEN 0 ELSE 1
        IN IF a.failed \/ cost > a.mem THEN [a EXCEPT !.failed = TRUE]
           ELSE [failed |-> FALSE, mem |-> a.mem - cost,
                 r |-> [g EXCEPT !.vnodes =
                          mb_ring_insert_vnode_sorted(@, [hash |-> VHash[n][i], node |-> n])]]
      all == FoldLeft(AddVnode,
                      [failed |-> FALSE, mem |-> left, r |-> [grown EXCEPT !.nodes = Append(@, n)]],
                      [i \in 1..VIRTUAL |-> i])
  IN IF n \in Range(r.nodes) \/ (grown # r /\ mem = 0) THEN r
     ELSE IF all.failed THEN RolledBack(all.r, n) ELSE all.r

mb_ring_remove(r, n) ==
  [WithoutVnodes(r, n) EXCEPT !.nodes = SelectSeq(@, LAMBDA m : m # n)]

(* Mutant: a virtual node exactly at h is passed over. *)
LowerBound_Past(vnodes, h) ==
  LET past == {k \in 0..Len(vnodes) - 1 : vnodes[k + 1].hash > h}
  IN IF past = {} THEN 0 ELSE Min(past)

(* The index of the first virtual node at or after h, by bisection; past   *)
(* the last one the ring begins again.                                     *)
LowerBound(vnodes, h) ==
  LET n == Len(vnodes)
      f[lo \in 0..n, hi \in 0..n] ==
        LET mid == lo + (hi - lo) \div 2 IN
        IF lo >= hi THEN lo
        ELSE IF vnodes[mid + 1].hash < h THEN f[mid + 1, hi] ELSE f[lo, mid]
      lo == f[0, n]
  IN IF lo = n THEN 0 ELSE lo

mb_ring_lookup(r, h) ==
  IF r.vnodes = <<>> THEN NoNode ELSE r.vnodes[LowerBound(r.vnodes, h) + 1].node

(* One turn around the ring from there, each node where it is met first. *)
mb_ring_lookup_n(r, h, max) ==
  LET n == Len(r.vnodes)
      first == LowerBound(r.vnodes, h)
      walk == [k \in 1..n |-> r.vnodes[((first + k - 1) % n) + 1].node]
      met == SelectSeq([k \in 1..n |-> k], LAMBDA k : \A j \in 1..k - 1 : walk[j] # walk[k])
  IN [k \in 1..(IF max < Len(met) THEN max ELSE Len(met)) |-> walk[met[k]]]

-----------------------------------------------------------------------------
(* The ring as a set of points: how far clockwise from h the first virtual *)
(* node of n lies.                                                         *)
Distance ==
  [n \in DOMAIN VHash, h \in 0..Hashes - 1 |->
     Min({(VHash[n][i] + Hashes - h) % Hashes : i \in 1..VIRTUAL})]

(* Nobody of S that is not in ids is nearer to h than somebody of ids, and *)
(* ids lists the nearest first.                                            *)
NearestFirst(ids, S, h) ==
  \A j \in 1..Len(ids) :
    /\ ids[j] \in S
    /\ \A m \in S \ {ids[k] : k \in 1..j} : Distance[ids[j], h] <= Distance[m, h]
=============================================================================
