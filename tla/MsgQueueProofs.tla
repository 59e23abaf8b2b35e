--------------------------- MODULE MsgQueueProofs ---------------------------
(***************************************************************************)
(* Proofs about MsgQueue, for any number of chunks of any size: no chunk   *)
(* and no message is lost, and the chain of chunks implements the FIFO of  *)
(* MsgFifo.                                                                *)
(***************************************************************************)
EXTENDS MsgQueue, FiniteSetTheorems, WellFoundedInduction, TLAPS

-----------------------------------------------------------------------------
(* Induction, from the well-foundedness of < *)

(* A set of naturals that is not empty has a least member. *)
LEMMA Least ==
  ASSUME NEW S \in SUBSET Nat, S # {}
  PROVE  \E n \in S : \A m \in S : n <= m
<1> DEFINE R == OpToRel(<, Nat)
<1>1. IsWellFoundedOn(R, Nat)
  BY NatLessThanWellFounded, Zenon
<1>2. \A x, y \in Nat : x < y => <<x, y>> \in R
  BY Zenon DEF OpToRel
<1> HIDE DEF R
<1>3. PICK x \in S : \A y \in S : ~ (<<y, x>> \in R)
  BY <1>1, WFMin, Zenon
<1>4. x \in Nat /\ \A m \in S : m \in Nat
  BY Zenon
<1>5. \A m \in S : ~ (m < x)
  BY <1>2, <1>3, <1>4, Zenon
<1>6. \A m \in S : x <= m
  BY <1>4, <1>5
<1> QED
  BY <1>6, Zenon

(* A set that holds 0 and the successor of each of its members holds every *)
(* natural number.                                                         *)
LEMMA Induct ==
  ASSUME NEW S, 0 \in S, \A n \in Nat : n \in S => n + 1 \in S
  PROVE  \A n \in Nat : n \in S
<1> DEFINE T == {n \in Nat : n \notin S}
<1> SUFFICES ASSUME T # {} PROVE FALSE
  BY Zenon
<1>1. T \in SUBSET Nat
  BY Zenon
<1> HIDE DEF T
<1>2. PICK n \in T : \A m \in T : n <= m
  BY <1>1, Least, Zenon
<1>3. n \in Nat /\ n # 0
  BY <1>1, Zenon DEF T
<1>4. n - 1 \in Nat /\ n - 1 \notin T
  BY <1>2, <1>3
<1>5. n - 1 \in S
  BY <1>4, Zenon DEF T
<1>6. n \in S
  BY <1>5, <1>4, <1>3
<1> QED
  BY <1>6, Zenon DEF T

-----------------------------------------------------------------------------
(* The recursive functions of the model satisfy their equations *)

(* Where a cursor goes from place p. *)
Onward(p, links) ==
  IF p[2] + 1 = GRANULARITY THEN <<links[p[1]], 0>> ELSE <<p[1], p[2] + 1>>

(* Places is defined by its recursion. *)
LEMMA PlacesDef ==
  ASSUME NEW c, NEW pos, NEW links, NEW n \in Nat
  PROVE  /\ Places(c, pos, links, n)[0] = <<c, pos>>
         /\ \A k \in 0 .. n - 1 :
              Places(c, pos, links, n)[k + 1] = Onward(Places(c, pos, links, n)[k], links)
<1> DEFINE Eq(f, m) ==
      f = [k \in 0 .. m |->
             IF k = 0 THEN <<c, pos>>
             ELSE IF f[k - 1][2] + 1 = GRANULARITY THEN <<links[f[k - 1][1]], 0>>
             ELSE <<f[k - 1][1], f[k - 1][2] + 1>>]
           S == {m \in Nat : \E f : Eq(f, m)}
<1>1. 0 \in S
  <2>1. Eq([k \in 0 .. 0 |-> <<c, pos>>], 0)
    OBVIOUS
  <2> QED
    BY <2>1, Zenon
<1>2. ASSUME NEW m \in Nat, m \in S PROVE m + 1 \in S
  <2>1. PICK f : Eq(f, m)
    BY <1>2, Zenon
  <2> DEFINE g == [k \in 0 .. m + 1 |-> IF k = m + 1 THEN Onward(f[m], links) ELSE f[k]]
  <2>2. Eq(g, m + 1)
    <3> DEFINE e(k) == IF k = 0 THEN <<c, pos>>
             ELSE IF g[k - 1][2] + 1 = GRANULARITY THEN <<links[g[k - 1][1]], 0>>
             ELSE <<g[k - 1][1], g[k - 1][2] + 1>>
    <3>1. ASSUME NEW k \in 0 .. m PROVE g[k] = e(k)
      <4>1. g[k] = f[k] /\ (k # 0 => g[k - 1] = f[k - 1])
        OBVIOUS
      <4> HIDE DEF g
      <4> QED
        BY <2>1, <4>1, Zenon
    <3>2. g[m + 1] = e(m + 1)
      <4>1. g[m + 1] = Onward(f[m], links) /\ g[(m + 1) - 1] = f[m]
        OBVIOUS
      <4> HIDE DEF g
      <4> QED
        BY <4>1 DEF Onward
    <3>3. g = [k \in 0 .. m + 1 |-> g[k]]
      BY Zenon
    <3> HIDE DEF g
    <3>4. ASSUME NEW k \in 0 .. m + 1 PROVE g[k] = e(k)
      BY <3>1, <3>2, k \in 0 .. m \/ k = m + 1, Zenon
    <3> HIDE DEF e
    <3>5. [k \in 0 .. m + 1 |-> g[k]] = [k \in 0 .. m + 1 |-> e(k)]
      BY <3>4, Zenon
    <3>6. g = [k \in 0 .. m + 1 |-> e(k)]
      BY <3>3, <3>5, Zenon
    <3> QED
      BY <3>6, Zenon DEF e
  <2> HIDE DEF g, Eq
  <2> QED
    BY <2>2
<1> HIDE DEF S
<1>3. n \in S
  BY <1>1, <1>2, Induct, Zenon
<1>4. PICK f : Eq(f, n)
  BY <1>3, Zenon DEF S
<1> DEFINE h == Places(c, pos, links, n)
<1>5. Eq(h, n)
  BY <1>4, Zenon DEF Places
<1> HIDE DEF h
<1>6. h[0] = <<c, pos>>
  BY <1>5
<1>7. ASSUME NEW k \in 0 .. n - 1 PROVE h[k + 1] = Onward(h[k], links)
  <2>1. k + 1 \in 0 .. n /\ k + 1 # 0 /\ (k + 1) - 1 = k
    OBVIOUS
  <2> QED
    BY <1>5, <2>1, Zenon DEF Onward
<1> QED
  BY <1>6, <1>7, Zenon DEF h

(* So is Charges. *)
LEMMA ChargesDef ==
  ASSUME NEW msgs \in Seq(Nat)
  PROVE  /\ Fifo!Charges(msgs)[0] = 0
         /\ \A k \in 0 .. Len(msgs) - 1 :
              Fifo!Charges(msgs)[k + 1] = Fifo!Charges(msgs)[k] + Fifo!CheckSz(msgs[k + 1])
<1> DEFINE Eq(f, m) ==
      f = [k \in 0 .. m |-> IF k = 0 THEN 0 ELSE f[k - 1] + Fifo!CheckSz(msgs[k])]
           S == {m \in Nat : \E f : Eq(f, m)}
<1>1. 0 \in S
  <2>1. Eq([k \in 0 .. 0 |-> 0], 0)
    OBVIOUS
  <2> QED
    BY <2>1, Zenon
<1>2. ASSUME NEW m \in Nat, m \in S PROVE m + 1 \in S
  <2>1. PICK f : Eq(f, m)
    BY <1>2, Zenon
  <2> DEFINE g == [k \in 0 .. m + 1 |->
                     IF k = m + 1 THEN f[m] + Fifo!CheckSz(msgs[m + 1]) ELSE f[k]]
  <2>2. Eq(g, m + 1)
    <3> DEFINE e(k) == IF k = 0 THEN 0 ELSE g[k - 1] + Fifo!CheckSz(msgs[k])
    <3>1. ASSUME NEW k \in 0 .. m PROVE g[k] = e(k)
      <4>1. g[k] = f[k] /\ (k # 0 => g[k - 1] = f[k - 1])
        OBVIOUS
      <4> HIDE DEF g
      <4> QED
        BY <2>1, <4>1, Zenon
    <3>2. g[m + 1] = e(m + 1)
      <4>1. g[m + 1] = f[m] + Fifo!CheckSz(msgs[m + 1]) /\ g[(m + 1) - 1] = f[m]
        OBVIOUS
      <4> HIDE DEF g
      <4> QED
        BY <4>1
    <3>3. g = [k \in 0 .. m + 1 |-> g[k]]
      BY Zenon
    <3> HIDE DEF g
    <3>4. ASSUME NEW k \in 0 .. m + 1 PROVE g[k] = e(k)
      BY <3>1, <3>2, k \in 0 .. m \/ k = m + 1, Zenon
    <3> HIDE DEF e
    <3>5. [k \in 0 .. m + 1 |-> g[k]] = [k \in 0 .. m + 1 |-> e(k)]
      BY <3>4, Zenon
    <3>6. g = [k \in 0 .. m + 1 |-> e(k)]
      BY <3>3, <3>5, Zenon
    <3> QED
      BY <3>6, Zenon DEF e
  <2> HIDE DEF g, Eq
  <2> QED
    BY <2>2
<1> HIDE DEF S
<1> DEFINE n == Len(msgs)
<1>n. n \in Nat
  OBVIOUS
<1> HIDE DEF n
<1>3. n \in S
  BY <1>1, <1>2, <1>n, Induct, Zenon
<1>4. PICK f : Eq(f, n)
  BY <1>3, Zenon DEF S
<1> DEFINE h == Fifo!Charges(msgs)
<1>5. Eq(h, n)
  BY <1>4, Zenon DEF Fifo!Charges, n
<1> HIDE DEF h
<1>6. h[0] = 0
  BY <1>5, <1>n
<1>7. ASSUME NEW k \in 0 .. n - 1 PROVE h[k + 1] = h[k] + Fifo!CheckSz(msgs[k + 1])
  <2>1. k + 1 \in 0 .. n /\ k + 1 # 0 /\ (k + 1) - 1 = k
    BY <1>n
  <2> QED
    BY <1>5, <2>1, Zenon
<1> QED
  BY <1>6, <1>7, Zenon DEF h, n

(* What is charged for messages is a natural number. *)
LEMMA ChargesNat ==
  ASSUME NEW msgs \in Seq(Nat)
  PROVE  \A k \in 0 .. Len(msgs) : Fifo!Charges(msgs)[k] \in Nat
<1> DEFINE h == Fifo!Charges(msgs)
           S == {m \in Nat : m \in 0 .. Len(msgs) => h[m] \in Nat}
<1>0. Len(msgs) \in Nat
  OBVIOUS
<1>1. h[0] = 0 /\ \A k \in 0 .. Len(msgs) - 1 : h[k + 1] = h[k] + Fifo!CheckSz(msgs[k + 1])
  BY ChargesDef, Zenon
<1> HIDE DEF h
<1>2. 0 \in S
  BY <1>1
<1>3. ASSUME NEW m \in Nat, m \in S PROVE m + 1 \in S
  <2> SUFFICES ASSUME m + 1 \in 0 .. Len(msgs) PROVE h[m + 1] \in Nat
    OBVIOUS
  <2>1. m \in 0 .. Len(msgs) - 1 /\ h[m] \in Nat
    BY <1>0, <1>3
  <2>2. msgs[m + 1] \in Nat
    BY <1>0
  <2>3. Fifo!CheckSz(msgs[m + 1]) \in Nat
    BY <2>2 DEF Fifo!CheckSz
  <2>4. h[m + 1] = h[m] + Fifo!CheckSz(msgs[m + 1])
    BY <1>1, <2>1, Zenon
  <2> QED
    BY ONLY <2>1, <2>3, <2>4
<1> HIDE DEF S
<1>4. \A m \in Nat : m \in S
  BY <1>2, <1>3, Induct, Zenon
<1> QED
  BY <1>0, <1>4 DEF S, h

(* A message that is appended is charged, *)
LEMMA MemAppend ==
  ASSUME NEW msgs \in Seq(Nat), NEW sz \in Nat
  PROVE  Fifo!Mem(Append(msgs, sz)) = Fifo!Mem(msgs) + Fifo!CheckSz(sz)
<1> DEFINE more == Append(msgs, sz)
           n == Len(msgs)
<1>0. /\ n \in Nat /\ more \in Seq(Nat) /\ Len(more) = n + 1 /\ more[n + 1] = sz
      /\ \A k \in 1 .. n : more[k] = msgs[k]
  OBVIOUS
<1> HIDE DEF more
<1> DEFINE h == Fifo!Charges(msgs)
           g == Fifo!Charges(more)
           S == {m \in Nat : m \in 0 .. n => g[m] = h[m]}
<1>1. h[0] = 0 /\ \A k \in 0 .. n - 1 : h[k + 1] = h[k] + Fifo!CheckSz(msgs[k + 1])
  BY ChargesDef, Zenon
<1>2. g[0] = 0 /\ \A k \in 0 .. n : g[k + 1] = g[k] + Fifo!CheckSz(more[k + 1])
  <2>1. Len(more) - 1 = n
    BY <1>0
  <2> QED
    BY <1>0, <2>1, ChargesDef, Zenon
<1> HIDE DEF h, g, n
<1>3. 0 \in S
  BY <1>1, <1>2, Zenon
<1>4. ASSUME NEW m \in Nat, m \in S PROVE m + 1 \in S
  <2> SUFFICES ASSUME m + 1 \in 0 .. n PROVE g[m + 1] = h[m + 1]
    OBVIOUS
  <2>1. m \in 0 .. n - 1 /\ m \in 0 .. n /\ g[m] = h[m] /\ m + 1 \in 1 .. n
    BY <1>0, <1>4
  <2>2. more[m + 1] = msgs[m + 1]
    BY <1>0, <2>1, Zenon
  <2> QED
    BY <1>1, <1>2, <2>1, <2>2, Zenon
<1> HIDE DEF S
<1>5. n \in S
  BY <1>0, <1>3, <1>4, Induct, Zenon
<1>6. g[n] = h[n] /\ g[n + 1] = g[n] + Fifo!CheckSz(sz)
  BY <1>0, <1>2, <1>5 DEF S
<1> QED
  BY <1>0, <1>6, Zenon DEF Fifo!Mem, g, h, n, more

(* and the first message of a queue no more once it is taken. *)
LEMMA MemTail ==
  ASSUME NEW msgs \in Seq(Nat), msgs # <<>>
  PROVE  Fifo!Mem(msgs) = Fifo!Mem(Tail(msgs)) + Fifo!CheckSz(msgs[1])
<1> DEFINE rest == Tail(msgs)
           n == Len(msgs)
           c == Fifo!CheckSz(msgs[1])
<1>0. /\ n \in Nat /\ n > 0 /\ rest \in Seq(Nat) /\ Len(rest) = n - 1 /\ msgs[1] \in Nat
      /\ \A k \in 1 .. n - 1 : rest[k] = msgs[k + 1]
      /\ \A k \in 1 .. n : msgs[k] \in Nat
  OBVIOUS
<1>c. c \in Nat
  BY <1>0, Zenon DEF Fifo!CheckSz
<1> HIDE DEF rest, c
<1> DEFINE h == Fifo!Charges(msgs)
           g == Fifo!Charges(rest)
           S == {m \in Nat : m \in 0 .. n - 1 => h[m + 1] = g[m] + c}
<1>1. h[0] = 0 /\ \A k \in 0 .. n - 1 : h[k + 1] = h[k] + Fifo!CheckSz(msgs[k + 1])
  BY ChargesDef, Zenon
<1>2. g[0] = 0 /\ \A k \in 0 .. n - 2 : g[k + 1] = g[k] + Fifo!CheckSz(rest[k + 1])
  <2>1. Len(rest) - 1 = n - 2
    BY <1>0
  <2> QED
    BY <1>0, <2>1, ChargesDef, Zenon
<1>t. (\A k \in 0 .. n : h[k] \in Nat) /\ \A k \in 0 .. n - 1 : g[k] \in Nat
  BY <1>0, ChargesNat, Zenon
<1> HIDE DEF h, g, n
<1>3. 0 \in S
  <2>1. 0 \in 0 .. n - 1 /\ 0 + 1 = 1
    BY <1>0
  <2>2. h[0 + 1] = h[0] + Fifo!CheckSz(msgs[0 + 1])
    BY <1>1, <2>1, Zenon
  <2>3. h[0 + 1] = g[0] + c
    BY <1>1, <1>2, <1>c, <2>1, <2>2, Zenon DEF c
  <2> QED
    BY <2>3, Zenon
<1>4. ASSUME NEW m \in Nat, m \in S PROVE m + 1 \in S
  <2> SUFFICES ASSUME m + 1 \in 0 .. n - 1 PROVE h[(m + 1) + 1] = g[m + 1] + c
    OBVIOUS
  <2>1. m \in 0 .. n - 2 /\ m \in 0 .. n - 1 /\ h[m + 1] = g[m] + c /\ m + 1 \in 1 .. n - 1
    BY <1>0, <1>4
  <2>2. rest[m + 1] = msgs[(m + 1) + 1] /\ msgs[(m + 1) + 1] \in Nat
    BY <1>0, <2>1, (m + 1) + 1 \in 1 .. n, Zenon
  <2>3. Fifo!CheckSz(rest[m + 1]) \in Nat
    BY <2>2, Zenon DEF Fifo!CheckSz
  <2>4. g[m + 1] = g[m] + Fifo!CheckSz(rest[m + 1])
    BY <1>2, <2>1, Zenon
  <2>5. h[(m + 1) + 1] = h[m + 1] + Fifo!CheckSz(rest[m + 1])
    BY <1>1, <2>1, <2>2, Zenon
  <2>6. g[m] \in Nat /\ g[m + 1] \in Nat
    BY <1>t, <2>1, Zenon
  <2> QED
    BY <1>c, <2>1, <2>3, <2>4, <2>5, <2>6
<1> HIDE DEF S
<1>5. n - 1 \in S
  <2>1. \A m \in Nat : m \in S
    BY <1>3, <1>4, Induct, Zenon
  <2>2. n - 1 \in Nat
    BY <1>0
  <2> QED
    BY <2>1, <2>2, Zenon
<1>6. h[(n - 1) + 1] = g[n - 1] + c /\ (n - 1) + 1 = n
  BY <1>0, <1>5 DEF S
<1>7. Fifo!Mem(msgs) = h[n] /\ Fifo!Mem(rest) = g[n - 1]
  <2>1. Fifo!Mem(msgs) = h[n] /\ Fifo!Mem(rest) = g[Len(rest)]
    BY Zenon DEF Fifo!Mem, g, h, n
  <2> QED
    BY <1>0, <2>1, Zenon
<1>8. Fifo!Mem(msgs) = Fifo!Mem(rest) + c
  BY <1>6, <1>7, Zenon
<1> QED
  BY <1>8, Zenon DEF rest, c

-----------------------------------------------------------------------------
(* The chain of chunks *)

Links == [Chunks -> Chunks \cup {NULL}]

(* The links of first and of the members of S stay in S. *)
Follows(S, first, links) ==
  first \in S \cup {NULL} /\ \A c \in S : links[c] \in S \cup {NULL}

(* The chain is the least set of chunks that follows the links. *)
LEMMA ChainLeast ==
  ASSUME NEW links \in Links, NEW first \in Chunks \cup {NULL}
  PROVE  /\ ChainOf(first, links) \subseteq Chunks
         /\ Follows(ChainOf(first, links), first, links)
         /\ \A S \in SUBSET Chunks : Follows(S, first, links) => ChainOf(first, links) \subseteq S
<1> DEFINE C == ChainOf(first, links)
<1>1. ASSUME NEW c
      PROVE  c \in C <=> c \in Chunks /\ \A S \in SUBSET Chunks : Follows(S, first, links) => c \in S
  BY Zenon DEF ChainOf, Follows
<1> HIDE DEF C
<1>2. C \subseteq Chunks
  BY <1>1, Zenon
<1>3. \A S \in SUBSET Chunks : Follows(S, first, links) => C \subseteq S
  BY <1>1, Zenon
<1>4. first \in C \cup {NULL}
  <2> SUFFICES ASSUME first # NULL PROVE first \in C
    BY Zenon
  <2>1. \A S \in SUBSET Chunks : Follows(S, first, links) => first \in S
    BY Zenon DEF Follows
  <2> QED
    BY <1>1, <2>1, Zenon
<1>5. ASSUME NEW c \in C PROVE links[c] \in C \cup {NULL}
  <2>1. c \in Chunks /\ links[c] \in Chunks \cup {NULL}
    BY <1>2, Zenon DEF Links
  <2> SUFFICES ASSUME links[c] # NULL PROVE links[c] \in C
    BY Zenon
  <2>2. ASSUME NEW S \in SUBSET Chunks, Follows(S, first, links) PROVE links[c] \in S
    <3>1. c \in S
      BY <1>3, <2>2, Zenon
    <3> QED
      BY <2>2, <3>1, Zenon DEF Follows
  <2> QED
    BY <1>1, <2>1, <2>2, Zenon
<1>6. Follows(C, first, links)
  BY <1>4, <1>5, Zenon DEF Follows
<1> QED
  BY <1>2, <1>3, <1>6, Zenon DEF C

(* No chunk follows NULL. *)
LEMMA ChainEmpty ==
  ASSUME NEW links \in Links
  PROVE  ChainOf(NULL, links) = {}
<1>1. Follows({}, NULL, links)
  BY Zenon DEF Follows
<1> QED
  BY <1>1, ChainLeast, Zenon

(* The chain from first ends in last and never comes back to a chunk. *)
Shape(first, links, last) ==
  /\ first = NULL <=> last = NULL
  /\ last # NULL => last \in ChainOf(first, links) /\ links[last] = NULL
  /\ \A c \in ChainOf(first, links) : (c # last => links[c] # NULL) /\ links[c] # first
  /\ \A c, d \in ChainOf(first, links) : links[c] = links[d] /\ links[c] # NULL => c = d

(* Linking a chunk that is not in the chain puts it at its end. *)
LEMMA ChainGrows ==
  ASSUME NEW links \in Links, NEW first \in Chunks \cup {NULL}, NEW last \in Chunks \cup {NULL},
         Shape(first, links, last), NEW c \in Chunks, c \notin ChainOf(first, links),
         NEW head, head = IF first = NULL THEN c ELSE first
  PROVE  /\ Linked(links, last, c) \in Links
         /\ ChainOf(head, Linked(links, last, c)) = ChainOf(first, links) \cup {c}
         /\ Shape(head, Linked(links, last, c), c)
<1> DEFINE more == Linked(links, last, c)
           C == ChainOf(first, links)
           D == ChainOf(head, more)
<1>1. more \in Links
  BY Zenon DEF Linked, Links
<1>2. more[c] = NULL /\ (last # NULL => more[last] = c)
      /\ \A x \in Chunks : x # c /\ x # last => more[x] = links[x]
  <2>1. last # NULL => last # c
    BY Zenon DEF Shape
  <2> QED
    BY <2>1, MsgQueueAssumption, Zenon DEF Linked
<1>3. C \subseteq Chunks /\ Follows(C, first, links)
      /\ \A S \in SUBSET Chunks : Follows(S, first, links) => C \subseteq S
  BY ChainLeast, Zenon
<1>4. head \in Chunks
  BY Zenon
<1> HIDE DEF more
<1>5. D \subseteq Chunks /\ Follows(D, head, more)
      /\ \A S \in SUBSET Chunks : Follows(S, head, more) => D \subseteq S
  BY <1>1, <1>4, ChainLeast, Zenon
<1>6. first = NULL => C = {}
  BY ChainEmpty, Zenon
<1>7. /\ first = NULL <=> last = NULL
      /\ last # NULL => last \in C /\ links[last] = NULL
      /\ \A x \in C : (x # last => links[x] # NULL) /\ links[x] # first
      /\ \A x, y \in C : links[x] = links[y] /\ links[x] # NULL => x = y
      /\ c \notin C
  BY Zenon DEF Shape
<1>n. c # NULL /\ \A x \in C : x # NULL /\ x \in Chunks /\ links[x] \in C \cup {NULL}
  BY <1>3, MsgQueueAssumption, Zenon DEF Follows
<1> HIDE DEF C, D
<1>8. D \subseteq C \cup {c}
  <2>1. head \in C \cup {c}
    BY <1>3, <1>n, Zenon DEF Follows
  <2>2. ASSUME NEW x \in C \cup {c} PROVE more[x] \in (C \cup {c}) \cup {NULL}
    <3>1. CASE x = c
      BY <1>2, <3>1, Zenon
    <3>2. CASE x # c /\ x = last
      BY <1>2, <1>n, <3>2, Zenon
    <3>3. CASE x # c /\ x # last
      BY <1>2, <1>n, <3>3, Zenon
    <3> QED
      BY <3>1, <3>2, <3>3, Zenon
  <2>3. Follows(C \cup {c}, head, more)
    BY <2>1, <2>2, Zenon DEF Follows
  <2> QED
    BY <1>3, <1>5, <2>3, Zenon
<1>9. C \cup {c} \subseteq D
  <2>1. Follows(D \cap C, first, links)
    <3>1. first \in (D \cap C) \cup {NULL}
      BY <1>3, <1>5, MsgQueueAssumption, Zenon DEF Follows
    <3>2. ASSUME NEW x \in D \cap C PROVE links[x] \in (D \cap C) \cup {NULL}
      <4>1. x # c /\ x \in Chunks /\ links[x] \in C \cup {NULL}
        BY <1>3, <1>7, Zenon DEF Follows
      <4>2. CASE x = last
        BY <1>7, <1>n, <4>2, Zenon
      <4>3. CASE x # last
        BY <1>2, <1>5, <4>1, <4>3, Zenon DEF Follows
      <4> QED
        BY <4>2, <4>3, Zenon
    <3> QED
      BY <3>1, <3>2, Zenon DEF Follows
  <2>2. C \subseteq D
    BY <1>3, <2>1, Zenon
  <2>3. c \in D
    <3>1. CASE first = NULL
      BY <1>5, <3>1, MsgQueueAssumption, Zenon DEF Follows
    <3>2. CASE first # NULL
      BY <1>2, <1>5, <1>7, <2>2, <3>2, MsgQueueAssumption DEF Follows
    <3> QED
      BY <3>1, <3>2, Zenon
  <2> QED
    BY <2>2, <2>3, Zenon
<1>10. D = C \cup {c}
  BY <1>8, <1>9, Zenon
<1>11. ASSUME NEW x \in D PROVE (x # c => more[x] # NULL) /\ more[x] # head
  <2>1. CASE x = c
    BY <1>2, <1>4, <2>1, MsgQueueAssumption, Zenon
  <2>2. CASE x # c /\ x = last
    BY <1>2, <1>3, <1>7, <1>10, <1>n, <2>2, Zenon DEF Follows
  <2>3. CASE x # c /\ x # last
    <3>1. x \in C /\ more[x] = links[x] /\ first # NULL
      BY <1>2, <1>6, <1>10, <1>n, <2>3, Zenon
    <3> QED
      BY <1>7, <2>3, <3>1, Zenon
  <2> QED
    BY <2>1, <2>2, <2>3, Zenon
<1>12. ASSUME NEW x \in D, NEW y \in D, more[x] = more[y], more[x] # NULL PROVE x = y
  <2>1. x \in C /\ y \in C /\ x \in Chunks /\ y \in Chunks
    BY <1>2, <1>3, <1>10, <1>12, Zenon
  <2>2. links[x] # c /\ links[y] # c
    BY <1>3, <1>7, <2>1, MsgQueueAssumption DEF Follows
  <2>3. CASE x # last /\ y # last
    <3>1. more[x] = links[x] /\ more[y] = links[y]
      BY <1>2, <1>7, <2>1, <2>3, Zenon
    <3> QED
      BY <1>7, <1>12, <2>1, <3>1, Zenon
  <2>4. CASE x = last \/ y = last
    <3>1. last # NULL /\ more[last] = c
      BY <1>2, <1>n, <2>1, <2>4, Zenon
    <3>2. (x # last => more[x] = links[x]) /\ (y # last => more[y] = links[y])
      BY <1>2, <1>7, <2>1, Zenon
    <3> QED
      BY <1>12, <2>2, <2>4, <3>1, <3>2, Zenon
  <2> QED
    BY <2>3, <2>4, Zenon
<1>13. Shape(head, more, c)
  <2>1. c # NULL /\ head # NULL
    BY <1>4, MsgQueueAssumption, Zenon
  <2>2. c \in D
    BY <1>10, Zenon
  <2> QED
    BY <1>2, <1>11, <1>12, <2>1, <2>2, Zenon DEF Shape, D
<1> QED
  BY <1>1, <1>10, <1>13, Zenon DEF more, C, D

(* Dropping the first chunk leaves the others. *)
LEMMA ChainShrinks ==
  ASSUME NEW links \in Links, NEW first \in Chunks, NEW last \in Chunks \cup {NULL},
         Shape(first, links, last),
         NEW end, end = IF first = last THEN NULL ELSE last
  PROVE  /\ ChainOf(links[first], links) = ChainOf(first, links) \ {first}
         /\ Shape(links[first], links, end)
         /\ first \in ChainOf(first, links)
<1> DEFINE C == ChainOf(first, links)
           D == ChainOf(links[first], links)
<1>1. C \subseteq Chunks /\ Follows(C, first, links)
      /\ \A S \in SUBSET Chunks : Follows(S, first, links) => C \subseteq S
  BY ChainLeast, Zenon
<1>2. links[first] \in Chunks \cup {NULL}
  BY Zenon DEF Links
<1>3. D \subseteq Chunks /\ Follows(D, links[first], links)
      /\ \A S \in SUBSET Chunks : Follows(S, links[first], links) => D \subseteq S
  BY <1>2, ChainLeast, Zenon
<1>4. /\ last # NULL /\ last \in C /\ links[last] = NULL
      /\ \A x \in C : (x # last => links[x] # NULL) /\ links[x] # first
      /\ \A x, y \in C : links[x] = links[y] /\ links[x] # NULL => x = y
      /\ first # NULL
  BY MsgQueueAssumption, Zenon DEF Shape
<1> HIDE DEF C, D
<1>5. first \in C
  BY <1>1, <1>4, Zenon DEF Follows
<1>6. D \subseteq C \ {first}
  <2>1. Follows(C \ {first}, links[first], links)
    BY <1>1, <1>4, <1>5, Zenon DEF Follows
  <2> QED
    BY <1>1, <1>3, <2>1
<1>7. C \subseteq D \cup {first}
  <2>1. Follows(D \cup {first}, first, links)
    BY <1>3, Zenon DEF Follows
  <2> QED
    BY <1>1, <1>3, <2>1, Zenon
<1>8. D = C \ {first}
  BY <1>6, <1>7, Zenon
<1>9. links[first] = NULL <=> end = NULL
  BY <1>4, <1>5, Zenon
<1>10. end # NULL => end \in D /\ links[end] = NULL
  BY <1>4, <1>8, Zenon
<1>11. \A x \in D : (x # end => links[x] # NULL) /\ links[x] # links[first]
  <2> SUFFICES ASSUME NEW x \in D PROVE (x # end => links[x] # NULL) /\ links[x] # links[first]
    BY Zenon
  <2>1. x \in C /\ x # first
    BY <1>8, Zenon
  <2>2. CASE first = last
    <3>1. links[first] = NULL
      BY <1>4, <2>2, Zenon
    <3>2. Follows({}, links[first], links)
      BY <3>1, Zenon DEF Follows
    <3> QED
      BY <1>3, <3>2
  <2>3. CASE first # last
    BY <1>4, <1>5, <2>1, <2>3, Zenon
  <2> QED
    BY <2>2, <2>3, Zenon
<1>12. \A x, y \in D : links[x] = links[y] /\ links[x] # NULL => x = y
  BY <1>4, <1>8, Zenon
<1>13. Shape(links[first], links, end)
  BY <1>9, <1>10, <1>11, <1>12, Zenon DEF Shape, D
<1> QED
  BY <1>5, <1>8, <1>13, Zenon DEF C, D

-----------------------------------------------------------------------------
(* The inductive invariant, as a predicate of the fields of mb_msgqueue: h    *)
(* the chunks, s their slots, the cursors first[fpos] and last[lpos], spare   *)
(* the cached chunk.                                                          *)

SlotsOf == [Chunks -> [Slots -> Sizes \cup {FREE}]]

CellsOf(h, s) == {x \in h \X Slots : s[x[1]][x[2]] # FREE}

Typed(h, s, links, first, fpos, last, lpos, spare) ==
  /\ h \in SUBSET Chunks /\ s \in SlotsOf /\ links \in Links
  /\ first \in Chunks \cup {NULL} /\ fpos \in Slots
  /\ last \in Chunks \cup {NULL} /\ lpos \in 0 .. GRANULARITY
  /\ spare \in Chunks \cup {NULL}

(* A chunk is in the chain or is the spare one. *)
Owned(h, links, first, spare) ==
  /\ h = ChainOf(first, links) \cup ({spare} \ {NULL})
  /\ spare \notin ChainOf(first, links)

(* The messages are in the slots between the cursors. *)
Filled(h, s, links, first, fpos, last, lpos) ==
  /\ \A c \in ChainOf(first, links), i \in Slots :
       s[c][i] # FREE <=> (c = first => i >= fpos) /\ (c = last => i < lpos)
  /\ \A c \in h \ ChainOf(first, links), i \in Slots : s[c][i] = FREE
  /\ first = last => fpos <= lpos \/ first = NULL

(* The read cursor passes each of them once, in the order of msgs, and comes  *)
(* to the write cursor.                                                       *)
Listed(h, s, links, first, fpos, last, lpos, msgs) ==
  LET n == Len(msgs)
      at == Places(first, fpos, links, n)
  IN /\ msgs \in Seq(Sizes)
     /\ \A k \in 0 .. n - 1 : at[k] \in CellsOf(h, s) /\ msgs[k + 1] = s[at[k][1]][at[k][2]]
     /\ \A j, k \in 0 .. n - 1 : at[j] = at[k] => j = k
     /\ last # NULL => IF lpos < GRANULARITY THEN at[n] = <<last, lpos>>
                       ELSE n > 0 /\ at[n - 1] = <<last, GRANULARITY - 1>>
     /\ IsFiniteSet(CellsOf(h, s)) /\ Cardinality(CellsOf(h, s)) = n

Good(h, s, links, first, fpos, last, lpos, spare, msgs) ==
  /\ Typed(h, s, links, first, fpos, last, lpos, spare)
  /\ Shape(first, links, last)
  /\ Owned(h, links, first, spare)
  /\ Filled(h, s, links, first, fpos, last, lpos)
  /\ Listed(h, s, links, first, fpos, last, lpos, msgs)

(* No message is left where there is no chunk. *)
LEMMA EmptyWithoutChain ==
  ASSUME NEW h, NEW s, NEW links, NEW first, NEW fpos, NEW last, NEW lpos, NEW spare, NEW msgs,
         Good(h, s, links, first, fpos, last, lpos, spare, msgs), first = NULL
  PROVE  Len(msgs) = 0 /\ CellsOf(h, s) = {}
<1>1. ChainOf(first, links) = {}
  BY ChainEmpty, Zenon DEF Good, Typed
<1>2. CellsOf(h, s) = {}
  BY <1>1 DEF Good, Filled, CellsOf
<1>3. Cardinality(CellsOf(h, s)) = 0
  BY <1>2, FS_EmptySet, Zenon
<1> QED
  BY <1>2, <1>3, Zenon DEF Good, Listed

(* The chunk c is linked after the last one, which has no free slot left:    *)
(* the spare chunk if there is one, else a chunk that is not allocated.      *)
ChunkJoins(h, first, fpos, last, lpos, spare, c, head, hpos) ==
  /\ last = NULL \/ lpos = GRANULARITY
  /\ c \in Chunks /\ IF spare # NULL THEN c = spare ELSE c \notin h
  /\ head = IF first = NULL THEN c ELSE first
  /\ hpos = IF first = NULL THEN 0 ELSE fpos

(* What linking the chunk c after the last one leaves: a well-formed chain   *)
(* that ends in c, and the same occupied slots.                              *)
ChunkJoined(h, s, links, first, last, c, head, hpos) ==
  /\ Typed(h \cup {c}, Zeroed(s, h, c), Linked(links, last, c), head, hpos, c, 0, NULL)
  /\ Shape(head, Linked(links, last, c), c)
  /\ Owned(h \cup {c}, Linked(links, last, c), head, NULL)
  /\ Filled(h \cup {c}, Zeroed(s, h, c), Linked(links, last, c), head, hpos, c, 0)
  /\ CellsOf(h \cup {c}, Zeroed(s, h, c)) = CellsOf(h, s)
  /\ \A x \in CellsOf(h, s) : x[1] # c /\ x[1] \in Chunks /\ Zeroed(s, h, c)[x[1]] = s[x[1]]
  /\ c \notin ChainOf(first, links)

(* A chunk the allocator may hand out is free, and its slots are empty once  *)
(* it is linked: the messages stay where they are.                           *)
LEMMA GrowFilled ==
  ASSUME NEW h, NEW s, NEW links, NEW first, NEW fpos, NEW last, NEW lpos, NEW spare, NEW msgs,
         Good(h, s, links, first, fpos, last, lpos, spare, msgs),
         NEW c, NEW head, NEW hpos, ChunkJoins(h, first, fpos, last, lpos, spare, c, head, hpos)
  PROVE  ChunkJoined(h, s, links, first, last, c, head, hpos)
<1>0. /\ last = NULL \/ lpos = GRANULARITY
      /\ c \in Chunks /\ IF spare # NULL THEN c = spare ELSE c \notin h
      /\ head = IF first = NULL THEN c ELSE first
      /\ hpos = IF first = NULL THEN 0 ELSE fpos
  BY Zenon DEF ChunkJoins
<1> USE <1>0
<1> DEFINE C == ChainOf(first, links)
           t == Zeroed(s, h, c)
           more == Linked(links, last, c)
           D == ChainOf(head, more)
<1>1. /\ h \in SUBSET Chunks /\ s \in SlotsOf /\ links \in Links
      /\ first \in Chunks \cup {NULL} /\ fpos \in Slots
      /\ last \in Chunks \cup {NULL} /\ lpos \in 0 .. GRANULARITY
      /\ spare \in Chunks \cup {NULL}
      /\ h = C \cup ({spare} \ {NULL}) /\ spare \notin C
      /\ Shape(first, links, last)
  BY Zenon DEF Good, Typed, Owned
<1>2. /\ \A d \in C, i \in Slots :
           s[d][i] # FREE <=> (d = first => i >= fpos) /\ (d = last => i < lpos)
      /\ \A d \in h \ C, i \in Slots : s[d][i] = FREE
      /\ first = last => fpos <= lpos \/ first = NULL
  BY Zenon DEF Good, Filled
<1>3. c \notin C
  BY <1>1, Zenon
<1>4. more \in Links /\ D = C \cup {c} /\ Shape(head, more, c)
  BY <1>1, <1>3, ChainGrows
<1>5. C \subseteq Chunks /\ (first # NULL => first \in C) /\ (first = NULL => C = {})
  BY <1>1, ChainLeast, ChainEmpty DEF Follows
<1>6. t \in SlotsOf /\ (\A i \in Slots : t[c][i] = FREE) /\ \A d \in Chunks : d # c => t[d] = s[d]
  <2>1. CASE c \in h
    BY <1>1, <1>2, <1>3, <2>1, Zenon DEF Zeroed
  <2>2. CASE c \notin h
    BY <1>1, <2>2, Zenon DEF Zeroed, SlotsOf
  <2> QED
    BY <2>1, <2>2, Zenon
<1>7. head \in Chunks /\ hpos \in Slots /\ 0 \in 0 .. GRANULARITY /\ c # NULL
  BY <1>1, MsgQueueAssumption DEF Slots
<1> HIDE DEF C, t, more, D
<1>8. Typed(h \cup {c}, t, more, head, hpos, c, 0, NULL)
  BY <1>1, <1>4, <1>6, <1>7, Zenon DEF Typed
<1>9. Owned(h \cup {c}, more, head, NULL)
  <2>1. h \cup {c} = D \cup ({NULL} \ {NULL})
    BY <1>1, <1>4, Zenon
  <2>2. NULL \notin D
    BY <1>4, <1>5, MsgQueueAssumption, Zenon
  <2> QED
    BY <2>1, <2>2, Zenon DEF Owned, D
<1>10. ASSUME NEW d \in D, NEW i \in Slots
       PROVE  t[d][i] # FREE <=> (d = head => i >= hpos) /\ (d = c => i < 0)
  <2>0. i \in Nat /\ i < GRANULARITY
    BY MsgQueueAssumption DEF Slots
  <2>1. CASE d = c
    BY <1>6, <2>0, <2>1
  <2>2. CASE d # c
    <3>1. d \in C /\ d \in Chunks /\ t[d] = s[d] /\ first # NULL
      BY <1>4, <1>5, <1>6, <2>2, Zenon
    <3>2. head = first /\ hpos = fpos
      BY <3>1, Zenon
    <3>3. d = last => i < lpos
      BY <2>0, <3>1, MsgQueueAssumption, Zenon
    <3> QED
      BY <1>2, <2>2, <3>1, <3>2, <3>3, Zenon
  <2> QED
    BY <2>1, <2>2, Zenon
<1>11. ASSUME NEW d \in (h \cup {c}) \ D, NEW i \in Slots PROVE t[d][i] = FREE
  BY <1>1, <1>2, <1>4, <1>6, Zenon
<1>12. head = c => hpos <= 0 \/ head = NULL
  BY <1>3, <1>5
<1>13. Filled(h \cup {c}, t, more, head, hpos, c, 0)
  BY <1>10, <1>11, <1>12, Zenon DEF Filled, D
<1>14. \A x \in CellsOf(h, s) : x[1] # c /\ x[1] \in Chunks /\ t[x[1]] = s[x[1]]
  <2> SUFFICES ASSUME NEW x \in CellsOf(h, s) PROVE x[1] # c /\ x[1] \in Chunks /\ t[x[1]] = s[x[1]]
    BY Zenon
  <2>1. x[1] \in h /\ x[2] \in Slots /\ s[x[1]][x[2]] # FREE
    BY Zenon DEF CellsOf
  <2> QED
    BY <1>1, <1>2, <1>3, <1>6, <2>1
<1>15. CellsOf(h \cup {c}, t) = CellsOf(h, s)
  <2>1. ASSUME NEW x \in CellsOf(h, s) PROVE x \in CellsOf(h \cup {c}, t)
    BY <1>14, Zenon DEF CellsOf
  <2>2. ASSUME NEW x \in CellsOf(h \cup {c}, t) PROVE x \in CellsOf(h, s)
    <3>1. x \in (h \cup {c}) \X Slots /\ x[1] \in h \cup {c} /\ x[2] \in Slots /\ t[x[1]][x[2]] # FREE
      BY Zenon DEF CellsOf
    <3>2. x[1] # c /\ x[1] \in Chunks
      BY <1>1, <1>6, <3>1, Zenon
    <3>3. x \in h \X Slots
      BY <3>1, <3>2, Zenon
    <3> QED
      BY <1>6, <3>1, <3>2, <3>3, Zenon DEF CellsOf
  <2> QED
    BY <2>1, <2>2, Zenon
<1> QED
  BY <1>3, <1>4, <1>8, <1>9, <1>13, <1>14, <1>15, Zenon DEF ChunkJoined, C, t, more

(* g runs along f, d places ahead, for m steps. *)
Along(f, g, d, m) == \A k \in 0 .. m : g[k + d] = f[k]

(* Two cursors that meet stay together while their links agree. *)
LEMMA PlacesAgree ==
  ASSUME NEW c, NEW pos, NEW links, NEW n \in Nat,
         NEW c2, NEW pos2, NEW links2, NEW n2 \in Nat,
         NEW d \in Nat, NEW m \in Nat, m <= n, m + d <= n2,
         Places(c2, pos2, links2, n2)[d] = <<c, pos>>,
         \A k \in 0 .. m - 1 : Onward(Places(c, pos, links, n)[k], links2)
                                 = Onward(Places(c, pos, links, n)[k], links)
  PROVE  Along(Places(c, pos, links, n), Places(c2, pos2, links2, n2), d, m)
<1> DEFINE f == Places(c, pos, links, n)
           g == Places(c2, pos2, links2, n2)
           S == {k \in Nat : k \in 0 .. m => g[k + d] = f[k]}
<1>1. f[0] = <<c, pos>> /\ \A k \in 0 .. n - 1 : f[k + 1] = Onward(f[k], links)
  BY PlacesDef
<1>2. \A k \in 0 .. n2 - 1 : g[k + 1] = Onward(g[k], links2)
  BY PlacesDef
<1>3. g[d] = <<c, pos>> /\ \A k \in 0 .. m - 1 : Onward(f[k], links2) = Onward(f[k], links)
  BY Zenon
<1> HIDE DEF f, g
<1>4. 0 \in S
  BY <1>1, <1>3
<1>5. ASSUME NEW k \in Nat, k \in S PROVE k + 1 \in S
  <2> SUFFICES ASSUME k + 1 \in 0 .. m PROVE g[(k + 1) + d] = f[k + 1]
    OBVIOUS
  <2>1. k \in 0 .. m - 1 /\ k \in 0 .. n - 1 /\ k + d \in 0 .. n2 - 1 /\ (k + 1) + d = (k + d) + 1
    OBVIOUS
  <2>2. g[k + d] = f[k]
    BY <1>5, <2>1
  <2>3. g[(k + d) + 1] = Onward(g[k + d], links2) /\ f[k + 1] = Onward(f[k], links)
    BY <1>1, <1>2, <2>1, Zenon
  <2>4. Onward(f[k], links2) = Onward(f[k], links)
    BY <1>3, <2>1, Zenon
  <2> QED
    BY <2>1, <2>2, <2>3, <2>4, Zenon
<1> HIDE DEF S
<1>6. \A k \in Nat : k \in S
  BY <1>4, <1>5, Induct, Zenon
<1>7. \A k \in 0 .. m : k \in Nat
  OBVIOUS
<1> QED
  BY <1>6, <1>7, Zenon DEF S, Along, f, g

(* Linking a chunk keeps the queue good, with the same messages. *)
LEMMA GrowGood ==
  ASSUME NEW h, NEW s, NEW links, NEW first, NEW fpos, NEW last, NEW lpos, NEW spare, NEW msgs,
         Good(h, s, links, first, fpos, last, lpos, spare, msgs),
         last = NULL \/ lpos = GRANULARITY,
         NEW c \in Chunks, IF spare # NULL THEN c = spare ELSE c \notin h,
         NEW head, head = IF first = NULL THEN c ELSE first,
         NEW hpos, hpos = IF first = NULL THEN 0 ELSE fpos
  PROVE  Good(h \cup {c}, Zeroed(s, h, c), Linked(links, last, c), head, hpos, c, 0, NULL, msgs)
<1> DEFINE t == Zeroed(s, h, c)
           more == Linked(links, last, c)
           n == Len(msgs)
           at == Places(first, fpos, links, n)
           now == Places(head, hpos, more, n)
<1>1. /\ Typed(h \cup {c}, t, more, head, hpos, c, 0, NULL)
      /\ Shape(head, more, c)
      /\ Owned(h \cup {c}, more, head, NULL)
      /\ Filled(h \cup {c}, t, more, head, hpos, c, 0)
      /\ CellsOf(h \cup {c}, t) = CellsOf(h, s)
      /\ \A x \in CellsOf(h, s) : x[1] # c /\ x[1] \in Chunks /\ t[x[1]] = s[x[1]]
      /\ c \notin ChainOf(first, links)
  <2>1. ChunkJoins(h, first, fpos, last, lpos, spare, c, head, hpos)
    BY Zenon DEF ChunkJoins
  <2>2. ChunkJoined(h, s, links, first, last, c, head, hpos)
    BY <2>1, GrowFilled, Zenon
  <2> QED
    BY <2>2, Zenon DEF ChunkJoined
<1>2. /\ msgs \in Seq(Sizes) /\ n \in Nat
      /\ \A k \in 0 .. n - 1 : at[k] \in CellsOf(h, s) /\ msgs[k + 1] = s[at[k][1]][at[k][2]]
      /\ \A j, k \in 0 .. n - 1 : at[j] = at[k] => j = k
      /\ last # NULL => IF lpos < GRANULARITY THEN at[n] = <<last, lpos>>
                        ELSE n > 0 /\ at[n - 1] = <<last, GRANULARITY - 1>>
      /\ IsFiniteSet(CellsOf(h, s)) /\ Cardinality(CellsOf(h, s)) = n
  BY DEF Good, Listed
<1>3. /\ first = NULL <=> last = NULL
      /\ last # NULL => last \in Chunks /\ links[last] = NULL /\ last # c
      /\ links \in Links
  BY <1>1, Zenon DEF Good, Shape, Typed
<1>4. first = NULL => n = 0
  BY EmptyWithoutChain, Zenon
<1>5. more[c] = NULL /\ (last # NULL => more[last] = c)
      /\ \A x \in Chunks : x # c /\ x # last => more[x] = links[x]
  BY <1>3, MsgQueueAssumption, Zenon DEF Linked
<1>6. now[0] = <<head, hpos>> /\ \A k \in 0 .. n - 1 : now[k + 1] = Onward(now[k], more)
  BY <1>2, PlacesDef
<1>7. at[0] = <<first, fpos>> /\ \A k \in 0 .. n - 1 : at[k + 1] = Onward(at[k], links)
  BY <1>2, PlacesDef
<1>8. ASSUME n > 0 PROVE \A k \in 0 .. n - 1 : now[k] = at[k]
  <2>1. first # NULL /\ head = first /\ hpos = fpos
    BY <1>2, <1>4, <1>8
  <2>2. now[0] = <<first, fpos>>
    BY <1>6, <2>1, Zenon
  <2>3. ASSUME NEW k \in 0 .. n - 2 PROVE Onward(at[k], more) = Onward(at[k], links)
    <3>1. k \in 0 .. n - 1 /\ k + 1 \in 0 .. n - 1
      BY <1>2
    <3>2. at[k] \in CellsOf(h, s) /\ at[k + 1] \in CellsOf(h, s) /\ at[k + 1] = Onward(at[k], links)
      BY <1>2, <1>7, <3>1, Zenon
    <3>3. at[k][1] # c /\ at[k][1] \in Chunks /\ at[k + 1][1] \in Chunks
      BY <1>1, <3>2, Zenon
    <3>4. CASE at[k][2] + 1 = GRANULARITY
      <4>1. at[k + 1][1] = links[at[k][1]]
        BY <3>2, <3>4 DEF Onward
      <4>2. at[k][1] # last
        BY <1>3, <3>3, <4>1, MsgQueueAssumption, Zenon
      <4> QED
        BY <1>5, <3>3, <4>2, Zenon DEF Onward
    <3>5. CASE at[k][2] + 1 # GRANULARITY
      BY <3>5, Zenon DEF Onward
    <3> QED
      BY <3>4, <3>5, Zenon
  <2> DEFINE m == n - 1
  <2>4. n \in Nat /\ m \in Nat /\ m <= n /\ m + 0 <= n /\ 0 \in Nat
    BY <1>2, <1>8
  <2>5. \A k \in 0 .. m - 1 : Onward(at[k], more) = Onward(at[k], links)
    <3>1. m - 1 = n - 2
      BY <1>2
    <3> QED
      BY <2>3, <3>1, Zenon
  <2> HIDE DEF n, m, more
  <2>6. \A k \in 0 .. m : now[k + 0] = at[k]
    <3>1. Along(at, now, 0, m)
      BY <2>2, <2>4, <2>5, PlacesAgree
    <3> QED
      BY <3>1, Zenon DEF Along
  <2> HIDE DEF at, now
  <2>7. \A k \in 0 .. m : k + 0 = k
    BY <2>4
  <2> QED
    BY <2>6, <2>7, Zenon DEF m
<1> HIDE DEF n, at, now, t, more
<1>9. \A k \in 0 .. n - 1 : now[k] \in CellsOf(h, s) /\ msgs[k + 1] = t[now[k][1]][now[k][2]]
  <2> SUFFICES ASSUME NEW k \in 0 .. n - 1
               PROVE  now[k] \in CellsOf(h, s) /\ msgs[k + 1] = t[now[k][1]][now[k][2]]
    BY Zenon
  <2>1. now[k] = at[k] /\ at[k] \in CellsOf(h, s) /\ msgs[k + 1] = s[at[k][1]][at[k][2]]
    BY <1>2, <1>8
  <2> QED
    BY <1>1, <2>1, Zenon
<1>10. now[n] = <<c, 0>>
  <2>1. CASE first = NULL
    BY <1>4, <1>6, <2>1, Zenon
  <2>2. CASE first # NULL
    <3>1. last # NULL /\ n > 0 /\ at[n - 1] = <<last, GRANULARITY - 1>>
      BY <1>2, <1>3, <2>2, MsgQueueAssumption
    <3>2. n - 1 \in 0 .. n - 1 /\ (n - 1) + 1 = n
      BY <1>2, <3>1
    <3>3. now[n - 1] = <<last, GRANULARITY - 1>>
      BY <1>8, <3>1, <3>2, Zenon
    <3>4. now[n] = Onward(<<last, GRANULARITY - 1>>, more)
      BY <1>6, <3>2, <3>3, Zenon
    <3> QED
      BY <1>5, <3>1, <3>4, MsgQueueAssumption DEF Onward
  <2> QED
    BY <2>1, <2>2, Zenon
<1>d. \A j, k \in 0 .. n - 1 : now[j] = now[k] => j = k
  BY <1>2, <1>8
<1>11. Listed(h \cup {c}, t, more, head, hpos, c, 0, msgs)
  <2>1. 0 < GRANULARITY
    BY MsgQueueAssumption
  <2>2. c # NULL => IF 0 < GRANULARITY THEN now[n] = <<c, 0>>
                    ELSE n > 0 /\ now[n - 1] = <<c, GRANULARITY - 1>>
    BY <1>10, <2>1, Zenon
  <2> QED
    BY <1>1, <1>2, <1>9, <1>d, <2>2, Zenon DEF Listed, n, now
<1> QED
  BY <1>1, <1>11, Zenon DEF Good, t, more

(* A message written at the write cursor is the last of the queue. *)
LEMMA PutGood ==
  ASSUME NEW h, NEW s, NEW links, NEW first, NEW fpos, NEW last, NEW lpos, NEW spare, NEW msgs,
         Good(h, s, links, first, fpos, last, lpos, spare, msgs),
         last # NULL, lpos < GRANULARITY, NEW sz \in Sizes
  PROVE  Good(h, [s EXCEPT ![last][lpos] = sz], links, first, fpos, last, lpos + 1, spare,
              Append(msgs, sz))
<1> DEFINE C == ChainOf(first, links)
           t == [s EXCEPT ![last][lpos] = sz]
           n == Len(msgs)
           at == Places(first, fpos, links, n)
           now == Places(first, fpos, links, n + 1)
           all == Append(msgs, sz)
           cell == <<last, lpos>>
<1>1. /\ h \in SUBSET Chunks /\ s \in SlotsOf /\ links \in Links
      /\ first \in Chunks \cup {NULL} /\ fpos \in Slots
      /\ last \in Chunks \cup {NULL} /\ lpos \in 0 .. GRANULARITY
      /\ spare \in Chunks \cup {NULL}
      /\ h = C \cup ({spare} \ {NULL}) /\ spare \notin C
      /\ last \in C /\ last \in Chunks /\ last \in h
  BY Zenon DEF Good, Typed, Owned, Shape
<1>2. /\ \A d \in C, i \in Slots :
           s[d][i] # FREE <=> (d = first => i >= fpos) /\ (d = last => i < lpos)
      /\ \A d \in h \ C, i \in Slots : s[d][i] = FREE
      /\ first = last => fpos <= lpos \/ first = NULL
  BY Zenon DEF Good, Filled
<1>3. /\ msgs \in Seq(Sizes) /\ n \in Nat
      /\ \A k \in 0 .. n - 1 : at[k] \in CellsOf(h, s) /\ msgs[k + 1] = s[at[k][1]][at[k][2]]
      /\ \A j, k \in 0 .. n - 1 : at[j] = at[k] => j = k
      /\ at[n] = cell
      /\ IsFiniteSet(CellsOf(h, s)) /\ Cardinality(CellsOf(h, s)) = n
  BY DEF Good, Listed
<1>4. lpos \in Slots /\ lpos \in Nat /\ fpos \in Nat /\ lpos + 1 \in 0 .. GRANULARITY
      /\ sz # FREE /\ sz \in Sizes /\ \A i \in Slots : i \in Nat /\ i < GRANULARITY
  BY <1>1, MsgQueueAssumption DEF Slots
<1>5. /\ t \in SlotsOf /\ t[last][lpos] = sz
      /\ \A d \in Chunks, i \in Slots : <<d, i>> # cell => t[d][i] = s[d][i]
  BY <1>1, <1>4, Zenon DEF SlotsOf
<1> HIDE DEF t, C
<1>6. Typed(h, t, links, first, fpos, last, lpos + 1, spare)
  BY <1>1, <1>4, <1>5, Zenon DEF Typed
<1>7. Filled(h, t, links, first, fpos, last, lpos + 1)
  <2>0. C \subseteq Chunks
    BY <1>1, ChainLeast, Zenon DEF C
  <2>1. ASSUME NEW d \in C, NEW i \in Slots
        PROVE  t[d][i] # FREE <=> (d = first => i >= fpos) /\ (d = last => i < lpos + 1)
    <3>1. CASE d = last /\ i = lpos
      BY <1>1, <1>2, <1>4, <1>5, <3>1
    <3>2. CASE ~ (d = last /\ i = lpos)
      <4>1. <<d, i>> # cell /\ d \in Chunks /\ i \in Nat
        BY <1>4, <2>0, <3>2, Zenon
      <4>2. t[d][i] = s[d][i]
        BY <1>5, <4>1, Zenon
      <4>3. d = last => (i < lpos <=> i < lpos + 1)
        BY <1>4, <3>2, <4>1
      <4> QED
        BY <1>2, <4>2, <4>3, Zenon
    <3> QED
      BY <3>1, <3>2, Zenon
  <2>2. ASSUME NEW d \in h \ C, NEW i \in Slots PROVE t[d][i] = FREE
    BY <1>1, <1>2, <1>5
  <2>3. first = last => fpos <= lpos + 1 \/ first = NULL
    BY <1>2, <1>4
  <2> QED
    BY <2>1, <2>2, <2>3, Zenon DEF Filled, C
<1>8. cell \notin CellsOf(h, s)
  BY <1>1, <1>2, <1>4 DEF CellsOf
<1>9. CellsOf(h, t) = CellsOf(h, s) \cup {cell}
  <2>1. ASSUME NEW x \in h \X Slots
        PROVE  t[x[1]][x[2]] # FREE <=> s[x[1]][x[2]] # FREE \/ x = cell
    <3>1. x[1] \in Chunks /\ x[2] \in Slots /\ x = <<x[1], x[2]>>
      BY <1>1
    <3>2. CASE x = cell
      BY <1>4, <1>5, <3>2, Zenon
    <3>3. CASE x # cell
      BY <1>5, <3>1, <3>3, Zenon
    <3> QED
      BY <3>2, <3>3, Zenon
  <2>2. cell \in h \X Slots
    BY <1>1, <1>4, Zenon
  <2> QED
    BY <2>1, <2>2, Zenon DEF CellsOf
<1>10. IsFiniteSet(CellsOf(h, t)) /\ Cardinality(CellsOf(h, t)) = n + 1
  <2> DEFINE A == CellsOf(h, s)
  <2> HIDE DEF cell, A
  <2>1. IsFiniteSet(A) /\ cell \notin A /\ Cardinality(A) = n
    BY <1>3, <1>8, Zenon DEF A
  <2>2. IsFiniteSet(A \cup {cell}) /\ Cardinality(A \cup {cell}) = n + 1
    BY <2>1, FS_AddElement, Zenon
  <2> QED
    BY <1>9, <2>2, Zenon DEF A
<1>11. \A k \in 0 .. n : now[k] = at[k]
  <2>0. n \in Nat /\ n + 1 \in Nat /\ n <= n /\ n + 0 <= n + 1 /\ 0 \in Nat
    BY <1>3
  <2>1. now[0] = <<first, fpos>> /\ n + 1 \in Nat /\ n <= n /\ n + 0 <= n + 1 /\ 0 \in Nat
    BY <2>0, PlacesDef, Zenon
  <2>2. \A k \in 0 .. n - 1 : Onward(at[k], links) = Onward(at[k], links)
    BY Zenon
  <2> HIDE DEF n
  <2>3. \A k \in 0 .. n : now[k + 0] = at[k]
    <3>1. Along(at, now, 0, n)
      BY <1>3, <2>1, <2>2, PlacesAgree
    <3> QED
      BY <3>1, Zenon DEF Along
  <2> HIDE DEF at, now
  <2>4. \A k \in 0 .. n : k + 0 = k
    BY <1>3
  <2> QED
    BY <2>3, <2>4, Zenon
<1>12. now[n + 1] = Onward(now[n], links)
  <2>1. n \in 0 .. (n + 1) - 1 /\ n + 1 \in Nat
    BY <1>3
  <2> QED
    BY <2>1, PlacesDef
<1>13. /\ all \in Seq(Sizes) /\ Len(all) = n + 1 /\ all[n + 1] = sz
       /\ \A k \in 1 .. n : all[k] = msgs[k]
  BY <1>3
<1> HIDE DEF n, at, now, all
<1>14. ASSUME NEW k \in 0 .. n
       PROVE  now[k] \in CellsOf(h, t) /\ all[k + 1] = t[now[k][1]][now[k][2]]
  <2>1. CASE k = n
    <3>1. now[k] = cell
      BY <1>3, <1>11, <2>1, Zenon
    <3> QED
      BY <1>5, <1>9, <1>13, <2>1, <3>1
  <2>2. CASE k # n
    <3>1. k \in 0 .. n - 1 /\ k + 1 \in 1 .. n
      BY <1>3, <2>2
    <3>2. now[k] \in CellsOf(h, s) /\ msgs[k + 1] = s[now[k][1]][now[k][2]]
      BY <1>3, <1>11, <3>1, Zenon
    <3>3. now[k] # cell
      BY <1>8, <3>2, Zenon
    <3>4. now[k][1] \in Chunks /\ now[k][2] \in Slots /\ now[k] = <<now[k][1], now[k][2]>>
      BY <1>1, <3>2 DEF CellsOf
    <3>5. t[now[k][1]][now[k][2]] = s[now[k][1]][now[k][2]]
      BY <1>5, <3>3, <3>4, Zenon
    <3> QED
      BY <1>9, <1>13, <3>1, <3>2, <3>5, Zenon
  <2> QED
    BY <2>1, <2>2, Zenon
<1>15. ASSUME NEW j \in 0 .. n, NEW k \in 0 .. n, now[j] = now[k] PROVE j = k
  <2>1. now[j] = at[j] /\ now[k] = at[k] /\ at[n] = cell
    BY <1>3, <1>11, Zenon
  <2>2. (j # n => j \in 0 .. n - 1) /\ (k # n => k \in 0 .. n - 1)
    BY <1>3
  <2>3. (j # n => at[j] # cell) /\ (k # n => at[k] # cell)
    BY <1>3, <1>8, <2>2, Zenon
  <2> QED
    BY <1>3, <1>15, <2>1, <2>2, <2>3, Zenon
<1>16. IF lpos + 1 < GRANULARITY THEN now[n + 1] = <<last, lpos + 1>>
       ELSE n + 1 > 0 /\ now[(n + 1) - 1] = <<last, GRANULARITY - 1>>
  <2>0. n \in 0 .. n /\ n \in Nat /\ (n + 1) - 1 = n
    BY <1>3
  <2>1. now[n] = cell /\ n \in Nat /\ (n + 1) - 1 = n
    BY <1>3, <1>11, <2>0, Zenon
  <2> QED
    BY <1>4, <1>12, <2>1, MsgQueueAssumption DEF Onward
<1>17. Listed(h, t, links, first, fpos, last, lpos + 1, all)
  <2> DEFINE m == Len(all)
  <2>1. m = n + 1 /\ m - 1 = n /\ all \in Seq(Sizes)
    BY <1>3, <1>13
  <2> HIDE DEF m
  <2>2. now = Places(first, fpos, links, m)
    BY <2>1, Zenon DEF now
  <2>3. \A k \in 0 .. m - 1 : now[k] \in CellsOf(h, t) /\ all[k + 1] = t[now[k][1]][now[k][2]]
    BY <1>14, <2>1, Zenon
  <2>4. \A j, k \in 0 .. m - 1 : now[j] = now[k] => j = k
    BY <1>15, <2>1, Zenon
  <2>5. last # NULL => IF lpos + 1 < GRANULARITY THEN now[m] = <<last, lpos + 1>>
                       ELSE m > 0 /\ now[m - 1] = <<last, GRANULARITY - 1>>
    BY <1>16, <2>1, Zenon
  <2>6. IsFiniteSet(CellsOf(h, t)) /\ Cardinality(CellsOf(h, t)) = m
    BY <1>10, <2>1, Zenon
  <2> QED
    BY <2>1, <2>2, <2>3, <2>4, <2>5, <2>6, Zenon DEF Listed, m
<1> QED
  BY <1>6, <1>7, <1>17, Zenon DEF Good, t, all

(* The slot at the read cursor holds the first message. *)
LEMMA FirstCell ==
  ASSUME NEW h, NEW s, NEW links, NEW first, NEW fpos, NEW last, NEW lpos, NEW spare, NEW msgs,
         Good(h, s, links, first, fpos, last, lpos, spare, msgs), Len(msgs) > 0
  PROVE  <<first, fpos>> \in CellsOf(h, s) /\ msgs[1] = s[first][fpos] /\ first \in Chunks
<1> DEFINE n == Len(msgs)
           at == Places(first, fpos, links, n)
<1>1. /\ n \in Nat /\ n > 0
      /\ \A k \in 0 .. n - 1 : at[k] \in CellsOf(h, s) /\ msgs[k + 1] = s[at[k][1]][at[k][2]]
      /\ h \in SUBSET Chunks
  <2>1. msgs \in Seq(Sizes)
    BY Zenon DEF Good, Listed
  <2>2. n \in Nat /\ n > 0
    BY <2>1
  <2> QED
    BY <2>2, Zenon DEF Good, Listed, Typed
<1>2. at[0] = <<first, fpos>>
  BY <1>1, PlacesDef, Zenon
<1> HIDE DEF n, at
<1>3. 0 \in 0 .. n - 1 /\ 0 + 1 = 1
  BY <1>1
<1>4. <<first, fpos>> \in CellsOf(h, s) /\ msgs[1] = s[first][fpos]
  BY <1>1, <1>2, <1>3
<1> QED
  BY <1>1, <1>4, Zenon DEF CellsOf

(* Once its slot is free, the messages that follow it are listed from the   *)
(* next place on.                                                           *)
LEMMA PopListed ==
  ASSUME NEW h, NEW s, NEW links, NEW first, NEW fpos, NEW last, NEW lpos, NEW spare, NEW msgs,
         Good(h, s, links, first, fpos, last, lpos, spare, msgs), Len(msgs) > 0,
         NEW t, t = [s EXCEPT ![first][fpos] = FREE],
         NEW h2, CellsOf(h2, t) = CellsOf(h, s) \ {<<first, fpos>>},
         NEW first2, NEW fpos2, NEW last2, NEW lpos2,
         Len(msgs) > 1 \/ last2 # NULL => <<first2, fpos2>> = Onward(<<first, fpos>>, links),
         last2 # NULL => /\ last2 = last /\ lpos2 = lpos
                         /\ lpos = GRANULARITY => <<first, fpos>> # <<last, GRANULARITY - 1>>
  PROVE  Listed(h2, t, links, first2, fpos2, last2, lpos2, Tail(msgs))
<1> DEFINE n == Len(msgs)
           at == Places(first, fpos, links, n)
           rest == Tail(msgs)
           m == Len(rest)
           now == Places(first2, fpos2, links, m)
           cell == <<first, fpos>>
<1>1. /\ msgs \in Seq(Sizes) /\ n \in Nat /\ n > 0
      /\ \A k \in 0 .. n - 1 : at[k] \in CellsOf(h, s) /\ msgs[k + 1] = s[at[k][1]][at[k][2]]
      /\ \A j, k \in 0 .. n - 1 : at[j] = at[k] => j = k
      /\ last # NULL => IF lpos < GRANULARITY THEN at[n] = <<last, lpos>>
                        ELSE n > 0 /\ at[n - 1] = <<last, GRANULARITY - 1>>
      /\ IsFiniteSet(CellsOf(h, s)) /\ Cardinality(CellsOf(h, s)) = n
      /\ h \in SUBSET Chunks /\ s \in SlotsOf /\ lpos \in 0 .. GRANULARITY
  <2>1. msgs \in Seq(Sizes)
    BY Zenon DEF Good, Listed
  <2>2. n \in Nat /\ n > 0
    BY <2>1
  <2> QED
    BY <2>1, <2>2, Zenon DEF Good, Listed, Typed
<1>2. at[0] = cell /\ \A k \in 0 .. n - 1 : at[k + 1] = Onward(at[k], links)
  <2>1. n \in Nat
    BY <1>1, Zenon
  <2> HIDE DEF n
  <2> QED
    BY ONLY <2>1, PlacesDef DEF at, cell
<1>3. /\ rest \in Seq(Sizes) /\ m \in Nat /\ m = n - 1
      /\ \A k \in 1 .. m : rest[k] = msgs[k + 1]
  BY <1>1
<1> HIDE DEF n, at, rest, m, now
<1>4. 0 \in 0 .. n - 1 /\ cell \in CellsOf(h, s)
  BY <1>1, <1>2
<1>5. ASSUME n > 1 \/ last2 # NULL PROVE \A k \in 0 .. m : at[k + 1] = now[k]
  <2>1. at[1] = <<first2, fpos2>>
    <3>1. at[0 + 1] = Onward(cell, links)
      BY <1>2, <1>4, Zenon
    <3>2. at[1] = Onward(cell, links)
      BY <3>1
    <3> QED
      BY <1>5, <3>2, Zenon DEF n
  <2>2. \A k \in 0 .. m - 1 : Onward(now[k], links) = Onward(now[k], links)
    BY Zenon
  <2>3. 1 \in Nat /\ m <= m /\ m + 1 <= n
    BY <1>1, <1>3
  <2> DEFINE d == 1
  <2>4. d \in Nat /\ m + d <= n /\ at[d] = <<first2, fpos2>> /\ m <= m /\ n \in Nat /\ m \in Nat
    BY <1>1, <1>3, <2>1, <2>3, Zenon
  <2> HIDE DEF d
  <2>5. \A k \in 0 .. m : at[k + d] = now[k]
    <3>1. Along(now, at, d, m)
      BY <2>2, <2>4, PlacesAgree DEF at, now
    <3> QED
      BY <3>1, Zenon DEF Along
  <2> QED
    BY <2>5, Zenon DEF d
<1> HIDE DEF cell
<1>6. \A x \in CellsOf(h, s) : x # cell => t[x[1]][x[2]] = s[x[1]][x[2]]
  <2> SUFFICES ASSUME NEW x \in CellsOf(h, s), x # cell PROVE t[x[1]][x[2]] = s[x[1]][x[2]]
    BY Zenon
  <2>1. x[1] \in Chunks /\ x[2] \in Slots /\ x = <<x[1], x[2]>>
    BY <1>1 DEF CellsOf
  <2>2. x[1] # first \/ x[2] # fpos
    BY <2>1, Zenon DEF cell
  <2> QED
    BY <1>1, <2>1, <2>2 DEF SlotsOf
<1>7. ASSUME NEW k \in 0 .. m - 1
      PROVE  now[k] \in CellsOf(h2, t) /\ rest[k + 1] = t[now[k][1]][now[k][2]] /\ now[k] = at[k + 1]
  <2>0. n \in Nat /\ m \in Nat /\ m = n - 1
    BY <1>1, <1>3, Zenon
  <2>1. k \in 0 .. m /\ k + 1 \in 0 .. n - 1 /\ k + 1 \in 1 .. m /\ n > 1 /\ k + 1 # 0
    BY ONLY <2>0, k \in 0 .. m - 1
  <2>2. now[k] = at[k + 1]
    BY <1>5, <2>1, Zenon
  <2>3. now[k] \in CellsOf(h, s) /\ msgs[(k + 1) + 1] = s[now[k][1]][now[k][2]]
    BY <1>1, <2>1, <2>2, Zenon
  <2>4. now[k] # cell
    BY <1>1, <1>2, <1>4, <2>1, <2>2, Zenon
  <2>5. rest[k + 1] = msgs[(k + 1) + 1]
    BY <1>3, <2>1, Zenon
  <2> QED
    BY <1>6, <2>2, <2>3, <2>4, <2>5, Zenon DEF cell
<1>8. ASSUME NEW j \in 0 .. m - 1, NEW k \in 0 .. m - 1, now[j] = now[k] PROVE j = k
  <2>0. n \in Nat /\ m = n - 1
    BY <1>1, <1>3, Zenon
  <2>1. j + 1 \in 0 .. n - 1 /\ k + 1 \in 0 .. n - 1
    BY ONLY <2>0, j \in 0 .. m - 1, k \in 0 .. m - 1
  <2>2. at[j + 1] = at[k + 1]
    BY <1>7, <1>8, Zenon
  <2>3. j + 1 = k + 1
    BY <1>1, <2>1, <2>2, Zenon
  <2> QED
    BY <1>3, <2>3
<1>9. ASSUME last2 # NULL
      PROVE  IF lpos2 < GRANULARITY THEN now[m] = <<last2, lpos2>>
             ELSE m > 0 /\ now[m - 1] = <<last2, GRANULARITY - 1>>
  <2>1. last2 = last /\ lpos2 = lpos /\ (lpos = GRANULARITY => cell # <<last, GRANULARITY - 1>>)
    BY <1>9, Zenon DEF cell
  <2>2. CASE lpos < GRANULARITY
    <3>1. m \in 0 .. m /\ m + 1 = n /\ at[n] = <<last, lpos>>
      BY <1>1, <1>3, <1>9, <2>1, <2>2
    <3>2. now[m] = at[n]
      BY <1>5, <1>9, <3>1, Zenon
    <3> QED
      BY <2>1, <2>2, <3>1, <3>2, Zenon
  <2>3. CASE ~ (lpos < GRANULARITY)
    <3>1. lpos = GRANULARITY /\ at[n - 1] = <<last, GRANULARITY - 1>>
      BY <1>1, <1>9, <2>1, <2>3, MsgQueueAssumption
    <3>2. n - 1 # 0
      BY <1>2, <2>1, <3>1, Zenon
    <3>3. m - 1 \in 0 .. m - 1 /\ m > 0 /\ (m - 1) + 1 = n - 1
      BY <1>1, <1>3, <3>2
    <3>4. now[m - 1] = at[n - 1]
      BY <1>7, <3>3, Zenon
    <3> QED
      BY <2>1, <2>3, <3>1, <3>3, <3>4, Zenon
  <2> QED
    BY <2>2, <2>3, Zenon
<1>10. IsFiniteSet(CellsOf(h2, t)) /\ Cardinality(CellsOf(h2, t)) = m
  <2> DEFINE A == CellsOf(h, s)
  <2> HIDE DEF A
  <2>1. IsFiniteSet(A) /\ cell \in A /\ Cardinality(A) = n
    BY <1>1, <1>4, Zenon DEF A
  <2>2. IsFiniteSet(A \ {cell}) /\ Cardinality(A \ {cell}) = n - 1
    BY <2>1, FS_RemoveElement, Zenon
  <2> QED
    BY <1>3, <2>2, Zenon DEF A, cell
<1> QED
  BY <1>3, <1>7, <1>8, <1>9, <1>10, Zenon DEF Listed, m, now, rest

(* A pop that leaves a message in the first chunk moves the read cursor on. *)
LEMMA PopSlotGood ==
  ASSUME NEW h, NEW s, NEW links, NEW first, NEW fpos, NEW last, NEW lpos, NEW spare, NEW msgs,
         Good(h, s, links, first, fpos, last, lpos, spare, msgs), Len(msgs) > 0,
         fpos + 1 # GRANULARITY, ~ (first = last /\ fpos + 1 = lpos)
  PROVE  Good(h, [s EXCEPT ![first][fpos] = FREE], links, first, fpos + 1, last, lpos, spare,
              Tail(msgs))
<1> DEFINE C == ChainOf(first, links)
           t == [s EXCEPT ![first][fpos] = FREE]
           cell == <<first, fpos>>
<1>1. /\ h \in SUBSET Chunks /\ s \in SlotsOf /\ links \in Links
      /\ first \in Chunks \cup {NULL} /\ fpos \in Slots
      /\ last \in Chunks \cup {NULL} /\ lpos \in 0 .. GRANULARITY
      /\ spare \in Chunks \cup {NULL}
      /\ h = C \cup ({spare} \ {NULL}) /\ spare \notin C
      /\ Shape(first, links, last) /\ Owned(h, links, first, spare)
  BY Zenon DEF Good, Typed, Owned
<1>2. /\ \A d \in C, i \in Slots :
           s[d][i] # FREE <=> (d = first => i >= fpos) /\ (d = last => i < lpos)
      /\ \A d \in h \ C, i \in Slots : s[d][i] = FREE
      /\ first = last => fpos <= lpos \/ first = NULL
  BY Zenon DEF Good, Filled
<1>3. cell \in CellsOf(h, s) /\ first \in Chunks /\ first # NULL
  BY FirstCell, MsgQueueAssumption, Zenon
<1>4. first \in C /\ C \subseteq Chunks
  BY <1>1, <1>3, ChainLeast, Zenon DEF Follows
<1>5. fpos \in Nat /\ fpos + 1 \in Slots /\ \A i \in Slots : i \in Nat /\ i < GRANULARITY
  BY <1>1, MsgQueueAssumption DEF Slots
<1>6. /\ t \in SlotsOf /\ t[first][fpos] = FREE
      /\ \A d \in Chunks, i \in Slots : <<d, i>> # cell => t[d][i] = s[d][i]
  BY <1>1, <1>3, Zenon DEF SlotsOf
<1>7. first = last => fpos < lpos
  <2>1. s[first][fpos] # FREE
    BY <1>3, Zenon DEF CellsOf
  <2> QED
    BY <1>1, <1>2, <1>4, <2>1, Zenon
<1> HIDE DEF t, C, cell
<1>8. Typed(h, t, links, first, fpos + 1, last, lpos, spare)
  BY <1>1, <1>5, <1>6, Zenon DEF Typed
<1>9. ASSUME NEW d \in C, NEW i \in Slots
      PROVE  t[d][i] # FREE <=> (d = first => i >= fpos + 1) /\ (d = last => i < lpos)
  <2>1. CASE d = first /\ i = fpos
    <3>1. ~ (i >= fpos + 1)
      BY <1>5, <2>1
    <3> QED
      BY <1>6, <2>1, <3>1, Zenon
  <2>2. CASE ~ (d = first /\ i = fpos)
    <3>1. <<d, i>> # cell /\ d \in Chunks /\ i \in Nat
      BY <1>4, <1>5, <2>2, Zenon DEF cell
    <3>2. t[d][i] = s[d][i]
      BY <1>6, <3>1, Zenon
    <3>3. d = first => (i >= fpos <=> i >= fpos + 1)
      BY <1>5, <2>2, <3>1
    <3> QED
      BY <1>2, <3>2, <3>3, Zenon
  <2> QED
    BY <2>1, <2>2, Zenon
<1>10. ASSUME NEW d \in h \ C, NEW i \in Slots PROVE t[d][i] = FREE
  <2>1. <<d, i>> # cell /\ d \in Chunks
    BY <1>1, <1>4, Zenon DEF cell
  <2> QED
    BY <1>2, <1>6, <2>1
<1>11. first = last => fpos + 1 <= lpos \/ first = NULL
  BY <1>1, <1>5, <1>7
<1>12. Filled(h, t, links, first, fpos + 1, last, lpos)
  BY <1>9, <1>10, <1>11, Zenon DEF Filled, C
<1>13. CellsOf(h, t) = CellsOf(h, s) \ {cell}
  <2>1. ASSUME NEW x \in h \X Slots
        PROVE  t[x[1]][x[2]] # FREE <=> s[x[1]][x[2]] # FREE /\ x # cell
    <3>1. x[1] \in Chunks /\ x[2] \in Slots /\ x = <<x[1], x[2]>>
      BY <1>1
    <3>2. CASE x = cell
      BY <1>6, <3>2, Zenon DEF cell
    <3>3. CASE x # cell
      BY <1>6, <3>1, <3>3, Zenon
    <3> QED
      BY <3>2, <3>3, Zenon
  <2> QED
    BY <2>1, Zenon DEF CellsOf
<1>14. <<first, fpos + 1>> = Onward(cell, links)
  BY Zenon DEF Onward, cell
<1>15. lpos = GRANULARITY => cell # <<last, GRANULARITY - 1>>
  BY <1>5, MsgQueueAssumption DEF cell
<1>16. Listed(h, t, links, first, fpos + 1, last, lpos, Tail(msgs))
  BY <1>13, <1>14, <1>15, PopListed, Zenon DEF t, cell
<1> QED
  BY <1>1, <1>8, <1>12, <1>16, Zenon DEF Good, t

(* How mb_msgqueue_pop changes the store when it consumes the first chunk. *)
ChunkLeaves(h, s, links, first, fpos, last, lpos, spare,
            h2, s2, first2, fpos2, last2, lpos2, spare2) ==
  /\ fpos + 1 = GRANULARITY \/ (first = last /\ fpos + 1 = lpos)
  /\ last2 = IF first = last THEN NULL ELSE last
  /\ lpos2 = IF first = last THEN 0 ELSE lpos
  /\ h2 = IF spare # NULL THEN h \ {first} ELSE h
  /\ spare2 = IF spare # NULL THEN spare ELSE first
  /\ s2 = [s EXCEPT ![first][fpos] = FREE] /\ first2 = links[first] /\ fpos2 = 0

(* A pop that takes the last message of the first chunk drops the chunk,     *)
(* which becomes the spare one if there is none.                             *)
LEMMA PopChunkGood ==
  ASSUME NEW h, NEW s, NEW links, NEW first, NEW fpos, NEW last, NEW lpos, NEW spare, NEW msgs,
         NEW h2, NEW s2, NEW first2, NEW fpos2, NEW last2, NEW lpos2, NEW spare2,
         Good(h, s, links, first, fpos, last, lpos, spare, msgs), Len(msgs) > 0,
         ChunkLeaves(h, s, links, first, fpos, last, lpos, spare,
                     h2, s2, first2, fpos2, last2, lpos2, spare2)
  PROVE  Good(h2, s2, links, first2, fpos2, last2, lpos2, spare2, Tail(msgs))
<1>0. /\ fpos + 1 = GRANULARITY \/ (first = last /\ fpos + 1 = lpos)
      /\ last2 = IF first = last THEN NULL ELSE last
      /\ lpos2 = IF first = last THEN 0 ELSE lpos
      /\ h2 = IF spare # NULL THEN h \ {first} ELSE h
      /\ spare2 = IF spare # NULL THEN spare ELSE first
      /\ s2 = [s EXCEPT ![first][fpos] = FREE] /\ first2 = links[first] /\ fpos2 = 0
  BY Zenon DEF ChunkLeaves
<1> USE <1>0
<1> DEFINE C == ChainOf(first, links)
           D == ChainOf(links[first], links)
           t == [s EXCEPT ![first][fpos] = FREE]
           cell == <<first, fpos>>
<1>1. /\ h \in SUBSET Chunks /\ s \in SlotsOf /\ links \in Links
      /\ first \in Chunks \cup {NULL} /\ fpos \in Slots
      /\ last \in Chunks \cup {NULL} /\ lpos \in 0 .. GRANULARITY
      /\ spare \in Chunks \cup {NULL}
      /\ h = C \cup ({spare} \ {NULL}) /\ spare \notin C
      /\ Shape(first, links, last)
  BY Zenon DEF Good, Typed, Owned
<1>2. /\ \A d \in C, i \in Slots :
           s[d][i] # FREE <=> (d = first => i >= fpos) /\ (d = last => i < lpos)
      /\ \A d \in h \ C, i \in Slots : s[d][i] = FREE
  BY Zenon DEF Good, Filled
<1>3. cell \in CellsOf(h, s) /\ first \in Chunks /\ first # NULL
  BY FirstCell, MsgQueueAssumption, Zenon
<1>4. first \in C /\ C \subseteq Chunks /\ D = C \ {first} /\ Shape(links[first], links, last2)
  BY <1>1, <1>3, ChainLeast, ChainShrinks, Zenon
<1>5. fpos \in Nat /\ 0 \in Slots /\ \A i \in Slots : i \in Nat /\ i < GRANULARITY
  BY <1>1, MsgQueueAssumption DEF Slots
<1>6. /\ t \in SlotsOf /\ t[first][fpos] = FREE
      /\ \A d \in Chunks, i \in Slots : <<d, i>> # cell => t[d][i] = s[d][i]
  BY <1>1, <1>3, Zenon DEF SlotsOf
<1>7. links[first] \in Chunks \cup {NULL}
  BY <1>1, <1>3, Zenon DEF Links
<1> HIDE DEF t, C, D, cell
<1>8. ASSUME NEW i \in Slots PROVE t[first][i] = FREE
  <2>1. CASE i = fpos
    BY <1>6, <2>1, Zenon
  <2>2. CASE i # fpos
    <3>1. t[first][i] = s[first][i]
      BY <1>3, <1>6, <2>2, Zenon DEF cell
    <3>2. ~ ((first = first => i >= fpos) /\ (first = last => i < lpos))
      BY <1>1, <1>5, <2>2, MsgQueueAssumption
    <3> QED
      BY <1>2, <1>4, <3>1, <3>2, Zenon
  <2> QED
    BY <2>1, <2>2, Zenon
<1>9. ASSUME NEW d \in Chunks, d # first, NEW i \in Slots PROVE t[d][i] = s[d][i]
  <2>1. <<d, i>> # cell
    BY <1>9, Zenon DEF cell
  <2> QED
    BY <1>6, <2>1, Zenon
<1>10. /\ h2 = D \cup ({spare2} \ {NULL}) /\ spare2 \notin D /\ h2 \in SUBSET Chunks
       /\ spare2 \in Chunks \cup {NULL} /\ h2 \subseteq h
  BY <1>1, <1>3, <1>4, Zenon
<1>11. Typed(h2, t, links, links[first], 0, last2, lpos2, spare2)
  BY <1>1, <1>5, <1>6, <1>7, <1>10, MsgQueueAssumption DEF Typed
<1>12. Owned(h2, links, links[first], spare2)
  BY <1>10, Zenon DEF Owned, D
<1>13. ASSUME NEW d \in D, NEW i \in Slots
       PROVE  t[d][i] # FREE <=> (d = links[first] => i >= 0) /\ (d = last2 => i < lpos2)
  <2>1. d \in C /\ d # first /\ d \in Chunks /\ i \in Nat
    BY <1>4, <1>5, Zenon
  <2>2. t[d][i] = s[d][i]
    BY <1>9, <2>1, Zenon
  <2>3. (d = last2 => i < lpos2) <=> (d = last => i < lpos)
    BY <2>1, MsgQueueAssumption, Zenon
  <2> QED
    BY <1>2, <2>1, <2>2, <2>3
<1>14. ASSUME NEW d \in h2 \ D, NEW i \in Slots PROVE t[d][i] = FREE
  <2>1. CASE d = first
    BY <1>8, <2>1, Zenon
  <2>2. CASE d # first
    <3>1. d \in h \ C /\ d \in Chunks
      BY <1>1, <1>4, <1>10, <2>2, Zenon
    <3> QED
      BY <1>2, <1>9, <2>2, <3>1, Zenon
  <2> QED
    BY <2>1, <2>2
<1>15. 0 <= lpos2
  BY <1>1
<1>16. Filled(h2, t, links, links[first], 0, last2, lpos2)
  BY <1>13, <1>14, <1>15, Zenon DEF Filled, D
<1>17. CellsOf(h2, t) = CellsOf(h, s) \ {cell}
  <2>1. ASSUME NEW x \in CellsOf(h2, t) PROVE x \in CellsOf(h, s) \ {cell}
    <3>1. x \in h2 \X Slots /\ x[1] \in h2 /\ x[2] \in Slots /\ t[x[1]][x[2]] # FREE
      BY Zenon DEF CellsOf
    <3>2. x[1] # first
      BY <1>8, <3>1, Zenon
    <3>3. x \in h \X Slots /\ x[1] \in Chunks /\ x # cell
      BY <1>1, <1>10, <3>1, <3>2 DEF cell
    <3> QED
      BY <1>9, <3>1, <3>2, <3>3, Zenon DEF CellsOf
  <2>2. ASSUME NEW x \in CellsOf(h, s), x # cell PROVE x \in CellsOf(h2, t)
    <3>1. x \in h \X Slots /\ x[1] \in h /\ x[2] \in Slots /\ s[x[1]][x[2]] # FREE
          /\ x = <<x[1], x[2]>> /\ x[1] \in Chunks
      BY <1>1 DEF CellsOf
    <3>2. t[x[1]][x[2]] # FREE
      BY <1>6, <2>2, <3>1, Zenon
    <3>3. x[1] # first
      BY <1>8, <3>1, <3>2, Zenon
    <3>4. x \in h2 \X Slots
      BY <3>1, <3>3, Zenon
    <3> QED
      BY <3>2, <3>4, Zenon DEF CellsOf
  <2> QED
    BY <2>1, <2>2, Zenon
<1>18. fpos + 1 = GRANULARITY => <<links[first], 0>> = Onward(cell, links)
  BY Zenon DEF Onward, cell
<1>19. Listed(h2, t, links, links[first], 0, last2, lpos2, Tail(msgs))
  <2>1. last2 # NULL => /\ last2 = last /\ lpos2 = lpos
                        /\ lpos = GRANULARITY => cell # <<last, GRANULARITY - 1>>
    BY Zenon DEF cell
  <2>2. ASSUME Len(msgs) > 1 \/ last2 # NULL PROVE <<links[first], 0>> = Onward(cell, links)
    <3> SUFFICES ASSUME fpos + 1 # GRANULARITY PROVE FALSE
      BY <1>18, Zenon
    <3>1. first = last /\ last2 = NULL
      BY Zenon
    <3>2. links[first] = NULL
      BY <1>4, <3>1, Zenon DEF Shape
    <3>3. D = {}
      BY <1>1, <3>2, ChainEmpty, Zenon DEF D
    <3>4. CellsOf(h2, t) = {}
      BY <1>14, <3>3, Zenon DEF CellsOf
    <3>5. CellsOf(h, s) = {cell}
      BY <1>3, <1>17, <3>4, Zenon
    <3>6. Len(msgs) = 1
      <4>1. Cardinality(CellsOf(h, s)) = Len(msgs)
        BY Zenon DEF Good, Listed
      <4>2. Cardinality({cell}) = 1
        BY FS_Singleton, Zenon
      <4> QED
        BY <3>5, <4>1, <4>2, Zenon
    <3> QED
      BY <2>2, <3>1, <3>6
  <2>3. Len(msgs) > 1 \/ last2 # NULL => <<first2, fpos2>> = Onward(cell, links)
    BY <2>2, Zenon
  <2>4. t = [s EXCEPT ![first][fpos] = FREE]
    BY Zenon DEF t
  <2>5. Listed(h2, t, links, first2, fpos2, last2, lpos2, Tail(msgs))
    <3> DEFINE b == Len(msgs) > 1
    <3>1. Good(h, s, links, first, fpos, last, lpos, spare, msgs) /\ Len(msgs) > 0
      BY Zenon
    <3>2. b \/ last2 # NULL => <<first2, fpos2>> = Onward(<<first, fpos>>, links)
      BY <2>3, Zenon DEF cell
    <3>3. CellsOf(h2, t) = CellsOf(h, s) \ {<<first, fpos>>}
      BY <1>17, Zenon DEF cell
    <3>4. last2 # NULL => /\ last2 = last /\ lpos2 = lpos
                          /\ lpos = GRANULARITY => <<first, fpos>> # <<last, GRANULARITY - 1>>
      BY <2>1, Zenon DEF cell
    <3> QED
      BY ONLY <3>1, <3>2, <3>3, <3>4, <2>4, PopListed, Zenon
  <2> QED
    BY <2>5, <1>0, Zenon
<1>20. Good(h2, t, links, links[first], 0, last2, lpos2, spare2, Tail(msgs))
  BY <1>4, <1>11, <1>12, <1>16, <1>19, Zenon DEF Good
<1> QED
  BY <1>20, Zenon DEF t

-----------------------------------------------------------------------------
(* The steps *)

(* The inductive invariant. *)
QInv ==
  /\ Good(heap, slot, next, inChunk, inPos, outChunk, outPos, cache, Contents)
  /\ count = Len(Contents)
  /\ maxmem \in Limits
  /\ dead \/ mem = Fifo!Mem(Contents)

(* The contents are the messages that are listed. *)
LEMMA ContentsListed ==
  ASSUME NEW h, NEW s, NEW links, NEW first, NEW fpos, NEW last, NEW lpos, NEW msgs,
         Listed(h, s, links, first, fpos, last, lpos, msgs)
  PROVE  Read(s, Places(first, fpos, links, Len(msgs)), Len(msgs)) = msgs
<1> DEFINE n == Len(msgs)
           at == Places(first, fpos, links, n)
<1>1. /\ n \in Nat /\ msgs = [k \in 1 .. n |-> msgs[k]]
      /\ \A k \in 0 .. n - 1 : msgs[k + 1] = s[at[k][1]][at[k][2]]
  BY DEF Listed
<1> HIDE DEF n, at
<1>2. ASSUME NEW k \in 1 .. n PROVE msgs[k] = s[at[k - 1][1]][at[k - 1][2]]
  <2>1. k - 1 \in 0 .. n - 1 /\ (k - 1) + 1 = k
    BY <1>1
  <2> QED
    BY <1>1, <2>1, Zenon
<1>3. Read(s, at, n) = msgs
  BY <1>1, <1>2, Zenon DEF Read
<1> QED
  BY <1>3, Zenon DEF at, n

(* What the allocator may answer. *)
LEMMA AllocAnswers ==
  ASSUME NEW h \in SUBSET Chunks, NEW spare \in h \cup {NULL}, NEW r \in AllocChunk(h, spare)
  PROVE  /\ r.cache = NULL
         /\ r.chunk = NULL => r.heap = h /\ spare = NULL
         /\ r.chunk # NULL => /\ r.chunk \in Chunks /\ r.heap = h \cup {r.chunk}
                              /\ IF spare # NULL THEN r.chunk = spare ELSE r.chunk \notin h
<1>1. CASE spare # NULL
  BY <1>1 DEF AllocChunk
<1>2. CASE spare = NULL
  BY <1>2, MsgQueueAssumption DEF AllocChunk
<1> QED
  BY <1>1, <1>2, Zenon

(* The cached chunk is allocated, and both cursors are at a chunk or none is. *)
LEMMA SpareHeld ==
  ASSUME NEW h, NEW s, NEW links, NEW first, NEW fpos, NEW last, NEW lpos, NEW spare, NEW msgs,
         Good(h, s, links, first, fpos, last, lpos, spare, msgs)
  PROVE  h \in SUBSET Chunks /\ spare \in h \cup {NULL} /\ (first = NULL <=> last = NULL)
BY Zenon DEF Good, Typed, Owned, Shape

(* mb_msgqueue_push appends the message. *)
LEMMA PushAppends ==
  ASSUME QInv, NEW sz \in Sizes, Push(sz)
  PROVE  Good(heap', slot', next', inChunk', inPos', outChunk', outPos', cache',
              Append(Contents, sz))
<1> DEFINE grow == outChunk = NULL \/ outPos = GRANULARITY
           pos == IF grow THEN 0 ELSE outPos
<1>0. Good(heap, slot, next, inChunk, inPos, outChunk, outPos, cache, Contents)
  BY Zenon DEF QInv
<1>1. PICK a \in IF grow THEN AllocChunk(heap, cache)
                 ELSE {[chunk |-> outChunk, heap |-> heap, cache |-> cache]} :
        /\ a.chunk # NULL
        /\ \E b \in IF pos + 1 = GRANULARITY THEN AllocChunk(a.heap, a.cache)
                    ELSE {[chunk |-> outChunk, heap |-> a.heap, cache |-> a.cache]} :
             PushInto(sz, grow, a, b)
  BY Zenon DEF Push
<1>2. PICK b \in IF pos + 1 = GRANULARITY THEN AllocChunk(a.heap, a.cache)
                 ELSE {[chunk |-> outChunk, heap |-> a.heap, cache |-> a.cache]} :
        PushInto(sz, grow, a, b)
  BY <1>1, Zenon
<1> DEFINE links == IF grow THEN Linked(next, outChunk, a.chunk) ELSE next
           s == IF grow THEN Zeroed(slot, heap, a.chunk) ELSE slot
           put == [s EXCEPT ![a.chunk][pos] = sz]
           full == pos + 1 = GRANULARITY
           extra == full /\ b.chunk # NULL
<1>3. /\ slot' = IF extra THEN Zeroed(put, a.heap, b.chunk) ELSE put
      /\ next' = IF extra THEN Linked(links, a.chunk, b.chunk) ELSE links
      /\ outChunk' = IF extra THEN b.chunk ELSE a.chunk
      /\ outPos' = IF extra THEN 0 ELSE pos + 1
      /\ inChunk' = IF outChunk = NULL /\ inChunk = NULL THEN a.chunk ELSE inChunk
      /\ inPos' = IF outChunk = NULL /\ inChunk = NULL THEN 0 ELSE inPos
      /\ heap' = b.heap /\ cache' = b.cache
  BY <1>2, Zenon DEF PushInto
<1>4. heap \in SUBSET Chunks /\ cache \in heap \cup {NULL} /\ (inChunk = NULL <=> outChunk = NULL)
  BY <1>0, SpareHeld
<1>5. /\ inChunk' = IF inChunk = NULL THEN a.chunk ELSE inChunk
      /\ inPos' = IF inChunk = NULL THEN 0 ELSE inPos
  BY <1>3, <1>4, Zenon
<1> HIDE DEF links, s, put, full, extra, pos
<1>6. /\ Good(a.heap, s, links, inChunk', inPos', a.chunk, pos, a.cache, Contents)
      /\ pos < GRANULARITY
  <2>1. CASE grow
    <3>1. /\ a.cache = NULL /\ a.chunk \in Chunks /\ a.heap = heap \cup {a.chunk}
          /\ IF cache # NULL THEN a.chunk = cache ELSE a.chunk \notin heap
      BY <1>1, <1>4, <2>1, AllocAnswers
    <3>2. Good(heap \cup {a.chunk}, Zeroed(slot, heap, a.chunk), Linked(next, outChunk, a.chunk),
               inChunk', inPos', a.chunk, 0, NULL, Contents)
      BY <1>0, <1>5, <2>1, <3>1, GrowGood, Zenon
    <3>3. pos = 0 /\ pos < GRANULARITY
      BY <2>1, MsgQueueAssumption DEF pos
    <3> QED
      BY <2>1, <3>1, <3>2, <3>3, Zenon DEF links, s
  <2>2. CASE ~ grow
    <3>1. a.chunk = outChunk /\ a.heap = heap /\ a.cache = cache
      BY <1>1, <2>2
    <3>2. inChunk' = inChunk /\ inPos' = inPos
      BY <1>4, <1>5, <2>2, Zenon
    <3>3. pos = outPos
      BY <2>2, Zenon DEF pos
    <3>4. outPos < GRANULARITY
      BY <1>0, <2>2, MsgQueueAssumption DEF Good, Typed
    <3> QED
      BY <1>0, <2>2, <3>1, <3>2, <3>3, <3>4, Zenon DEF links, s
  <2> QED
    BY <2>1, <2>2, Zenon
<1>7. Good(a.heap, put, links, inChunk', inPos', a.chunk, pos + 1, a.cache, Append(Contents, sz))
  BY <1>1, <1>6, PutGood, Zenon DEF put
<1>8. a.heap \in SUBSET Chunks /\ a.cache \in a.heap \cup {NULL} /\ inChunk' # NULL
  <2>1. inChunk' = NULL <=> a.chunk = NULL
    BY <1>7, SpareHeld, Zenon
  <2> QED
    BY <1>1, <1>7, <2>1, SpareHeld
<1>9. Good(heap', slot', next', inChunk', inPos', outChunk', outPos', cache', Append(Contents, sz))
  <2>1. CASE ~ full
    <3>1. b.heap = a.heap /\ b.cache = a.cache /\ ~ extra
      BY <1>2, <2>1 DEF full, extra
    <3> QED
      BY <1>3, <1>7, <3>1, Zenon
  <2>2. CASE full /\ b.chunk = NULL
    <3>1. b.heap = a.heap /\ b.cache = a.cache /\ ~ extra
      BY <1>2, <1>8, <2>2, AllocAnswers DEF full, extra
    <3> QED
      BY <1>3, <1>7, <3>1, Zenon
  <2>3. CASE full /\ b.chunk # NULL
    <3>1. /\ b.cache = NULL /\ b.chunk \in Chunks /\ b.heap = a.heap \cup {b.chunk}
          /\ IF a.cache # NULL THEN b.chunk = a.cache ELSE b.chunk \notin a.heap
      BY <1>2, <1>8, <2>3, AllocAnswers DEF full
    <3>2. pos + 1 = GRANULARITY
      BY <2>3, Zenon DEF full
    <3>3. /\ inChunk' = IF inChunk' = NULL THEN b.chunk ELSE inChunk'
          /\ inPos' = IF inChunk' = NULL THEN 0 ELSE inPos'
      BY <1>8, Zenon
    <3>4. Good(a.heap \cup {b.chunk}, Zeroed(put, a.heap, b.chunk), Linked(links, a.chunk, b.chunk),
               inChunk', inPos', b.chunk, 0, NULL, Append(Contents, sz))
      BY <1>7, <3>1, <3>2, <3>3, GrowGood, Zenon
    <3>5. extra
      BY <2>3, Zenon DEF extra
    <3> QED
      BY <1>3, <3>1, <3>4, <3>5, Zenon
  <2> QED
    BY <2>1, <2>2, <2>3, Zenon
<1> QED
  BY <1>9, Zenon

(* mb_msgqueue_pop takes the first message. *)
LEMMA PopTakesFirst ==
  ASSUME QInv, Pop
  PROVE  /\ Good(heap', slot', next', inChunk', inPos', outChunk', outPos', cache', Tail(Contents))
         /\ Contents # <<>> /\ slot[inChunk][inPos] = Contents[1]
<1> DEFINE t == [slot EXCEPT ![inChunk][inPos] = FREE]
<1>1. /\ Good(heap, slot, next, inChunk, inPos, outChunk, outPos, cache, Contents)
      /\ Len(Contents) > 0 /\ Contents \in Seq(Sizes)
  BY Zenon DEF QInv, Pop, Good, Listed
<1>2. Contents # <<>> /\ slot[inChunk][inPos] = Contents[1]
  <2>1. Contents # <<>>
    BY <1>1
  <2>2. slot[inChunk][inPos] = Contents[1]
    <3> DEFINE msgs == Contents
    <3>1. /\ Good(heap, slot, next, inChunk, inPos, outChunk, outPos, cache, msgs)
          /\ Len(msgs) > 0
      BY <1>1, Zenon
    <3> HIDE DEF msgs
    <3>2. /\ <<inChunk, inPos>> \in CellsOf(heap, slot) /\ msgs[1] = slot[inChunk][inPos]
          /\ inChunk \in Chunks
      BY <3>1, FirstCell, Zenon
    <3> QED
      BY <3>2, Zenon DEF msgs
  <2> QED
    BY <2>1, <2>2, Zenon
<1>3. slot' = t /\ next' = next
  BY Zenon DEF Pop
<1> HIDE DEF t
<1>4. CASE Consumed
  <2>1. /\ inChunk' = next[inChunk] /\ inPos' = 0
        /\ outChunk' = IF inChunk = outChunk THEN NULL ELSE outChunk
        /\ outPos' = IF inChunk = outChunk THEN 0 ELSE outPos
        /\ heap' = IF cache # NULL THEN heap \ {inChunk} ELSE heap
        /\ cache' = IF cache # NULL THEN cache ELSE inChunk
    BY <1>4, Zenon DEF Pop, Recycle
  <2>2. inPos + 1 = GRANULARITY \/ (inChunk = outChunk /\ inPos + 1 = outPos)
    BY <1>4, Zenon DEF Consumed
  <2>3. Good(heap', t, next, next[inChunk], 0, outChunk', outPos', cache', Tail(Contents))
    <3> DEFINE msgs == Contents
    <3>1. /\ Good(heap, slot, next, inChunk, inPos, outChunk, outPos, cache, msgs)
          /\ Len(msgs) > 0
      BY <1>1, Zenon
    <3> HIDE DEF msgs
    <3> DEFINE first2 == next[inChunk]
               fpos2 == 0
    <3>2. ChunkLeaves(heap, slot, next, inChunk, inPos, outChunk, outPos, cache,
                      heap', t, first2, fpos2, outChunk', outPos', cache')
      BY <2>1, <2>2, Zenon DEF ChunkLeaves, t
    <3> HIDE DEF first2, fpos2
    <3>3. Good(heap', t, next, first2, fpos2, outChunk', outPos', cache', Tail(msgs))
      BY ONLY <3>1, <3>2, PopChunkGood, Zenon
    <3> QED
      BY <3>3, Zenon DEF msgs, first2, fpos2
  <2> QED
    BY <1>2, <1>3, <2>1, <2>3, Zenon
<1>5. CASE ~ Consumed
  <2>1. /\ inChunk' = inChunk /\ inPos' = inPos + 1 /\ outChunk' = outChunk /\ outPos' = outPos
        /\ heap' = heap /\ cache' = cache
    BY <1>5, Zenon DEF Pop
  <2>2. inPos + 1 # GRANULARITY /\ ~ (inChunk = outChunk /\ inPos + 1 = outPos)
    BY <1>5, Zenon DEF Consumed
  <2>3. Good(heap, t, next, inChunk, inPos + 1, outChunk, outPos, cache, Tail(Contents))
    BY <1>1, <2>2, PopSlotGood, Zenon DEF t
  <2> QED
    BY <1>2, <1>3, <2>1, <2>3, Zenon
<1> QED
  BY <1>4, <1>5, Zenon

(* A queue without chunks is good and empty. *)
LEMMA EmptyGood ==
  ASSUME NEW s \in SlotsOf, NEW links \in Links, NEW fpos \in Slots, NEW lpos \in 0 .. GRANULARITY
  PROVE  Good({}, s, links, NULL, fpos, NULL, lpos, NULL, <<>>)
<1>1. ChainOf(NULL, links) = {}
  BY ChainEmpty, Zenon
<1>2. CellsOf({}, s) = {}
  BY Zenon DEF CellsOf
<1>3. Listed({}, s, links, NULL, fpos, NULL, lpos, <<>>)
  <2>1. IsFiniteSet({}) /\ Cardinality({}) = 0
    BY FS_EmptySet, Zenon
  <2>2. Len(<<>>) = 0 /\ <<>> \in Seq(Sizes) /\ \A k : k \notin 0 .. 0 - 1
    OBVIOUS
  <2> QED
    BY <1>2, <2>1, <2>2, Zenon DEF Listed
<1>4. Shape(NULL, links, NULL) /\ Owned({}, links, NULL, NULL)
      /\ Filled({}, s, links, NULL, fpos, NULL, lpos)
  BY <1>1, Zenon DEF Shape, Owned, Filled
<1>5. Typed({}, s, links, NULL, fpos, NULL, lpos, NULL)
  BY Zenon DEF Typed
<1> QED
  BY <1>3, <1>4, <1>5, Zenon DEF Good

(* mb_msgqueue_term frees every chunk. *)
LEMMA TermEmpties ==
  ASSUME QInv, Term
  PROVE  Good(heap', slot', next', inChunk', inPos', outChunk', outPos', cache', <<>>)
<1>1. Good(heap, slot, next, inChunk, inPos, outChunk, outPos, cache, Contents)
  BY Zenon DEF QInv
<1>2. slot \in SlotsOf /\ next \in Links /\ inPos \in Slots /\ outPos \in 0 .. GRANULARITY
  BY <1>1, Zenon DEF Good, Typed
<1>3. heap' = {}
  BY <1>1, Zenon DEF Term, Good, Owned, Chain
<1>4. slot' \in SlotsOf
  BY <1>2, Zenon DEF Term, SlotsOf
<1>5. next' = next /\ inPos' = inPos /\ outPos' = outPos /\ inChunk' = NULL /\ outChunk' = NULL
      /\ cache' = NULL
  BY Zenon DEF Term
<1> QED
  BY <1>2, <1>3, <1>4, <1>5, EmptyGood, Zenon

(* A step to a good queue of messages msgs' keeps the invariant. *)
LEMMA Kept ==
  ASSUME NEW msgs,
         Good(heap', slot', next', inChunk', inPos', outChunk', outPos', cache', msgs),
         count' = Len(msgs), maxmem' \in Limits, dead' \/ mem' = Fifo!Mem(msgs)
  PROVE  QInv' /\ Contents' = msgs
<1>1. Listed(heap', slot', next', inChunk', inPos', outChunk', outPos', msgs)
  BY Zenon DEF Good
<1>2. Read(slot', Places(inChunk', inPos', next', Len(msgs)), Len(msgs)) = msgs
  BY <1>1, ContentsListed
<1>3. Contents' = msgs
  BY <1>2, Zenon DEF Contents
<1> QED
  BY <1>3, Zenon DEF QInv

(* The charge of a message, and what fits, are those of FifoOps. *)
LEMMA SameCharge ==
  ASSUME NEW max \in Limits, NEW c, NEW used
  PROVE  max > 0 /\ (Fits(used, max, c) <=> c <= max /\ used <= max - c)
BY MsgQueueAssumption DEF Fits

(* A sequence of message sizes is one of natural numbers. *)
LEMMA SizesAreNat ==
  ASSUME NEW msgs \in Seq(Sizes)
  PROVE  msgs \in Seq(Nat)
<1>1. Len(msgs) \in Nat /\ msgs \in [1 .. Len(msgs) -> Sizes]
  OBVIOUS
<1>2. msgs \in [1 .. Len(msgs) -> Nat]
  BY <1>1, MsgQueueAssumption, Zenon
<1> DEFINE n == Len(msgs)
<1> HIDE DEF n
<1>3. \E m \in Nat : msgs \in [1 .. m -> Nat]
  BY <1>1, <1>2, Zenon
<1> QED
  BY <1>3

(* The bytes of a queue whose sizes are natural numbers are one. *)
LEMMA MemNat ==
  ASSUME NEW msgs \in Seq(Nat)
  PROVE  Fifo!Mem(msgs) \in Nat
<1>1. Len(msgs) \in 0 .. Len(msgs)
  OBVIOUS
<1>2. Fifo!Charges(msgs)[Len(msgs)] \in Nat
  BY <1>1, ChargesNat, Zenon
<1> QED
  BY <1>2, Zenon DEF Fifo!Mem

(* Each step is one of the FIFO, and keeps the invariant. *)
LEMMA StepImplements ==
  ASSUME QInv, [Next]_vars
  PROVE  QInv' /\ [Fifo!Next]_[msgs |-> Contents, maxmem |-> maxmem, pending |-> pending]
<1> DEFINE q == [msgs |-> Contents, maxmem |-> maxmem, pending |-> pending]
<1>0. /\ Good(heap, slot, next, inChunk, inPos, outChunk, outPos, cache, Contents)
      /\ count = Len(Contents) /\ maxmem \in Limits /\ (dead \/ mem = Fifo!Mem(Contents))
      /\ Contents \in Seq(Nat)
  <2>1. /\ Good(heap, slot, next, inChunk, inPos, outChunk, outPos, cache, Contents)
        /\ count = Len(Contents) /\ maxmem \in Limits /\ (dead \/ mem = Fifo!Mem(Contents))
    BY Zenon DEF QInv
  <2>2. Contents \in Seq(Sizes)
    BY <2>1, Zenon DEF Good, Listed
  <2> QED
    BY <2>1, <2>2, SizesAreNat, Zenon
<1>c. /\ maxmem > 0 /\ \A sz : CheckSz(sz) = Fifo!CheckSz(sz)
      /\ \A used, c : Fits(used, maxmem, c) <=> c <= maxmem /\ used <= maxmem - c
  <2>1. maxmem > 0
    BY <1>0, MsgQueueAssumption
  <2>2. \A sz : CheckSz(sz) = Fifo!CheckSz(sz)
    BY <2>1, Zenon DEF CheckSz, Fifo!CheckSz
  <2> QED
    BY <1>0, <2>1, <2>2, SameCharge, Zenon
<1>1. ASSUME NEW sz \in Sizes, Push(sz) PROVE QInv' /\ Fifo!Push(sz)
  <2>1. Good(heap', slot', next', inChunk', inPos', outChunk', outPos', cache', Append(Contents, sz))
    BY <1>1, PushAppends, Zenon
  <2>2. /\ ~ dead /\ Fits(mem, maxmem, CheckSz(sz)) /\ count' = count + 1
        /\ mem' = mem + CheckSz(sz) /\ pending' = Settle(mem + CheckSz(sz), maxmem)
        /\ maxmem' = maxmem /\ dead' = dead
    BY <1>1, Zenon DEF Push
  <2>3. Fifo!Mem(Append(Contents, sz)) = mem + CheckSz(sz) /\ mem = Fifo!Mem(Contents)
    BY <1>0, <1>c, <2>2, MemAppend, MsgQueueAssumption, Zenon
  <2>4. Len(Append(Contents, sz)) = count + 1
    BY <1>0
  <2>5. QInv' /\ Contents' = Append(Contents, sz)
    BY <1>0, <2>1, <2>2, <2>3, <2>4, Kept, Zenon
  <2>6. Fifo!Fits(q, Fifo!CheckSz(sz))
    BY <1>c, <2>2, <2>3, Zenon DEF Fifo!Fits
  <2>7. q' = Fifo!Pushed(q, sz)
    <3>1. Fifo!Pushed(q, sz) = Fifo!Settle([msgs |-> Append(Contents, sz), maxmem |-> maxmem, pending |-> pending])
      BY DEF Fifo!Pushed
    <3>2. Fifo!Pushed(q, sz) = [msgs |-> Append(Contents, sz), maxmem |-> maxmem,
                                pending |-> Settle(mem + CheckSz(sz), maxmem)]
      BY <1>c, <2>3, <3>1, Zenon DEF Fifo!Settle, Fifo!Fits, Settle
    <3> QED
      BY <2>2, <2>5, <3>2, Zenon
  <2> QED
    BY <2>5, <2>6, <2>7, Zenon DEF Fifo!Push
<1>2. ASSUME NEW sz \in Sizes, PushRefused(sz) PROVE QInv' /\ Fifo!Refuse(sz)
  <2>1. /\ ~ dead /\ ~ Fits(mem, maxmem, CheckSz(sz)) /\ pending' = CheckSz(sz)
        /\ store' = store /\ count' = count /\ mem' = mem /\ maxmem' = maxmem /\ dead' = dead
    BY <1>2, <1>c, Zenon DEF PushRefused
  <2>2. QInv' /\ Contents' = Contents
    BY <1>0, <2>1, Kept, Zenon DEF store
  <2>3. ~ Fifo!Fits(q, Fifo!CheckSz(sz))
    BY <1>0, <1>c, <2>1, Zenon DEF Fifo!Fits
  <2>4. q' = Fifo!Refused(q, sz)
    BY <1>c, <2>1, <2>2 DEF Fifo!Refused
  <2> QED
    BY <2>2, <2>3, <2>4, Zenon DEF Fifo!Refuse
<1>3. ASSUME Pop PROVE QInv' /\ Fifo!Pop
  <2>1. /\ Good(heap', slot', next', inChunk', inPos', outChunk', outPos', cache', Tail(Contents))
        /\ Contents # <<>> /\ slot[inChunk][inPos] = Contents[1]
    BY <1>3, PopTakesFirst, Zenon
  <2>2. /\ ~ dead /\ count' = count - 1 /\ mem' = mem - CheckSz(Contents[1])
        /\ pending' = Settle(mem', maxmem) /\ maxmem' = maxmem /\ dead' = dead
    BY <1>3, <2>1, Zenon DEF Pop
  <2>3. mem' = Fifo!Mem(Tail(Contents))
    <3> DEFINE c == Fifo!CheckSz(Contents[1])
               rest == Tail(Contents)
    <3>1. Fifo!Mem(Contents) = Fifo!Mem(rest) + c
      BY <1>0, <2>1, MemTail, Zenon
    <3>2. c \in Nat /\ rest \in Seq(Nat)
      BY <1>0, <2>1 DEF Fifo!CheckSz
    <3>3. Fifo!Mem(rest) \in Nat
      BY <3>2, MemNat, Zenon
    <3>4. mem' = mem - c /\ mem = Fifo!Mem(Contents)
      BY <1>0, <1>c, <2>2, Zenon
    <3> HIDE DEF c, rest
    <3>5. mem' = Fifo!Mem(rest)
      BY <3>1, <3>2, <3>3, <3>4
    <3> QED
      BY <3>5, Zenon DEF rest
  <2>4. Len(Tail(Contents)) = count - 1
    BY <1>0, <2>1
  <2>5. QInv' /\ Contents' = Tail(Contents)
    BY <1>0, <2>1, <2>2, <2>3, <2>4, Kept, Zenon
  <2>6. q' = Fifo!Popped(q)
    <3>1. Fifo!Popped(q) = Fifo!Settle([msgs |-> Tail(Contents), maxmem |-> maxmem, pending |-> pending])
      <4> DEFINE msgs == Contents
                 rest == Tail(msgs)
      <4> HIDE DEF msgs
      <4>1. [[msgs |-> msgs, maxmem |-> maxmem, pending |-> pending] EXCEPT !.msgs = rest]
              = [msgs |-> rest, maxmem |-> maxmem, pending |-> pending]
        <5> HIDE DEF rest
        <5> QED
          OBVIOUS
      <4> QED
        BY <4>1, Zenon DEF Fifo!Popped, msgs
    <3>2. Fifo!Popped(q) = [msgs |-> Tail(Contents), maxmem |-> maxmem, pending |-> Settle(mem', maxmem)]
      BY <1>c, <2>3, <3>1, Zenon DEF Fifo!Settle, Fifo!Fits, Settle
    <3> QED
      BY <2>2, <2>5, <3>2, Zenon
  <2> QED
    BY <2>1, <2>5, <2>6, Zenon DEF Fifo!Pop
<1>4. ASSUME NEW n \in Limits, SetMaxmem(n) PROVE QInv' /\ Fifo!Resize(n)
  <2>1. /\ ~ dead /\ pending' = Settle(mem, n) /\ maxmem' = n
        /\ store' = store /\ count' = count /\ mem' = mem /\ dead' = dead
    BY <1>4, Zenon DEF SetMaxmem
  <2>2. QInv' /\ Contents' = Contents
    BY <1>0, <2>1, Kept, Zenon DEF store
  <2>3. \A used, c : Fits(used, n, c) <=> c <= n /\ used <= n - c
    BY SameCharge, Zenon
  <2>4. q' = Fifo!SetMaxmem(q, n)
    <3>1. Fifo!SetMaxmem(q, n) = Fifo!Settle([msgs |-> Contents, maxmem |-> n, pending |-> pending])
      BY DEF Fifo!SetMaxmem
    <3>2. Fifo!SetMaxmem(q, n) = [msgs |-> Contents, maxmem |-> n, pending |-> Settle(mem, n)]
      BY <1>0, <2>1, <2>3, <3>1, Zenon DEF Fifo!Settle, Fifo!Fits, Settle
    <3> QED
      BY <2>1, <2>2, <3>2, Zenon
  <2> QED
    BY <2>2, <2>4, Zenon DEF Fifo!Resize
<1>5. ASSUME Term PROVE QInv' /\ Fifo!Term
  <2>1. Good(heap', slot', next', inChunk', inPos', outChunk', outPos', cache', <<>>)
    BY <1>5, TermEmpties, Zenon
  <2>2. dead' /\ count' = 0 /\ pending' = 0 /\ maxmem' = maxmem
    BY <1>5, Zenon DEF Term
  <2>3. QInv' /\ Contents' = <<>>
    <3> DEFINE none == <<>>
    <3>1. /\ Good(heap', slot', next', inChunk', inPos', outChunk', outPos', cache', none)
          /\ count' = Len(none) /\ maxmem' \in Limits /\ (dead' \/ mem' = Fifo!Mem(none))
      BY <1>0, <2>1, <2>2, Zenon
    <3> HIDE DEF none
    <3>2. QInv' /\ Contents' = none
      BY <3>1, Kept, Zenon
    <3> QED
      BY <3>2, Zenon DEF none
  <2> QED
    <3>1. q.maxmem = maxmem
      BY Zenon
    <3> QED
      BY <2>2, <2>3, <3>1, Zenon DEF Fifo!Term, Fifo!EmptyQueue
<1>6. ASSUME UNCHANGED vars PROVE QInv' /\ q' = q
  BY <1>0, <1>6, Kept, Zenon DEF vars, store
<1>7. CASE Next
  <2>1. CASE \E sz \in Sizes : Push(sz) \/ PushRefused(sz)
    BY <1>1, <1>2, <2>1, Zenon DEF Fifo!Next
  <2>2. CASE Pop
    BY <1>3, <2>2, Zenon DEF Fifo!Next
  <2>3. CASE \E n \in Limits : SetMaxmem(n)
    BY <1>4, <2>3, Zenon DEF Fifo!Next
  <2>4. CASE Term
    BY <1>5, <2>4, Zenon DEF Fifo!Next
  <2> QED
    BY <1>7, <2>1, <2>2, <2>3, <2>4, Zenon DEF Next
<1> QED
  BY <1>6, <1>7, Zenon

(* The queue starts empty, and good. *)
LEMMA InitGood ==
  ASSUME Init
  PROVE  QInv /\ Contents = <<>>
<1>1. slot \in SlotsOf /\ next \in Links /\ 0 \in Slots /\ 0 \in 0 .. GRANULARITY
  BY MsgQueueAssumption DEF Init, SlotsOf, Links, Slots
<1>2. Good(heap, slot, next, inChunk, inPos, outChunk, outPos, cache, <<>>)
  BY <1>1, EmptyGood, Zenon DEF Init
<1>3. Contents = <<>>
  <2>1. Listed(heap, slot, next, inChunk, inPos, outChunk, outPos, <<>>) /\ count = Len(<<>>)
    BY <1>2, Zenon DEF Good, Init
  <2> DEFINE none == <<>>
  <2>2. Listed(heap, slot, next, inChunk, inPos, outChunk, outPos, none)
    BY <2>1, Zenon
  <2> HIDE DEF none
  <2>3. Read(slot, Places(inChunk, inPos, next, Len(none)), Len(none)) = none
    BY <2>2, ContentsListed
  <2> QED
    BY <2>1, <2>3, Zenon DEF Contents, none
<1>4. Fifo!Mem(<<>>) = 0
  <2>1. <<>> \in Seq(Nat) /\ Len(<<>>) = 0
    OBVIOUS
  <2>2. Fifo!Charges(<<>>)[0] = 0
    BY <2>1, ChargesDef, Zenon
  <2> QED
    BY <2>1, <2>2, Zenon DEF Fifo!Mem
<1>5. count = Len(Contents) /\ maxmem \in Limits /\ mem = Fifo!Mem(Contents)
  BY <1>3, <1>4, Zenon DEF Init
<1> QED
  BY <1>2, <1>3, <1>5, Zenon DEF QInv

(* The invariant says that nothing leaks. *)
LEMMA GoodHasNoLeak ==
  ASSUME QInv
  PROVE  NoLeak
<1>1. /\ Owned(heap, next, inChunk, cache)
      /\ Listed(heap, slot, next, inChunk, inPos, outChunk, outPos, Contents)
      /\ count = Len(Contents)
  BY Zenon DEF QInv, Good
<1>2. heap = Chain \cup ({cache} \ {NULL}) /\ cache \notin Chain
  BY <1>1, Zenon DEF Owned, Chain
<1>3. Cardinality(CellsOf(heap, slot)) = count
  BY <1>1, Zenon DEF Listed
<1> QED
  BY <1>2, <1>3, Zenon DEF NoLeak, CellsOf

(* What the chunk chain does not say of the types. *)
Counters == mem \in Nat /\ pending \in Nat /\ dead \in BOOLEAN

(* No step takes the counters below zero. *)
LEMMA StepCounters ==
  ASSUME QInv, QInv', Counters, [Next]_vars
  PROVE  Counters'
<1>1. ASSUME ~ dead' PROVE mem' \in Nat
  <2>1. Contents' \in Seq(Sizes) /\ mem' = Fifo!Mem(Contents')
    BY <1>1, Zenon DEF QInv, Good, Listed
  <2> QED
    BY <2>1, SizesAreNat, MemNat, Zenon
<1>2. ASSUME NEW sz \in Sizes, Push(sz) \/ PushRefused(sz) PROVE Counters'
  <2>0. ~ dead /\ dead' = dead
    BY <1>2, Zenon DEF Push, PushRefused
  <2>1. ~ dead' /\ dead' \in BOOLEAN
    BY <2>0, Zenon DEF Counters
  <2>2. CheckSz(sz) \in Nat
    BY MsgQueueAssumption, Zenon DEF CheckSz
  <2>3. pending' \in Nat
    BY <1>2, <2>2 DEF Push, PushRefused, Settle, Counters
  <2> QED
    BY <1>1, <2>1, <2>3, Zenon DEF Counters
<1>3. ASSUME Pop \/ \E n \in Limits : SetMaxmem(n) PROVE Counters'
  <2>0. ~ dead /\ dead' = dead
    BY <1>3, Zenon DEF Pop, SetMaxmem
  <2>1. ~ dead' /\ dead' \in BOOLEAN
    BY <2>0, Zenon DEF Counters
  <2>2. pending' \in Nat
    BY <1>3 DEF Pop, SetMaxmem, Settle, Counters
  <2> QED
    BY <1>1, <2>1, <2>2, Zenon DEF Counters
<1>4. ASSUME Term \/ UNCHANGED vars PROVE Counters'
  <2>1. mem' = mem /\ (pending' = 0 \/ pending' = pending)
    BY <1>4, Zenon DEF Term, vars
  <2>2. dead' = TRUE \/ dead' = dead
    BY <1>4, Zenon DEF Term, vars
  <2>3. mem' \in Nat /\ pending' \in Nat
    BY <2>1 DEF Counters
  <2>4. dead' \in BOOLEAN
    BY <2>2, Zenon DEF Counters
  <2> QED
    BY <2>3, <2>4, Zenon DEF Counters
<1> QED
  BY <1>2, <1>3, <1>4, Zenon DEF Next

(* The invariant types the store. *)
LEMMA GoodTyped ==
  ASSUME QInv, Counters
  PROVE  TypeOK
<1>1. /\ Typed(heap, slot, next, inChunk, inPos, outChunk, outPos, cache)
      /\ Shape(inChunk, next, outChunk) /\ Owned(heap, next, inChunk, cache)
      /\ Contents \in Seq(Sizes) /\ count = Len(Contents) /\ maxmem \in Limits
  BY Zenon DEF QInv, Good, Listed
<1>2. /\ heap \in SUBSET Chunks /\ slot \in SlotsOf /\ next \in Links
      /\ inChunk \in Chunks \cup {NULL} /\ inPos \in Slots
      /\ outChunk \in Chunks \cup {NULL} /\ outPos \in 0 .. GRANULARITY
  BY <1>1, Zenon DEF Typed
<1>3. count \in Nat
  <2> DEFINE msgs == Contents
  <2> HIDE DEF msgs
  <2>1. msgs \in Seq(Sizes) => Len(msgs) \in Nat
    OBVIOUS
  <2> QED
    BY <1>1, <2>1, Zenon DEF msgs
<1>4. ChainOf(inChunk, next) \subseteq heap /\ cache \in heap \cup {NULL}
  BY <1>1, Zenon DEF Owned
<1>5. inChunk # NULL => inChunk \in ChainOf(inChunk, next)
  BY <1>2, ChainLeast, Zenon DEF Follows
<1>6. outChunk # NULL => outChunk \in ChainOf(inChunk, next)
  BY <1>1, <1>5, Zenon DEF Shape
<1>7. inChunk \in heap \cup {NULL} /\ outChunk \in heap \cup {NULL}
  BY <1>4, <1>5, <1>6, Zenon
<1>8. slot \in [Chunks -> [Slots -> Sizes \cup {FREE}]] /\ next \in [Chunks -> Chunks \cup {NULL}]
  BY <1>2, Zenon DEF SlotsOf, Links
<1> QED
  BY <1>1, <1>2, <1>3, <1>4, <1>7, <1>8, Zenon DEF TypeOK, Counters

-----------------------------------------------------------------------------
(* The theorems *)

(* The messages mb_msgqueue_pop will return, and the bytes they are charged,  *)
(* are at every moment those between the two cursors: the inductive           *)
(* invariant of the chunk chain.                                              *)
THEOREM QueueGood == Spec => []QInv
<1>1. Init => QInv
  BY InitGood, Zenon
<1>2. QInv /\ [Next]_vars => QInv'
  BY StepImplements, Zenon
<1> QED
  BY <1>1, <1>2, PTL DEF Spec

(* Every cursor is at an allocated chunk or at none, and mem, the size_t that *)
(* pop decreases, never wraps below zero.                                     *)
THEOREM QueueTyped == Spec => []TypeOK
<1>1. Init => Counters
  <2>1. Init => mem \in Nat /\ pending \in Nat
    BY DEF Init
  <2>2. Init => dead \in BOOLEAN
    BY Zenon DEF Init
  <2> QED
    BY <2>1, <2>2, Zenon DEF Counters
<1>2. QInv /\ QInv' /\ Counters /\ [Next]_vars => Counters'
  BY StepCounters, Zenon
<1>3. QInv /\ Counters => TypeOK
  BY GoodTyped, Zenon
<1> QED
  BY <1>1, <1>2, <1>3, QueueGood, PTL DEF Spec

(* For every chunk size, heap and sequence of calls, failed allocations       *)
(* included: mb_msgqueue_pop frees or caches each chunk it empties, the       *)
(* cached chunk is never one in use, and no slot outside the cursors holds a  *)
(* message, so that mb_msgqueue_term frees all that is left.                  *)
THEOREM NothingLeaks == Spec => []NoLeak
<1>1. QInv => NoLeak
  BY GoodHasNoLeak, Zenon
<1> QED
  BY <1>1, QueueGood, PTL

(* For every chunk size, heap, limit and message size, the chain of chunks is *)
(* the byte-bounded FIFO of MsgFifo: each function of msgqueue.c is a step of *)
(* that queue.                                                                *)
THEOREM QueueImplementsFifo == Spec => ImplementsFifo
<1> DEFINE q == [msgs |-> Contents, maxmem |-> maxmem, pending |-> pending]
<1>1. Init => Fifo!Init
  <2> SUFFICES ASSUME Init PROVE Fifo!Init
    BY Zenon
  <2>1. Contents = <<>> /\ maxmem \in Limits /\ pending = 0
    BY InitGood, Zenon DEF Init
  <2> QED
    BY <2>1, Zenon DEF Fifo!Init, Fifo!EmptyQueue
<1>2. QInv /\ [Next]_vars => [Fifo!Next]_q
  BY StepImplements, Zenon
<1> QED
  BY <1>1, <1>2, QueueGood, PTL DEF Spec, ImplementsFifo, Fifo!Spec

=============================================================================
