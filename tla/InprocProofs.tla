---------------------------- MODULE InprocProofs ----------------------------
(***************************************************************************)
(* Proofs about Inproc, for any number of sockets, callers, endpoints      *)
(* and sessions: an endpoint is listed once and is not registered when it  *)
(* is gone, a session is kept by one endpoint, and sessions come in pairs. *)
(***************************************************************************)
EXTENDS Inproc, TLAPS

-----------------------------------------------------------------------------
(* Lists without repetition *)

(* The empty list. *)
LEMMA EmptyList ==
  ASSUME NEW S
  PROVE  <<>> \in Seq(S) /\ IsInjective(<<>>) /\ Range(<<>>) = {}
  BY DEF IsInjective, Range

(* A member added at the end. *)
LEMMA AppendList ==
  ASSUME NEW S, NEW l \in Seq(S), IsInjective(l), NEW e \in S, e \notin Range(l)
  PROVE  /\ Append(l, e) \in Seq(S) /\ IsInjective(Append(l, e))
         /\ Range(Append(l, e)) = Range(l) \cup {e}
<1> DEFINE m == Append(l, e)
           n == Len(l)
<1>1. /\ n \in Nat /\ DOMAIN l = 1 .. n /\ m \in Seq(S) /\ DOMAIN m = 1 .. n + 1
      /\ m[n + 1] = e /\ \A i \in 1 .. n : m[i] = l[i]
  OBVIOUS
<1>2. \A i \in 1 .. n : l[i] # e
  BY <1>1, Zenon DEF Range
<1> HIDE DEF m, n
<1>3. \A i \in 1 .. n + 1 : i \in 1 .. n \/ i = n + 1
  BY <1>1
<1>4. ASSUME NEW i \in 1 .. n + 1, NEW j \in 1 .. n + 1, m[i] = m[j] PROVE i = j
  BY <1>1, <1>2, <1>3, <1>4, Zenon DEF IsInjective
<1>5. Range(m) = Range(l) \cup {e}
  <2>1. n + 1 \in 1 .. n + 1 /\ \A i \in 1 .. n : i \in 1 .. n + 1
    BY <1>1
  <2> QED
    BY <1>1, <1>3, <2>1, Zenon DEF Range
<1> QED
  BY <1>1, <1>4, <1>5, Zenon DEF IsInjective, m

(* A list of which a member that is not in it is erased. *)
LEMMA ErasedSame ==
  ASSUME NEW l, NEW e, e \notin Range(l)
  PROVE  Erased(l, e) = l
  BY Zenon DEF Erased

(* A list of which a member is erased. *)
LEMMA ErasedList ==
  ASSUME NEW S, NEW l \in Seq(S), IsInjective(l), NEW e
  PROVE  /\ Erased(l, e) \in Seq(S) /\ IsInjective(Erased(l, e))
         /\ Range(Erased(l, e)) = Range(l) \ {e}
<1>1. CASE e \notin Range(l)
  BY <1>1, ErasedSame, Zenon
<1>2. CASE e \in Range(l)
  <2> DEFINE i == CHOOSE i \in DOMAIN l : l[i] = e
             n == Len(l)
             m == [k \in 1 .. n - 1 |-> IF k < i THEN l[k] ELSE l[k + 1]]
  <2>1. Erased(l, e) = m
    BY <1>2, Zenon DEF Erased
  <2>2. n \in Nat /\ DOMAIN l = 1 .. n /\ \A k \in 1 .. n : l[k] \in S
    OBVIOUS
  <2>3. i \in DOMAIN l /\ l[i] = e
    BY <1>2, Zenon DEF Range
  <2> HIDE DEF i, n
  <2>4. /\ \A k \in 1 .. n - 1 : k < i => k \in 1 .. n /\ k # i
        /\ \A k \in 1 .. n - 1 : ~(k < i) => k + 1 \in 1 .. n /\ k + 1 # i
    BY <2>2, <2>3
  <2>5. \A k \in 1 .. n - 1 : m[k] \in S
    BY <2>2, <2>4, Zenon
  <2>6. m \in Seq(S)
    <3>1. n - 1 \in Nat
      BY <2>2, <2>3
    <3>2. m \in [1 .. n - 1 -> S]
      BY <2>5, Zenon
    <3> HIDE DEF m
    <3> QED
      BY <3>1, <3>2
  <2>7. ASSUME NEW j \in 1 .. n - 1, NEW k \in 1 .. n - 1, m[j] = m[k] PROVE j = k
    <3>1. CASE j < i /\ k < i
      BY <2>2, <2>4, <2>7, <3>1, Zenon DEF IsInjective
    <3>2. CASE j < i /\ ~(k < i)
      <4>1. j = k + 1
        BY <2>2, <2>4, <2>7, <3>2, Zenon DEF IsInjective
      <4> QED
        BY <2>2, <2>3, <3>2, <4>1
    <3>3. CASE ~(j < i) /\ k < i
      <4>1. j + 1 = k
        BY <2>2, <2>4, <2>7, <3>3, Zenon DEF IsInjective
      <4> QED
        BY <2>2, <2>3, <3>3, <4>1
    <3>4. CASE ~(j < i) /\ ~(k < i)
      <4>1. j + 1 = k + 1
        BY <2>2, <2>4, <2>7, <3>4, Zenon DEF IsInjective
      <4> QED
        BY <4>1
    <3> QED
      BY <3>1, <3>2, <3>3, <3>4, Zenon
  <2>8. ASSUME NEW k \in 1 .. n - 1 PROVE m[k] \in Range(l) /\ m[k] # e
    <3>1. CASE k < i
      BY <2>2, <2>3, <2>4, <3>1, Zenon DEF Range, IsInjective
    <3>2. CASE ~(k < i)
      BY <2>2, <2>3, <2>4, <3>2, Zenon DEF Range, IsInjective
    <3> QED
      BY <3>1, <3>2, Zenon
  <2>9. ASSUME NEW k \in 1 .. n, l[k] # e PROVE \E j \in 1 .. n - 1 : m[j] = l[k]
    <3>1. CASE k < i
      <4>1. k \in 1 .. n - 1
        BY <2>2, <2>3, <3>1
      <4> QED
        BY <3>1, <4>1, Zenon
    <3>2. CASE ~(k < i)
      <4>1. k - 1 \in 1 .. n - 1 /\ ~(k - 1 < i) /\ (k - 1) + 1 = k
        BY <2>2, <2>3, <2>9, <3>2
      <4> QED
        BY <4>1, Zenon
    <3> QED
      BY <3>1, <3>2, Zenon
  <2> HIDE DEF m
  <2>10. DOMAIN m = 1 .. n - 1
    BY DEF m
  <2>11. Range(m) = Range(l) \ {e}
    <3>1. Range(m) = {m[k] : k \in 1 .. n - 1} /\ Range(l) = {l[k] : k \in 1 .. n}
      BY <2>2, <2>10, Zenon DEF Range
    <3>2. ASSUME NEW z \in Range(m) PROVE z \in Range(l) /\ z # e
      BY <2>8, <3>1, Zenon
    <3>3. ASSUME NEW z \in Range(l), z # e PROVE z \in Range(m)
      <4>1. PICK k \in 1 .. n : z = l[k]
        BY <3>1, Zenon
      <4> QED
        BY <2>9, <3>1, <3>3, <4>1, Zenon
    <3> QED
      BY <3>2, <3>3, Zenon
  <2> QED
    BY <2>1, <2>6, <2>7, <2>10, <2>11, Zenon DEF IsInjective
<1> QED
  BY <1>1, <1>2, Zenon

(* The member added last is erased again. *)
LEMMA ErasedLast ==
  ASSUME NEW S, NEW l \in Seq(S), NEW e \in S, e \notin Range(l)
  PROVE  Erased(Append(l, e), e) = l
<1> DEFINE m == Append(l, e)
           n == Len(l)
           i == CHOOSE i \in DOMAIN m : m[i] = e
<1>1. /\ n \in Nat /\ DOMAIN l = 1 .. n /\ Len(m) = n + 1 /\ DOMAIN m = 1 .. n + 1
      /\ m[n + 1] = e /\ \A k \in 1 .. n : m[k] = l[k]
      /\ l = [k \in 1 .. n |-> l[k]]
  OBVIOUS
<1>2. \A k \in 1 .. n : l[k] # e
  BY <1>1, Zenon DEF Range
<1>3. n + 1 \in DOMAIN m
  BY <1>1
<1>4. i \in DOMAIN m /\ m[i] = e /\ e \in Range(m)
  BY <1>1, <1>3, Zenon DEF Range
<1> HIDE DEF i, m, n
<1>5. i = n + 1
  BY <1>1, <1>2, <1>4
<1>6. Erased(m, e) = [k \in 1 .. Len(m) - 1 |-> IF k < i THEN m[k] ELSE m[k + 1]]
  BY <1>4, Zenon DEF Erased, i
<1>7. Len(m) - 1 = n /\ \A k \in 1 .. n : k < i
  BY <1>1, <1>5
<1>8. Erased(m, e) = [k \in 1 .. n |-> l[k]]
  BY <1>1, <1>6, <1>7, Zenon
<1> QED
  BY <1>1, <1>8, Zenon DEF m

(* The head of a list and what follows it. *)
LEMMA TailList ==
  ASSUME NEW S, NEW l \in Seq(S), IsInjective(l), l # <<>>
  PROVE  /\ Head(l) \in Range(l) /\ Head(l) \in S
         /\ Tail(l) \in Seq(S) /\ IsInjective(Tail(l))
         /\ Range(Tail(l)) = Range(l) \ {Head(l)}
<1> DEFINE m == Tail(l)
           n == Len(l)
<1>1. /\ n \in Nat /\ n > 0 /\ DOMAIN l = 1 .. n /\ m \in Seq(S) /\ DOMAIN m = 1 .. n - 1
      /\ Head(l) = l[1] /\ \A k \in 1 .. n - 1 : m[k] = l[k + 1]
      /\ \A k \in 1 .. n : l[k] \in S
  OBVIOUS
<1> HIDE DEF m, n
<1>2. 1 \in 1 .. n /\ \A k \in 1 .. n - 1 : k + 1 \in 1 .. n /\ k + 1 # 1
  BY <1>1
<1>3. ASSUME NEW k \in 1 .. n, l[k] # l[1] PROVE \E j \in 1 .. n - 1 : m[j] = l[k]
  <2>1. k - 1 \in 1 .. n - 1 /\ (k - 1) + 1 = k
    BY <1>1, <1>3
  <2> QED
    BY <1>1, <2>1, Zenon
<1>4. ASSUME NEW k \in 1 .. n - 1 PROVE m[k] \in Range(l) /\ m[k] # l[1]
  <2>1. m[k] = l[k + 1] /\ k + 1 \in 1 .. n /\ k + 1 # 1
    BY <1>1, <1>2, Zenon
  <2> QED
    BY <1>1, <1>2, <2>1, Zenon DEF Range, IsInjective
<1>5. Range(m) = Range(l) \ {Head(l)}
  <2>1. Range(m) = {m[k] : k \in 1 .. n - 1} /\ Range(l) = {l[k] : k \in 1 .. n}
    BY <1>1, Zenon DEF Range
  <2>2. ASSUME NEW z \in Range(m) PROVE z \in Range(l) /\ z # Head(l)
    <3>1. PICK k \in 1 .. n - 1 : z = m[k]
      BY <2>1, Zenon
    <3> QED
      BY <1>1, <1>4, <3>1, Zenon
  <2>3. ASSUME NEW z \in Range(l), z # Head(l) PROVE z \in Range(m)
    <3>1. PICK k \in 1 .. n : z = l[k]
      BY <2>1, Zenon
    <3> QED
      BY <1>1, <1>3, <2>1, <2>3, <3>1, Zenon
  <2> QED
    BY <2>2, <2>3, Zenon
<1>6. ASSUME NEW j \in 1 .. n - 1, NEW k \in 1 .. n - 1, m[j] = m[k] PROVE j = k
  <2>1. l[j + 1] = l[k + 1]
    BY <1>1, <1>6, Zenon
  <2>2. j + 1 \in DOMAIN l /\ k + 1 \in DOMAIN l
    BY <1>1, <1>2, Zenon
  <2>3. j + 1 = k + 1
    BY <2>1, <2>2, Zenon DEF IsInjective
  <2> QED
    BY <2>3
<1>7. IsInjective(m)
  BY <1>1, <1>6, Zenon DEF IsInjective
<1> QED
  BY <1>1, <1>2, <1>5, <1>7, Zenon DEF Range, m

(* Two lists in a row. *)
LEMMA JoinList ==
  ASSUME NEW S, NEW k \in Seq(S), NEW l \in Seq(S)
  PROVE  /\ k \o l \in Seq(S) /\ Range(k \o l) = Range(k) \cup Range(l)
         /\ IsInjective(k) /\ IsInjective(l) /\ Range(k) \cap Range(l) = {}
              => IsInjective(k \o l)
<1> DEFINE m == k \o l
           a == Len(k)
           b == Len(l)
<1>1. /\ a \in Nat /\ b \in Nat /\ DOMAIN k = 1 .. a /\ DOMAIN l = 1 .. b
      /\ m \in Seq(S) /\ DOMAIN m = 1 .. a + b
      /\ \A i \in 1 .. a : m[i] = k[i]
      /\ \A i \in a + 1 .. a + b : m[i] = l[i - a]
  OBVIOUS
<1> HIDE DEF m, a, b
<1>2. /\ \A i \in 1 .. a + b : i \in 1 .. a \/ (i \in a + 1 .. a + b /\ i - a \in 1 .. b)
      /\ \A i \in 1 .. a : i \in 1 .. a + b
      /\ \A i \in 1 .. b : i + a \in a + 1 .. a + b /\ i + a \in 1 .. a + b /\ (i + a) - a = i
  BY <1>1
<1>3. Range(m) = Range(k) \cup Range(l)
  <2>1. ASSUME NEW i \in 1 .. a + b PROVE m[i] \in Range(k) \cup Range(l)
    BY <1>1, <1>2, Zenon DEF Range
  <2>2. ASSUME NEW i \in 1 .. a PROVE k[i] \in Range(m)
    BY <1>1, <1>2, Zenon DEF Range
  <2>3. ASSUME NEW i \in 1 .. b PROVE l[i] \in Range(m)
    <3>1. m[i + a] = l[i] /\ i + a \in DOMAIN m
      BY <1>1, <1>2, Zenon
    <3> QED
      BY <3>1, Zenon DEF Range
  <2>4. Range(m) = {m[i] : i \in 1 .. a + b} /\ Range(k) = {k[i] : i \in 1 .. a}
        /\ Range(l) = {l[i] : i \in 1 .. b}
    BY <1>1, Zenon DEF Range
  <2> QED
    BY <2>1, <2>2, <2>3, <2>4, Zenon
<1>4. ASSUME IsInjective(k), IsInjective(l), Range(k) \cap Range(l) = {},
             NEW i \in 1 .. a + b, NEW j \in 1 .. a + b, m[i] = m[j]
      PROVE  i = j
  <2>1. \A x \in 1 .. a, y \in 1 .. b : k[x] # l[y]
    BY <1>1, <1>4, Zenon DEF Range
  <2>2. CASE i \in 1 .. a
    <3>1. j \in 1 .. a
      <4> SUFFICES ASSUME j \in a + 1 .. a + b, j - a \in 1 .. b PROVE FALSE
        BY <1>2, Zenon
      <4>1. m[i] = k[i] /\ m[j] = l[j - a]
        BY <1>1, <2>2, Zenon
      <4> QED
        BY <1>4, <2>1, <2>2, <4>1, Zenon
    <3> QED
      BY <1>1, <1>4, <2>2, <3>1, Zenon DEF IsInjective
  <2>3. CASE i \in a + 1 .. a + b /\ i - a \in 1 .. b
    <3>1. j \in a + 1 .. a + b /\ j - a \in 1 .. b
      <4> SUFFICES ASSUME j \in 1 .. a PROVE FALSE
        BY <1>2, Zenon
      <4>1. m[j] = k[j] /\ m[i] = l[i - a]
        BY <1>1, <2>3, Zenon
      <4>2. k[j] = l[i - a]
        BY <1>4, <4>1, Zenon
      <4> QED
        BY <2>1, <2>3, <4>2, Zenon
    <3>2. i - a = j - a
      <4>1. m[i] = l[i - a] /\ m[j] = l[j - a]
        BY <1>1, <2>3, <3>1, Zenon
      <4>2. l[i - a] = l[j - a]
        BY <1>4, <4>1, Zenon
      <4> QED
        BY <1>1, <1>4, <2>3, <3>1, <4>2, Zenon DEF IsInjective
    <3> QED
      BY <1>1, <2>3, <3>1, <3>2
  <2> QED
    BY <1>2, <2>2, <2>3, Zenon
<1> QED
  BY <1>1, <1>3, <1>4, Zenon DEF IsInjective, m

-----------------------------------------------------------------------------
(* Functions that gain and lose a point *)

(* A fresh identifier is one that is not used. *)
LEMMA FreshIsNew ==
  ASSUME NEW S, NEW f, \E x \in S : x \notin DOMAIN f
  PROVE  Fresh(S, f) \in S /\ Fresh(S, f) \notin DOMAIN f
  BY Zenon DEF Fresh

(* g is f with the value v at x. *)
Gains(f, g, x, v) ==
  DOMAIN g = DOMAIN f \cup {x} /\ g[x] = v /\ \A y \in DOMAIN f : y # x => g[y] = f[y]

(* A point added. *)
LEMMA WithPoint ==
  ASSUME NEW f, NEW x, NEW v
  PROVE  Gains(f, With(f, x, v), x, v)
<1> DEFINE g == With(f, x, v)
<1>1. g = [y \in DOMAIN f \cup {x} |-> IF y = x THEN v ELSE f[y]]
  BY Zenon DEF With
<1> HIDE DEF g
<1>2. DOMAIN g = DOMAIN f \cup {x}
  BY <1>1, Zenon
<1>3. g[x] = v
  BY <1>1, Zenon
<1>4. \A y \in DOMAIN f : y # x => g[y] = f[y]
  BY <1>1, Zenon
<1>5. Gains(f, g, x, v)
  BY <1>2, <1>3, <1>4, Zenon DEF Gains
<1> QED
  BY <1>5, Zenon DEF g

(* A point removed. *)
LEMMA DropPoint ==
  ASSUME NEW f, NEW x
  PROVE  /\ DOMAIN Drop(f, x) = DOMAIN f \ {x}
         /\ \A y \in DOMAIN f : y # x => Drop(f, x)[y] = f[y]
  BY Zenon DEF Drop, Restrict

-----------------------------------------------------------------------------
(* The inductive invariant *)

EpRec ==
  [sock : Socks, bind : BOOLEAN, addr : Addrs, lazy : BOOLEAN, sinproc : SessIds \cup {None},
   sinprocs : Seq(SessIds), err : BOOLEAN]
SessRec == [ep : EpIds, peer : SessIds \cup {None}, state : {"IDLE", "ACTIVE"}]
Pcs == {"closed", "made", "up", "wait", "eps", "sess", "stop", "free"}
TdRec ==
  [pc : Pcs, eps : Seq(EpIds), cur : SessIds \cup {None}, peer : SessIds \cup {None}]

(* Endpoints, sessions and teardowns are records of their kind. *)
Typed(E, S, T) ==
  /\ \A e \in DOMAIN E : e \in EpIds /\ E[e] \in EpRec
  /\ \A x \in DOMAIN S : x \in SessIds /\ S[x] \in SessRec
  /\ T \in [Actors -> TdRec]

(* A call is made for a socket and an address. *)
Calls(C) ==
  /\ DOMAIN C = Callers
  /\ \A c \in Callers : C[c] # NoCall => C[c].sock \in Socks /\ C[c].addr \in Addrs

(* Binders in one list, lazy connectors in the other. *)
Registry(E, b, l) ==
  /\ b \in Seq(EpIds) /\ IsInjective(b) /\ l \in Seq(EpIds) /\ IsInjective(l)
  /\ \A e \in Range(b) : e \in DOMAIN E /\ E[e].bind
  /\ \A e \in Range(l) : e \in DOMAIN E /\ ~E[e].bind
  /\ \A e \in DOMAIN E : E[e].lazy <=> e \in Range(l)

(* If t is a socket, the endpoint r is one of its own. *)
Mine(t, r) == t \in Socks => r.sock = t

(* A socket lists its own endpoints and a call the one it made; the one     *)
(* that is being stopped is no longer a bound one.                          *)
Listing(E, b, T) ==
  \A t \in Actors :
    /\ IsInjective(T[t].eps)
    /\ \A e \in Range(T[t].eps) : e \in DOMAIN E /\ Mine(t, E[e])
    /\ T[t].pc \in {"sess", "stop", "free"} =>
         T[t].eps # <<>> /\ (E[Head(T[t].eps)].bind => Head(T[t].eps) \notin Range(b))
    /\ T[t].pc = "made" => T[t].eps # <<>> /\ Range(T[t].eps) = {Head(T[t].eps)}

(* An endpoint is in one list. *)
Divided(E, T) ==
  /\ \A t, u \in Actors : \A e \in Range(T[t].eps) : e \in Range(T[u].eps) => t = u
  /\ \A e \in DOMAIN E : \E t \in Actors : e \in Range(T[t].eps)

(* The sessions an endpoint has. *)
Kept(r) == ({r.sinproc} \ {None}) \cup Range(r.sinprocs)

(* A session is kept by its endpoint only; a teardown works on a session of *)
(* the endpoint it is stopping.                                             *)
Keeping(E, S, T) ==
  /\ \A x \in DOMAIN S : S[x].ep \in DOMAIN E /\ x \in Kept(E[S[x].ep])
  /\ \A e \in DOMAIN E :
       /\ IsInjective(E[e].sinprocs) /\ E[e].sinproc \notin Range(E[e].sinprocs)
       /\ \A x \in Kept(E[e]) : x \in DOMAIN S /\ S[x].ep = e
  /\ \A t \in Actors : T[t].pc \in {"stop", "free"} => T[t].cur \in Kept(E[Head(T[t].eps)])

(* The pipes of a socket are its active sessions, and these have a peer. *)
Pairing(E, S, P) ==
  /\ \A s \in Socks :
       /\ P[s] \in Seq(SessIds) /\ IsInjective(P[s])
       /\ \A x \in SessIds :
            x \in Range(P[s]) <=> x \in DOMAIN S /\ S[x].peer # None /\ E[S[x].ep].sock = s
  /\ \A x \in DOMAIN S :
       /\ S[x].state = "ACTIVE" <=> S[x].peer # None
       /\ S[x].peer # None => S[x].peer \in DOMAIN S /\ S[x].peer # x /\ S[S[x].peer].peer = x

(* x has the peer p, or another teardown has parted them. *)
Remembers(S, x, p) ==
  /\ p # x /\ (p = None => S[x].peer = None)
  /\ p \in DOMAIN S => S[x].peer = p \/ (S[x].peer = None /\ S[p].peer = None)

(* What a teardown knows of the peer of its session, before and after the   *)
(* step under the locks.                                                    *)
Recall(S, T) ==
  \A t \in Actors :
    /\ T[t].pc = "stop" => Remembers(S, T[t].cur, T[t].peer)
    /\ T[t].pc = "free" => S[T[t].cur].peer = None

(* The inductive invariant. *)
IInv ==
  /\ Typed(eps, sess, td)
  /\ Calls(call)
  /\ Registry(eps, bound, lazy)
  /\ Listing(eps, bound, td)
  /\ Divided(eps, td)
  /\ Keeping(eps, sess, td)
  /\ DOMAIN pipes = Socks
  /\ Pairing(eps, sess, pipes)
  /\ Recall(sess, td)

(* The identifiers exclude the one that stands for none. *)
LEMMA NoneIsNobody == None \notin SessIds /\ None \notin EpIds
  BY InprocAssumption DEF None, SessIds, EpIds

-----------------------------------------------------------------------------
(* What the parts of the invariant depend on *)

(* F has the endpoints of E and perhaps more, with the same identity. *)
SameEps(E, F) ==
  /\ DOMAIN E \subseteq DOMAIN F
  /\ \A e \in DOMAIN E : /\ F[e].sock = E[e].sock /\ F[e].bind = E[e].bind
                         /\ F[e].addr = E[e].addr /\ F[e].lazy = E[e].lazy

(* The registry does not depend on sessions, nor on an endpoint that is in  *)
(* neither list.                                                            *)
LEMMA RegistrySame ==
  ASSUME NEW E, NEW F, NEW b, NEW l, Registry(E, b, l), SameEps(E, F),
         \A e \in DOMAIN F \ DOMAIN E : ~F[e].lazy
  PROVE  Registry(F, b, l)
<1>1. \A e \in Range(b) \cup Range(l) : e \in DOMAIN E
  BY Zenon DEF Registry
<1>2. \A e \in Range(b) : e \in DOMAIN F /\ F[e].bind
  BY <1>1, Zenon DEF Registry, SameEps
<1>3. \A e \in Range(l) : e \in DOMAIN F /\ ~F[e].bind
  BY <1>1, Zenon DEF Registry, SameEps
<1>4. \A e \in DOMAIN F : F[e].lazy <=> e \in Range(l)
  <2> SUFFICES ASSUME NEW e \in DOMAIN F PROVE F[e].lazy <=> e \in Range(l)
    BY Zenon
  <2>1. CASE e \in DOMAIN E
    BY <2>1, Zenon DEF Registry, SameEps
  <2>2. CASE e \notin DOMAIN E
    BY <1>1, <2>2, Zenon
  <2> QED
    BY <2>1, <2>2, Zenon
<1> QED
  BY <1>2, <1>3, <1>4, Zenon DEF Registry

(* Neither do the lists of the sockets. *)
LEMMA ListingSame ==
  ASSUME NEW E, NEW F, NEW b, NEW c, NEW T, Listing(E, b, T), DOMAIN E \subseteq DOMAIN F,
         \A e \in DOMAIN E : F[e].sock = E[e].sock /\ F[e].bind = E[e].bind,
         \A e \in DOMAIN E : e \in Range(c) => e \in Range(b),
         T \in [Actors -> TdRec]
  PROVE  Listing(F, c, T)
<1> SUFFICES ASSUME NEW s \in Actors
             PROVE  /\ IsInjective(T[s].eps)
                    /\ \A e \in Range(T[s].eps) : e \in DOMAIN F /\ Mine(s, F[e])
                    /\ T[s].pc \in {"sess", "stop", "free"} =>
                         /\ T[s].eps # <<>>
                         /\ F[Head(T[s].eps)].bind => Head(T[s].eps) \notin Range(c)
                    /\ T[s].pc = "made" => T[s].eps # <<>> /\ Range(T[s].eps) = {Head(T[s].eps)}
  BY Zenon DEF Listing
<1>1. \A e \in Range(T[s].eps) : e \in DOMAIN E /\ e \in DOMAIN F /\ Mine(s, F[e])
  BY Zenon DEF Listing, Mine
<1>2. IsInjective(T[s].eps) /\ T[s].eps \in Seq(EpIds)
  <2>1. T[s] \in TdRec
    BY Zenon
  <2>2. T[s].eps \in Seq(EpIds)
    BY <2>1 DEF TdRec
  <2> QED
    BY <2>2, Zenon DEF Listing
<1>3. ASSUME T[s].pc \in {"sess", "stop", "free"}
      PROVE  T[s].eps # <<>> /\ (F[Head(T[s].eps)].bind => Head(T[s].eps) \notin Range(c))
  <2>1. T[s].eps # <<>> /\ (E[Head(T[s].eps)].bind => Head(T[s].eps) \notin Range(b))
    BY <1>3, Zenon DEF Listing
  <2>2. Head(T[s].eps) \in Range(T[s].eps)
    BY <1>2, <2>1, TailList, Zenon
  <2> QED
    BY <1>1, <2>1, <2>2, Zenon
<1>4. T[s].pc = "made" => T[s].eps # <<>> /\ Range(T[s].eps) = {Head(T[s].eps)}
  BY Zenon DEF Listing
<1> QED
  BY <1>1, <1>2, <1>3, <1>4, Zenon

(* Nor what is kept, if no endpoint that has sessions is added. *)
LEMMA KeepingSame ==
  ASSUME NEW E, NEW F, NEW b, NEW S, NEW T, Listing(E, b, T), Keeping(E, S, T),
         T \in [Actors -> TdRec], DOMAIN E \subseteq DOMAIN F,
         \A e \in DOMAIN E : F[e].sinproc = E[e].sinproc /\ F[e].sinprocs = E[e].sinprocs,
         \A e \in DOMAIN F \ DOMAIN E : F[e].sinproc = None /\ F[e].sinprocs = <<>>
  PROVE  Keeping(F, S, T)
<1>1. \A e \in DOMAIN E : Kept(F[e]) = Kept(E[e])
  BY Zenon DEF Kept
<1>2. ASSUME NEW e \in DOMAIN F \ DOMAIN E
      PROVE  Kept(F[e]) = {} /\ IsInjective(F[e].sinprocs) /\ F[e].sinproc \notin Range(F[e].sinprocs)
  <2>1. F[e].sinproc = None /\ F[e].sinprocs = <<>>
    BY Zenon
  <2> QED
    BY <2>1, EmptyList, Zenon DEF Kept
<1>3. \A x \in DOMAIN S : S[x].ep \in DOMAIN F /\ x \in Kept(F[S[x].ep])
  BY <1>1, Zenon DEF Keeping
<1>4. \A e \in DOMAIN F :
        /\ IsInjective(F[e].sinprocs) /\ F[e].sinproc \notin Range(F[e].sinprocs)
        /\ \A x \in Kept(F[e]) : x \in DOMAIN S /\ S[x].ep = e
  <2> SUFFICES ASSUME NEW e \in DOMAIN F
               PROVE  /\ IsInjective(F[e].sinprocs) /\ F[e].sinproc \notin Range(F[e].sinprocs)
                      /\ \A x \in Kept(F[e]) : x \in DOMAIN S /\ S[x].ep = e
    BY Zenon
  <2>1. CASE e \in DOMAIN E
    BY <1>1, <2>1, Zenon DEF Keeping
  <2>2. CASE e \notin DOMAIN E
    BY <1>2, <2>2, Zenon
  <2> QED
    BY <2>1, <2>2, Zenon
<1>5. ASSUME NEW s \in Actors, T[s].pc \in {"stop", "free"} PROVE T[s].cur \in Kept(F[Head(T[s].eps)])
  <2>1. T[s].cur \in Kept(E[Head(T[s].eps)]) /\ T[s].eps # <<>> /\ IsInjective(T[s].eps)
    BY <1>5 DEF Keeping, Listing
  <2>2. T[s].eps \in Seq(EpIds)
    BY DEF TdRec
  <2>3. Head(T[s].eps) \in Range(T[s].eps)
    BY <2>1, <2>2, TailList, Zenon
  <2>4. Head(T[s].eps) \in DOMAIN E
    BY <2>3, Zenon DEF Listing
  <2> QED
    BY <1>1, <2>1, <2>4, Zenon
<1> QED
  BY <1>3, <1>4, <1>5, Zenon DEF Keeping

(* Pairs depend on the sockets of the endpoints that have sessions. *)
LEMMA PairingSame ==
  ASSUME NEW E, NEW F, NEW S, NEW P, Pairing(E, S, P),
         \A x \in DOMAIN S : F[S[x].ep].sock = E[S[x].ep].sock
  PROVE  Pairing(F, S, P)
  BY Zenon DEF Pairing

(* The endpoint that a teardown works on is at the head of its list. *)
LEMMA HeadListed ==
  ASSUME IInv, NEW s \in Actors, td[s].eps # <<>>
  PROVE  EpOf(s) \in Range(td[s].eps) /\ EpOf(s) \in DOMAIN eps /\ Mine(s, eps[EpOf(s)])
<1>1. td[s].eps \in Seq(EpIds) /\ IsInjective(td[s].eps)
  BY DEF IInv, Typed, Listing, TdRec
<1>2. Head(td[s].eps) \in Range(td[s].eps)
  BY <1>1, TailList, Zenon
<1> QED
  BY <1>2, Zenon DEF IInv, Listing, EpOf

(* A step of one teardown. *)
LEMMA TdChanged ==
  ASSUME NEW E, NEW S, NEW b, NEW T, NEW s \in Actors, NEW r \in TdRec,
         Typed(E, S, T), Listing(E, b, T), Keeping(E, S, T),
         IsInjective(r.eps), \A e \in Range(r.eps) : e \in DOMAIN E /\ Mine(s, E[e]),
         r.pc \in {"sess", "stop", "free"} =>
           r.eps # <<>> /\ (E[Head(r.eps)].bind => Head(r.eps) \notin Range(b)),
         r.pc = "made" => r.eps # <<>> /\ Range(r.eps) = {Head(r.eps)},
         r.pc \in {"stop", "free"} => r.cur \in Kept(E[Head(r.eps)])
  PROVE  /\ Typed(E, S, [T EXCEPT ![s] = r])
         /\ Listing(E, b, [T EXCEPT ![s] = r])
         /\ Keeping(E, S, [T EXCEPT ![s] = r])
<1> DEFINE U == [T EXCEPT ![s] = r]
<1>1. T \in [Actors -> TdRec]
  BY Zenon DEF Typed
<1>2. U \in [Actors -> TdRec] /\ U[s] = r /\ \A t \in Actors : t # s => U[t] = T[t]
  BY <1>1, Zenon
<1> HIDE DEF U
<1>3. Typed(E, S, U)
  BY <1>2, Zenon DEF Typed
<1>4. Listing(E, b, U)
  <2> SUFFICES ASSUME NEW t \in Actors
               PROVE  /\ IsInjective(U[t].eps)
                      /\ \A e \in Range(U[t].eps) : e \in DOMAIN E /\ Mine(t, E[e])
                      /\ U[t].pc \in {"sess", "stop", "free"} =>
                           /\ U[t].eps # <<>>
                           /\ E[Head(U[t].eps)].bind => Head(U[t].eps) \notin Range(b)
                      /\ U[t].pc = "made" => U[t].eps # <<>> /\ Range(U[t].eps) = {Head(U[t].eps)}
    BY Zenon DEF Listing
  <2>1. CASE t = s
    BY <1>2, <2>1, Zenon
  <2>2. CASE t # s
    BY <1>2, <2>2, Zenon DEF Listing
  <2> QED
    BY <2>1, <2>2, Zenon
<1>5. ASSUME NEW t \in Actors, U[t].pc \in {"stop", "free"} PROVE U[t].cur \in Kept(E[Head(U[t].eps)])
  <2>1. CASE t = s
    BY <1>2, <1>5, <2>1, Zenon
  <2>2. CASE t # s
    BY <1>2, <1>5, <2>2, Zenon DEF Keeping
  <2> QED
    BY <2>1, <2>2, Zenon
<1>6. Keeping(E, S, U)
  BY <1>5, Zenon DEF Keeping
<1> QED
  BY <1>3, <1>4, <1>6, Zenon DEF U

(* What Go changes. *)
LEMMA GoFields ==
  ASSUME td \in [Actors -> TdRec], NEW s \in Actors,
         NEW pc \in Pcs, NEW l \in Seq(EpIds),
         NEW x \in SessIds \cup {None}, NEW y \in SessIds \cup {None},
         Go(s, pc, l, x, y)
  PROVE  /\ td' = [td EXCEPT ![s] = At(pc, l, x, y)] /\ td' \in [Actors -> TdRec]
         /\ td'[s].pc = pc /\ td'[s].eps = l /\ td'[s].cur = x /\ td'[s].peer = y
         /\ \A t \in Actors : t # s => td'[t] = td[t]
<1>1. td' = [td EXCEPT ![s] = At(pc, l, x, y)]
  BY Zenon DEF Go
<1>2. /\ At(pc, l, x, y) \in TdRec
      /\ At(pc, l, x, y).pc = pc /\ At(pc, l, x, y).eps = l
      /\ At(pc, l, x, y).cur = x /\ At(pc, l, x, y).peer = y
  BY DEF At, TdRec
<1>3. td' \in [Actors -> TdRec] /\ td'[s] = At(pc, l, x, y) /\ \A t \in Actors : t # s => td'[t] = td[t]
  BY <1>1, <1>2, Zenon
<1> QED
  BY <1>1, <1>2, <1>3, Zenon

(* The invariant under a step of a teardown that changes nothing else. *)
LEMMA GoKeeps ==
  ASSUME NEW E, NEW S, NEW b, Typed(E, S, td), Listing(E, b, td), Keeping(E, S, td),
         NEW s \in Actors, NEW pc \in Pcs,
         NEW l \in Seq(EpIds), NEW x \in SessIds \cup {None}, NEW y \in SessIds \cup {None},
         Go(s, pc, l, x, y),
         IsInjective(l), \A e \in Range(l) : e \in DOMAIN E /\ Mine(s, E[e]),
         pc \in {"sess", "stop", "free"} =>
           l # <<>> /\ (E[Head(l)].bind => Head(l) \notin Range(b)),
         pc = "made" => l # <<>> /\ Range(l) = {Head(l)},
         pc \in {"stop", "free"} => x \in Kept(E[Head(l)])
  PROVE  Typed(E, S, td') /\ Listing(E, b, td') /\ Keeping(E, S, td')
<1> DEFINE r == At(pc, l, x, y)
<1>1. td' = [td EXCEPT ![s] = r]
  BY Zenon DEF Go
<1>2. r \in TdRec /\ r.pc = pc /\ r.eps = l /\ r.cur = x
  BY DEF At, TdRec
<1> HIDE DEF r
<1>3. /\ IsInjective(r.eps) /\ \A e \in Range(r.eps) : e \in DOMAIN E /\ Mine(s, E[e])
      /\ r.pc \in {"sess", "stop", "free"} =>
           r.eps # <<>> /\ (E[Head(r.eps)].bind => Head(r.eps) \notin Range(b))
      /\ r.pc = "made" => r.eps # <<>> /\ Range(r.eps) = {Head(r.eps)}
      /\ r.pc \in {"stop", "free"} => r.cur \in Kept(E[Head(r.eps)])
  BY <1>2, Zenon
<1> QED
  BY <1>1, <1>2, <1>3, TdChanged, Zenon

(* Nothing moves between the lists. *)
LEMMA GoDivided ==
  ASSUME NEW E, NEW F, Divided(E, td), DOMAIN F = DOMAIN E, td \in [Actors -> TdRec],
         NEW s \in Actors, NEW pc \in Pcs, NEW l \in Seq(EpIds),
         NEW x \in SessIds \cup {None}, NEW y \in SessIds \cup {None},
         Go(s, pc, l, x, y), Range(l) = Range(td[s].eps)
  PROVE  Divided(F, td')
<1>1. td'[s].eps = l /\ \A t \in Actors : t # s => td'[t] = td[t]
  BY GoFields, Zenon
<1>2. \A t \in Actors : Range(td'[t].eps) = Range(td[t].eps)
  BY <1>1, Zenon
<1> QED
  BY <1>2, Zenon DEF Divided

(* A teardown that is at no session has nothing to recall. *)
LEMMA GoRecall ==
  ASSUME NEW S, Recall(S, td), td \in [Actors -> TdRec],
         NEW s \in Actors, NEW pc \in Pcs \ {"stop", "free"}, NEW l \in Seq(EpIds),
         NEW x \in SessIds \cup {None}, NEW y \in SessIds \cup {None},
         Go(s, pc, l, x, y)
  PROVE  Recall(S, td')
<1>1. td'[s].pc = pc /\ \A t \in Actors : t # s => td'[t] = td[t]
  BY GoFields, Zenon
<1> SUFFICES ASSUME NEW t \in Actors
             PROVE  /\ td'[t].pc = "stop" => Remembers(S, td'[t].cur, td'[t].peer)
                    /\ td'[t].pc = "free" => S[td'[t].cur].peer = None
  BY Zenon DEF Recall
<1>2. CASE t = s
  BY <1>1, <1>2, Zenon
<1>3. CASE t # s
  BY <1>1, <1>3, Zenon DEF Recall
<1> QED
  BY <1>2, <1>3, Zenon

-----------------------------------------------------------------------------
(* The steps *)

(* What the invariant says of an actor. *)
LEMMA TdTyped ==
  ASSUME IInv, NEW s \in Actors
  PROVE  /\ td \in [Actors -> TdRec] /\ td[s] \in TdRec /\ td[s].eps \in Seq(EpIds)
         /\ td[s].cur \in SessIds \cup {None} /\ td[s].peer \in SessIds \cup {None}
         /\ IsInjective(td[s].eps)
         /\ \A e \in Range(td[s].eps) : e \in DOMAIN eps /\ Mine(s, eps[e])
<1>1. td \in [Actors -> TdRec]
  BY Zenon DEF IInv, Typed
<1>2. td[s] \in TdRec
  BY <1>1, Zenon
<1>3. td[s].eps \in Seq(EpIds) /\ td[s].cur \in SessIds \cup {None} /\ td[s].peer \in SessIds \cup {None}
  BY <1>2 DEF TdRec
<1> QED
  BY <1>1, <1>2, <1>3, Zenon DEF IInv, Listing

(* A call begins or returns. *)
LEMMA CallChanged ==
  ASSUME Calls(call), NEW c \in Callers, NEW r, r # NoCall => r.sock \in Socks /\ r.addr \in Addrs,
         call' = [call EXCEPT ![c] = r]
  PROVE  Calls(call')
<1>1. DOMAIN call' = Callers /\ call'[c] = r /\ \A d \in Callers : d # c => call'[d] = call[d]
  BY Zenon DEF Calls
<1> QED
  BY <1>1, Zenon DEF Calls

(* A step between the endpoints of a list. *)
LEMMA GoOnly ==
  ASSUME IInv, NEW s \in Actors, NEW pc \in {"closed", "up", "wait", "eps"},
         Go(s, pc, td[s].eps, None, None), UNCHANGED <<eps, sess, bound, lazy, pipes>>,
         Calls(call')
  PROVE  IInv'
<1> DEFINE l == td[s].eps
<1>1. /\ td \in [Actors -> TdRec] /\ l \in Seq(EpIds) /\ IsInjective(l)
      /\ \A e \in Range(l) : e \in DOMAIN eps /\ Mine(s, eps[e])
  BY TdTyped, Zenon
<1>2. Go(s, pc, l, None, None) /\ Range(l) = Range(td[s].eps)
  BY Zenon
<1> HIDE DEF l
<1>3. pc \in Pcs /\ pc \in Pcs \ {"stop", "free"} /\ pc \notin {"sess", "stop", "free"} /\ pc # "made"
  BY DEF Pcs
<1>4. /\ Typed(eps, sess, td) /\ Listing(eps, bound, td) /\ Keeping(eps, sess, td)
      /\ Divided(eps, td) /\ Recall(sess, td)
  BY Zenon DEF IInv
<1>5. Typed(eps, sess, td') /\ Listing(eps, bound, td') /\ Keeping(eps, sess, td')
  BY <1>1, <1>2, <1>3, <1>4, GoKeeps, Zenon
<1>6. Divided(eps, td')
  BY <1>1, <1>2, <1>3, <1>4, GoDivided, Zenon
<1>7. Recall(sess, td')
  BY <1>1, <1>2, <1>3, <1>4, GoRecall, Zenon
<1> QED
  BY <1>5, <1>6, <1>7, Zenon DEF IInv

(* mb_socket *)
LEMMA OpenKeeps ==
  ASSUME IInv, NEW s \in Socks, Open(s)
  PROVE  IInv'
<1>1. /\ td[s] = Down /\ Go(s, "up", <<>>, None, None)
      /\ UNCHANGED <<eps, sess, bound, lazy, pipes, call>>
  BY Zenon DEF Open
<1>2. td[s].eps = <<>>
  BY <1>1 DEF Down, At
<1>3. Go(s, "up", td[s].eps, None, None) /\ s \in Actors /\ Calls(call')
  BY <1>1, <1>2, Zenon DEF Actors, IInv
<1> QED
  BY <1>1, <1>3, GoOnly, Zenon

(* mb_global_create_ep looks for the owner. *)
LEMMA BeginKeeps ==
  ASSUME IInv, NEW c \in Callers, NEW s \in Socks, NEW bind \in BOOLEAN, NEW a \in Addrs,
         Begin(c, s, bind, a)
  PROVE  IInv'
<1> DEFINE r == [sock |-> s, bind |-> bind, addr |-> a, owner |-> mb_ins_find_owner(a)]
<1>1. /\ call' = [call EXCEPT ![c] = r] /\ UNCHANGED <<eps, sess, bound, lazy, pipes, td>>
  BY Zenon DEF Begin
<1>2. r.sock \in Socks /\ r.addr \in Addrs
  OBVIOUS
<1> HIDE DEF r
<1>3. Calls(call')
  BY <1>1, <1>2, CallChanged, Zenon DEF IInv
<1> QED
  BY <1>1, <1>3, Zenon DEF IInv

(* The protocols do not fit: the call returns. *)
LEMMA ConnectRefusedKeeps ==
  ASSUME IInv, NEW c \in Callers, ConnectRefused(c)
  PROVE  IInv'
<1>1. /\ call' = [call EXCEPT ![c] = NoCall] /\ UNCHANGED <<eps, sess, bound, lazy, pipes, td>>
  BY Zenon DEF ConnectRefused
<1>2. Calls(call')
  BY <1>1, CallChanged, Zenon DEF IInv
<1> QED
  BY <1>1, <1>2, Zenon DEF IInv

(* The first step of mb_close. *)
LEMMA CloseBeginKeeps ==
  ASSUME IInv, NEW s \in Socks, CloseBegin(s)
  PROVE  IInv'
<1>1. /\ Go(s, "wait", td[s].eps, None, None) /\ s \in Actors
      /\ UNCHANGED <<eps, sess, bound, lazy, pipes, call>> /\ Calls(call')
  BY Zenon DEF CloseBegin, Actors, IInv
<1> QED
  BY <1>1, GoOnly, Zenon

(* mb_close has waited for the calls. *)
LEMMA CloseWaitedKeeps ==
  ASSUME IInv, NEW s \in Socks, CloseWaited(s)
  PROVE  IInv'
<1>1. /\ Go(s, "eps", td[s].eps, None, None) /\ s \in Actors
      /\ UNCHANGED <<eps, sess, bound, lazy, pipes, call>> /\ Calls(call')
  BY Zenon DEF CloseWaited, Actors, IInv
<1> QED
  BY <1>1, GoOnly, Zenon

(* The last step of mb_close, or of a call that came too late. *)
LEMMA CloseEndKeeps ==
  ASSUME IInv, NEW s \in Actors, CloseEnd(s)
  PROVE  IInv'
<1>1. /\ td[s].eps = <<>> /\ Go(s, "closed", <<>>, None, None)
      /\ call' = [c \in Callers |-> IF c = s THEN NoCall ELSE call[c]]
      /\ UNCHANGED <<eps, sess, bound, lazy, pipes>>
  BY Zenon DEF CloseEnd
<1>2. Go(s, "closed", td[s].eps, None, None)
  BY <1>1, Zenon
<1>3. Calls(call')
  <2>1. DOMAIN call' = Callers /\ \A c \in Callers : call'[c] = NoCall \/ call'[c] = call[c]
    BY <1>1, Zenon
  <2> QED
    BY <2>1, Zenon DEF IInv, Calls
<1> QED
  BY <1>1, <1>2, <1>3, GoOnly, Zenon

(* What Owned lists. *)
LEMMA OwnedList ==
  ASSUME NEW e, eps[e] \in EpRec
  PROVE  /\ Owned(e) \in Seq(SessIds) /\ Range(Owned(e)) = Kept(eps[e])
         /\ IsInjective(eps[e].sinprocs) /\ eps[e].sinproc \notin Range(eps[e].sinprocs)
              => IsInjective(Owned(e))
<1> DEFINE x == eps[e].sinproc
           l == eps[e].sinprocs
<1>1. x \in SessIds \cup {None} /\ l \in Seq(SessIds)
  BY DEF EpRec
<1> HIDE DEF x, l
<1>2. CASE x = None
  <2>1. Owned(e) = <<>> \o l
    BY <1>2, Zenon DEF Owned, x, l
  <2>2. Owned(e) = l
    BY <1>1, <2>1
  <2> QED
    BY <1>1, <1>2, <2>2, Zenon DEF Kept, x, l
<1>3. CASE x # None
  <2> DEFINE k == <<x>>
  <2>1. Owned(e) = k \o l
    BY <1>3, Zenon DEF Owned, x, l
  <2>2. k \in Seq(SessIds) /\ IsInjective(k) /\ Range(k) = {x}
    BY <1>1, <1>3 DEF IsInjective, Range
  <2> HIDE DEF k
  <2>3. /\ k \o l \in Seq(SessIds) /\ Range(k \o l) = Range(k) \cup Range(l)
        /\ IsInjective(k) /\ IsInjective(l) /\ Range(k) \cap Range(l) = {} => IsInjective(k \o l)
    BY <1>1, <2>2, JoinList, Zenon
  <2> QED
    BY <1>3, <2>1, <2>2, <2>3, Zenon DEF Kept, x, l
<1> QED
  BY <1>2, <1>3, Zenon

(* The first step of a session's stop. *)
LEMMA SessBeginKeeps ==
  ASSUME IInv, NEW s \in Actors, SessBegin(s)
  PROVE  IInv'
<1> DEFINE l == td[s].eps
           x == Head(Owned(EpOf(s)))
           y == sess[x].peer
<1>1. /\ td[s].pc = "sess" /\ Owned(EpOf(s)) # <<>>
      /\ Go(s, "stop", l, x, y) /\ UNCHANGED <<eps, sess, bound, lazy, pipes, call>>
  BY Zenon DEF SessBegin
<1>2. /\ td \in [Actors -> TdRec] /\ l \in Seq(EpIds) /\ IsInjective(l)
      /\ \A e \in Range(l) : e \in DOMAIN eps /\ Mine(s, eps[e])
  BY TdTyped, Zenon
<1>3. l # <<>> /\ (eps[Head(l)].bind => Head(l) \notin Range(bound))
  BY <1>1 DEF IInv, Listing
<1>4. EpOf(s) \in DOMAIN eps /\ EpOf(s) = Head(l)
  BY <1>3, HeadListed, Zenon DEF EpOf
<1>5. x \in Kept(eps[EpOf(s)])
  <2> DEFINE o == Owned(EpOf(s))
  <2>1. eps[EpOf(s)] \in EpRec
    BY <1>4, Zenon DEF IInv, Typed
  <2>2. IsInjective(eps[EpOf(s)].sinprocs) /\ eps[EpOf(s)].sinproc \notin Range(eps[EpOf(s)].sinprocs)
    BY <1>4, Zenon DEF IInv, Keeping
  <2>3. o \in Seq(SessIds) /\ IsInjective(o) /\ Range(o) = Kept(eps[EpOf(s)])
    BY <2>1, <2>2, OwnedList, Zenon
  <2> HIDE DEF o
  <2>4. o # <<>> => Head(o) \in Range(o)
    BY <2>3, TailList, Zenon
  <2> QED
    BY <1>1, <2>3, <2>4, Zenon DEF o
<1>6. x \in DOMAIN sess /\ x \in SessIds /\ y \in SessIds \cup {None}
  <2>1. x \in DOMAIN sess
    BY <1>4, <1>5, Zenon DEF IInv, Keeping
  <2>2. x \in SessIds /\ sess[x] \in SessRec
    BY <2>1, Zenon DEF IInv, Typed
  <2> QED
    BY <2>1, <2>2 DEF SessRec
<1> HIDE DEF l, x, y
<1>7. /\ td'[s].pc = "stop" /\ td'[s].cur = x /\ td'[s].peer = y
      /\ \A t \in Actors : t # s => td'[t] = td[t]
  BY <1>1, <1>2, <1>6, GoFields, Zenon DEF Pcs
<1>8. Typed(eps, sess, td') /\ Listing(eps, bound, td') /\ Keeping(eps, sess, td')
  <2>1. Typed(eps, sess, td) /\ Listing(eps, bound, td) /\ Keeping(eps, sess, td)
    BY Zenon DEF IInv
  <2>2. x \in Kept(eps[Head(l)])
    BY <1>4, <1>5, Zenon
  <2> QED
    BY <1>1, <1>2, <1>3, <1>6, <2>1, <2>2, GoKeeps, Zenon DEF Pcs
<1>9. Recall(sess, td')
  <2>1. Recall(sess, td) /\ Pairing(eps, sess, pipes)
    BY Zenon DEF IInv
  <2>2. y # None => y # x
    BY <1>6, <2>1, Zenon DEF Pairing, y
  <2>3. Remembers(sess, x, y)
    BY <1>6, <2>2, NoneIsNobody, Zenon DEF Remembers, y
  <2> QED
    BY <1>7, <2>1, <2>3 DEF Recall
<1>10. Divided(eps, td')
  <2>1. Divided(eps, td) /\ Range(l) = Range(td[s].eps)
    BY Zenon DEF IInv, l
  <2> QED
    BY <1>1, <1>2, <1>6, <2>1, GoDivided, Zenon DEF Pcs
<1> QED
  BY <1>1, <1>8, <1>9, <1>10, Zenon DEF IInv

(* mb_ins_erase_item in a registry that knows who is lazy. *)
LEMMA EraseItem ==
  ASSUME Registry(eps, bound, lazy), NEW e \in DOMAIN eps, mb_ins_erase_item(e)
  PROVE  /\ bound' \in Seq(EpIds) /\ IsInjective(bound') /\ Range(bound') = Range(bound) \ {e}
         /\ lazy' \in Seq(EpIds) /\ IsInjective(lazy') /\ Range(lazy') = Range(lazy) \ {e}
<1>1. /\ bound \in Seq(EpIds) /\ IsInjective(bound) /\ lazy \in Seq(EpIds) /\ IsInjective(lazy)
      /\ \A f \in Range(bound) : eps[f].bind
      /\ \A f \in Range(lazy) : ~eps[f].bind
      /\ eps[e].lazy <=> e \in Range(lazy)
  BY Zenon DEF Registry
<1>2. CASE e \in Range(lazy)
  <2>1. e \notin Range(bound)
    BY <1>1, <1>2, Zenon
  <2>2. lazy' = Erased(lazy, e) /\ bound' = bound
    BY <1>1, <1>2, Zenon DEF mb_ins_erase_item
  <2>3. Range(bound) \ {e} = Range(bound)
    BY <2>1, Zenon
  <2>4. /\ Erased(lazy, e) \in Seq(EpIds) /\ IsInjective(Erased(lazy, e))
        /\ Range(Erased(lazy, e)) = Range(lazy) \ {e}
    BY <1>1, ErasedList, Zenon
  <2> QED
    BY <1>1, <2>2, <2>3, <2>4, Zenon
<1>3. CASE e \notin Range(lazy)
  <2>1. bound' = Erased(bound, e) /\ lazy' = lazy
    BY <1>1, <1>3, Zenon DEF mb_ins_erase_item
  <2>2. Range(lazy) \ {e} = Range(lazy)
    BY <1>3, Zenon
  <2>3. /\ Erased(bound, e) \in Seq(EpIds) /\ IsInjective(Erased(bound, e))
        /\ Range(Erased(bound, e)) = Range(bound) \ {e}
    BY <1>1, ErasedList, Zenon
  <2> QED
    BY <1>1, <2>1, <2>2, <2>3, Zenon
<1> QED
  BY <1>2, <1>3, Zenon

(* An endpoint begins to stop: a binder leaves the registry. *)
LEMMA EpBeginKeeps ==
  ASSUME IInv, NEW s \in Actors, EpBegin(s)
  PROVE  IInv'
<1> DEFINE l == td[s].eps
           e == EpOf(s)
<1>1. /\ td[s].pc = "eps" /\ l # <<>> /\ Go(s, "sess", l, None, None)
      /\ IF eps[e].bind THEN mb_ins_erase_item(e) ELSE UNCHANGED <<bound, lazy>>
      /\ UNCHANGED <<eps, sess, pipes, call>>
  BY Zenon DEF EpBegin
<1>2. /\ td \in [Actors -> TdRec] /\ l \in Seq(EpIds) /\ IsInjective(l)
      /\ \A f \in Range(l) : f \in DOMAIN eps /\ Mine(s, eps[f])
  BY TdTyped, Zenon
<1>3. e \in DOMAIN eps /\ e = Head(l)
  BY <1>1, HeadListed, Zenon DEF EpOf
<1> HIDE DEF l, e
<1>4. Registry(eps, bound, lazy) /\ Typed(eps, sess, td) /\ Listing(eps, bound, td) /\ Keeping(eps, sess, td)
  BY Zenon DEF IInv
<1>5. /\ Registry(eps, bound', lazy') /\ Range(bound') \subseteq Range(bound)
      /\ eps[e].bind => e \notin Range(bound')
  <2>1. CASE ~eps[e].bind
    BY <1>1, <1>4, <2>1, Zenon
  <2>2. CASE eps[e].bind
    <3>1. mb_ins_erase_item(e)
      BY <1>1, <2>2, Zenon
    <3>2. /\ bound' \in Seq(EpIds) /\ IsInjective(bound') /\ Range(bound') = Range(bound) \ {e}
          /\ lazy' \in Seq(EpIds) /\ IsInjective(lazy') /\ Range(lazy') = Range(lazy) \ {e}
      BY <1>3, <1>4, <3>1, EraseItem, Zenon
    <3>3. e \notin Range(lazy)
      BY <1>4, <2>2, Zenon DEF Registry
    <3>4. Range(lazy') = Range(lazy)
      BY <3>2, <3>3, Zenon
    <3>5. /\ \A f \in Range(bound) : f \in DOMAIN eps /\ eps[f].bind
          /\ \A f \in Range(lazy) : f \in DOMAIN eps /\ ~eps[f].bind
          /\ \A f \in DOMAIN eps : eps[f].lazy <=> f \in Range(lazy)
      BY <1>4, Zenon DEF Registry
    <3>6. Registry(eps, bound', lazy')
      BY <3>2, <3>4, <3>5, Zenon DEF Registry
    <3> QED
      BY <3>2, <3>6, Zenon
  <2> QED
    BY <2>1, <2>2, Zenon
<1>6. Listing(eps, bound', td)
  BY <1>4, <1>5, Zenon DEF Listing
<1>7. Typed(eps, sess, td') /\ Listing(eps, bound', td') /\ Keeping(eps, sess, td')
  BY <1>1, <1>2, <1>3, <1>4, <1>5, <1>6, GoKeeps, Zenon DEF Pcs
<1>8. Divided(eps, td') /\ Recall(sess, td')
  <2>1. Divided(eps, td) /\ Recall(sess, td) /\ Range(l) = Range(td[s].eps)
    BY Zenon DEF IInv, l
  <2> QED
    BY <1>1, <1>2, <2>1, GoDivided, GoRecall, Zenon DEF Pcs
<1> QED
  BY <1>1, <1>5, <1>7, <1>8, Zenon DEF IInv

(* An endpoint without sessions is freed. *)
LEMMA EpEndKeeps ==
  ASSUME IInv, NEW s \in Actors, EpEnd(s)
  PROVE  IInv'
<1> DEFINE l == td[s].eps
           e == EpOf(s)
           E == Drop(eps, e)
<1>1. /\ td[s].pc = "sess" /\ Owned(e) = <<>> /\ Go(s, "eps", Tail(l), None, None)
      /\ IF eps[e].bind THEN UNCHANGED <<bound, lazy>> ELSE mb_ins_erase_item(e)
      /\ eps' = E /\ sess' = sess /\ pipes' = pipes /\ call' = call
  BY Zenon DEF EpEnd
<1>2. /\ td \in [Actors -> TdRec] /\ l \in Seq(EpIds) /\ IsInjective(l)
      /\ \A f \in Range(l) : f \in DOMAIN eps /\ Mine(s, eps[f])
  BY TdTyped, Zenon
<1>3. l # <<>> /\ (eps[Head(l)].bind => Head(l) \notin Range(bound))
  BY <1>1 DEF IInv, Listing
<1>4. e \in DOMAIN eps /\ e = Head(l) /\ e \in Range(l)
  BY <1>3, HeadListed, Zenon DEF EpOf
<1>5. Registry(eps, bound, lazy) /\ Typed(eps, sess, td) /\ Listing(eps, bound, td) /\ Keeping(eps, sess, td)
  BY Zenon DEF IInv
<1>6. Kept(eps[e]) = {}
  <2>1. eps[e] \in EpRec
    BY <1>4, <1>5, Zenon DEF Typed
  <2>2. Range(Owned(e)) = Kept(eps[e])
    BY <2>1, OwnedList, Zenon
  <2> QED
    BY <1>1, <2>2, EmptyList, Zenon
<1> HIDE DEF e, l
<1>7. DOMAIN E = DOMAIN eps \ {e} /\ \A f \in DOMAIN eps : f # e => E[f] = eps[f]
  BY DropPoint, Zenon
<1> HIDE DEF E
<1>8. /\ bound' \in Seq(EpIds) /\ IsInjective(bound') /\ Range(bound') = Range(bound) \ {e}
      /\ lazy' \in Seq(EpIds) /\ IsInjective(lazy') /\ Range(lazy') = Range(lazy) \ {e}
  <2>1. CASE eps[e].bind
    <3>1. e \notin Range(bound) /\ e \notin Range(lazy)
      BY <1>3, <1>4, <1>5, <2>1, Zenon DEF Registry
    <3>2. Range(bound) \ {e} = Range(bound) /\ Range(lazy) \ {e} = Range(lazy)
      BY <3>1, Zenon
    <3> QED
      BY <1>1, <1>5, <2>1, <3>2, Zenon DEF Registry
  <2>2. CASE ~eps[e].bind
    BY <1>1, <1>4, <1>5, <2>2, EraseItem, Zenon
  <2> QED
    BY <2>1, <2>2, Zenon
<1>9. Registry(E, bound', lazy')
  <2>1. /\ \A f \in Range(bound) : f \in DOMAIN eps /\ eps[f].bind
        /\ \A f \in Range(lazy) : f \in DOMAIN eps /\ ~eps[f].bind
        /\ \A f \in DOMAIN eps : eps[f].lazy <=> f \in Range(lazy)
    BY <1>5, Zenon DEF Registry
  <2>2. \A f \in Range(bound') \cup Range(lazy') :
           f \in Range(bound) \cup Range(lazy) /\ f # e /\ f \in DOMAIN E /\ E[f] = eps[f]
    BY <1>7, <1>8, <2>1, Zenon
  <2>3. \A f \in Range(bound') : f \in DOMAIN E /\ E[f].bind
    BY <1>8, <2>1, <2>2, Zenon
  <2>4. \A f \in Range(lazy') : f \in DOMAIN E /\ ~E[f].bind
    BY <1>8, <2>1, <2>2, Zenon
  <2>5. \A f \in DOMAIN E : E[f].lazy <=> f \in Range(lazy')
    BY <1>7, <1>8, <2>1, Zenon
  <2> QED
    BY <1>8, <2>3, <2>4, <2>5, Zenon DEF Registry
<1>10. /\ Head(l) \in EpIds /\ Tail(l) \in Seq(EpIds) /\ IsInjective(Tail(l))
       /\ Range(Tail(l)) = Range(l) \ {e}
  BY <1>2, <1>3, <1>4, TailList, Zenon
<1>11. /\ td'[s].pc = "eps" /\ td'[s].eps = Tail(l)
       /\ \A t \in Actors : t # s => td'[t] = td[t]
  BY <1>1, <1>2, <1>10, GoFields, Zenon DEF Pcs
<1>12. Typed(eps, sess, td') /\ Listing(eps, bound, td') /\ Keeping(eps, sess, td')
  <2>1. \A f \in Range(Tail(l)) : f \in DOMAIN eps /\ Mine(s, eps[f])
    BY <1>2, <1>10, Zenon
  <2> QED
    BY <1>1, <1>5, <1>10, <2>1, GoKeeps, Zenon DEF Pcs
<1>13. Typed(E, sess, td')
  BY <1>7, <1>12, Zenon DEF Typed
<1>14. \A t \in Actors : \A f \in Range(td'[t].eps) : f \in DOMAIN E /\ E[f] = eps[f]
  <2> SUFFICES ASSUME NEW t \in Actors, NEW f \in Range(td'[t].eps) PROVE f \in DOMAIN eps /\ f # e
    BY <1>7, Zenon
  <2>1. f \in DOMAIN eps /\ Mine(t, eps[f])
    BY <1>12, Zenon DEF Listing
  <2>2. CASE t = s
    BY <1>10, <1>11, <2>1, <2>2, Zenon
  <2>3. CASE t # s
    BY <1>4, <1>11, <2>1, <2>3, Zenon DEF IInv, Divided, l
  <2> QED
    BY <2>2, <2>3, Zenon
<1>15. \A t \in Actors : td'[t].pc \in {"sess", "stop", "free"} =>
         td'[t].eps # <<>> /\ Head(td'[t].eps) \in Range(td'[t].eps)
  <2> SUFFICES ASSUME NEW t \in Actors, td'[t].pc \in {"sess", "stop", "free"}
               PROVE  td'[t].eps # <<>> /\ Head(td'[t].eps) \in Range(td'[t].eps)
    BY Zenon
  <2>1. td'[t].eps # <<>> /\ IsInjective(td'[t].eps)
    BY <1>12, Zenon DEF Listing
  <2>2. td'[t] \in TdRec
    BY <1>12, Zenon DEF Typed
  <2>3. td'[t].eps \in Seq(EpIds)
    BY <2>2 DEF TdRec
  <2> QED
    BY <2>1, <2>3, TailList, Zenon
<1>16. Listing(E, bound', td')
  <2> SUFFICES ASSUME NEW t \in Actors
               PROVE  /\ IsInjective(td'[t].eps)
                      /\ \A f \in Range(td'[t].eps) : f \in DOMAIN E /\ Mine(t, E[f])
                      /\ td'[t].pc \in {"sess", "stop", "free"} =>
                           /\ td'[t].eps # <<>>
                           /\ E[Head(td'[t].eps)].bind => Head(td'[t].eps) \notin Range(bound')
                      /\ td'[t].pc = "made" =>
                           td'[t].eps # <<>> /\ Range(td'[t].eps) = {Head(td'[t].eps)}
    BY Zenon DEF Listing
  <2>1. /\ IsInjective(td'[t].eps)
        /\ \A f \in Range(td'[t].eps) : Mine(t, eps[f])
        /\ td'[t].pc \in {"sess", "stop", "free"} =>
             (eps[Head(td'[t].eps)].bind => Head(td'[t].eps) \notin Range(bound))
        /\ td'[t].pc = "made" =>
             td'[t].eps # <<>> /\ Range(td'[t].eps) = {Head(td'[t].eps)}
    BY <1>12, Zenon DEF Listing
  <2>2. \A f \in Range(td'[t].eps) : f \in DOMAIN E /\ Mine(t, E[f])
    BY <1>14, <2>1, Zenon
  <2>3. ASSUME td'[t].pc \in {"sess", "stop", "free"}, E[Head(td'[t].eps)].bind
        PROVE  Head(td'[t].eps) \notin Range(bound')
    BY <1>8, <1>14, <1>15, <2>1, <2>3, Zenon
  <2> QED
    BY <1>15, <2>1, <2>2, <2>3, Zenon
<1>17. Keeping(E, sess, td')
  <2>1. \A x \in DOMAIN sess : sess[x].ep \in DOMAIN E /\ x \in Kept(E[sess[x].ep])
    BY <1>6, <1>7, <1>12, Zenon DEF Keeping
  <2>2. \A f \in DOMAIN E :
          /\ IsInjective(E[f].sinprocs) /\ E[f].sinproc \notin Range(E[f].sinprocs)
          /\ \A x \in Kept(E[f]) : x \in DOMAIN sess /\ sess[x].ep = f
    BY <1>7, <1>12, Zenon DEF Keeping
  <2>3. ASSUME NEW t \in Actors, td'[t].pc \in {"stop", "free"}
        PROVE  td'[t].cur \in Kept(E[Head(td'[t].eps)])
    <3>1. E[Head(td'[t].eps)] = eps[Head(td'[t].eps)]
      BY <1>14, <1>15, <2>3, Zenon
    <3> QED
      BY <1>12, <2>3, <3>1, Zenon DEF Keeping
  <2> QED
    BY <2>1, <2>2, <2>3, Zenon DEF Keeping
<1>18. Pairing(E, sess, pipes)
  <2>1. Pairing(eps, sess, pipes)
    BY Zenon DEF IInv
  <2>2. \A x \in DOMAIN sess : E[sess[x].ep].sock = eps[sess[x].ep].sock
    BY <1>6, <1>7, <1>12, Zenon DEF Keeping
  <2> QED
    BY <2>1, <2>2, PairingSame, Zenon
<1>19. Recall(sess, td')
  <2>1. Recall(sess, td)
    BY Zenon DEF IInv
  <2> QED
    BY <1>1, <1>2, <1>10, <2>1, GoRecall, Zenon DEF Pcs
<1>20. Divided(E, td')
  <2>1. Divided(eps, td) /\ Range(td[s].eps) = Range(l)
    BY Zenon DEF IInv, l
  <2>2. \A t \in Actors : Range(td'[t].eps) = Range(td[t].eps) \ {e}
    <3>1. \A t \in Actors : t # s => e \notin Range(td[t].eps)
      BY <1>4, <2>1, Zenon DEF Divided
    <3> QED
      BY <1>10, <1>11, <2>1, <3>1, Zenon
  <2>3. \A t, u \in Actors : \A f \in Range(td'[t].eps) : f \in Range(td'[u].eps) => t = u
    <3>1. \A t \in Actors : \A f \in Range(td'[t].eps) : f \in Range(td[t].eps)
      BY <2>2, Zenon
    <3> QED
      BY <2>1, <3>1, Zenon DEF Divided
  <2>4. \A f \in DOMAIN E : \E t \in Actors : f \in Range(td'[t].eps)
    <3> SUFFICES ASSUME NEW f \in DOMAIN E PROVE \E t \in Actors : f \in Range(td'[t].eps)
      BY Zenon
    <3>1. PICK t \in Actors : f \in Range(td[t].eps)
      BY <1>7, <2>1, Zenon DEF Divided
    <3> QED
      BY <1>7, <2>2, <3>1, Zenon
  <2> QED
    BY <2>3, <2>4, Zenon DEF Divided
<1>21. DOMAIN pipes = Socks /\ Calls(call)
  BY Zenon DEF IInv
<1> QED
  BY <1>1, <1>9, <1>13, <1>16, <1>17, <1>18, <1>19, <1>20, <1>21, Zenon DEF IInv

(* The made endpoint joins those of its socket, or is stopped. *)
LEMMA PublishKeeps ==
  ASSUME IInv, NEW c \in Callers, Publish(c)
  PROVE  IInv'
<1> DEFINE e == EpOf(c)
           s == eps[e].sock
           l == td[s].eps
           k == Append(l, e)
<1>1. /\ td[c].pc = "made" /\ UNCHANGED <<eps, sess, bound, lazy, pipes>>
      /\ IF Stopping(s) THEN Go(c, "eps", td[c].eps, None, None) /\ call' = call
         ELSE /\ td' = [td EXCEPT ![c] = Down, ![s].eps = Append(@, e)]
              /\ call' = [call EXCEPT ![c] = NoCall]
  BY Zenon DEF Publish
<1>2. c \in Actors /\ c \notin Socks /\ Socks \subseteq Actors
  BY InprocAssumption, Zenon DEF Actors
<1>3. CASE Stopping(s)
  <2>1. Go(c, "eps", td[c].eps, None, None) /\ Calls(call')
    BY <1>1, <1>3, Zenon DEF IInv
  <2> QED
    BY <1>1, <1>2, <2>1, GoOnly, Zenon
<1>4. CASE ~Stopping(s)
  <2>1. /\ Typed(eps, sess, td) /\ Listing(eps, bound, td) /\ Keeping(eps, sess, td)
        /\ Divided(eps, td) /\ Recall(sess, td) /\ td \in [Actors -> TdRec]
    BY Zenon DEF IInv, Typed
  <2>2. td[c].eps # <<>> /\ Range(td[c].eps) = {e}
    BY <1>1, <1>2, <2>1, Zenon DEF Listing, EpOf
  <2>3. e \in DOMAIN eps /\ e \in EpIds /\ s \in Socks
    <3>1. e \in DOMAIN eps
      BY <1>2, <2>1, <2>2, Zenon DEF Listing
    <3>2. e \in EpIds /\ eps[e] \in EpRec
      BY <2>1, <3>1, Zenon DEF Typed
    <3> QED
      BY <3>1, <3>2 DEF EpRec
  <2>4. s \in Actors /\ s # c
    BY <1>2, <2>3, Zenon
  <2>5. td[s].pc = "up"
    BY <1>4, Zenon DEF Stopping
  <2>6. /\ l \in Seq(EpIds) /\ IsInjective(l)
        /\ \A f \in Range(l) : f \in DOMAIN eps /\ Mine(s, eps[f])
    BY <2>4, TdTyped, Zenon
  <2>7. e \notin Range(l)
    BY <1>2, <2>1, <2>2, <2>4, Zenon DEF Divided
  <2>8. k \in Seq(EpIds) /\ IsInjective(k) /\ Range(k) = Range(l) \cup {e}
    <3> HIDE DEF l, e
    <3> QED
      BY <2>3, <2>6, <2>7, AppendList
  <2>9. /\ td' \in [Actors -> TdRec] /\ td'[c] = Down
        /\ td'[s].eps = k /\ td'[s].pc = "up"
        /\ \A t \in Actors : t # c /\ t # s => td'[t] = td[t]
    <3> HIDE DEF s, e
    <3>1. td' = [[td EXCEPT ![c] = Down] EXCEPT ![s].eps = k]
      <4>1. td' = [td EXCEPT ![c] = Down, ![s].eps = Append(@, e)]
        BY <1>1, <1>4, Zenon
      <4> QED
        BY <2>4, <4>1
    <3>2. Down \in TdRec /\ td[s] \in TdRec
      BY <2>1, <2>4 DEF Down, At, TdRec, Pcs
    <3> HIDE DEF k
    <3>3. [td[s] EXCEPT !.eps = k] \in TdRec
      BY <2>8, <3>2 DEF TdRec
    <3>4. /\ [td[s] EXCEPT !.eps = k].eps = k /\ [td[s] EXCEPT !.eps = k].pc = td[s].pc
      BY <3>2 DEF TdRec
    <3>5. /\ td'[c] = Down /\ td'[s] = [td[s] EXCEPT !.eps = k]
          /\ \A t \in Actors : t # c /\ t # s => td'[t] = td[t]
          /\ DOMAIN td' = Actors
      BY <1>2, <2>1, <2>4, <3>1
    <3>6. \A t \in Actors : td'[t] \in TdRec
      BY <2>1, <3>2, <3>3, <3>5, Zenon
    <3>7. td' \in [Actors -> TdRec]
      <4>1. td' = [t \in Actors |-> td'[t]]
        BY <3>1, <3>5
      <4> QED
        BY <3>6, <4>1, Zenon
    <3> QED
      BY <2>5, <3>4, <3>5, <3>7, Zenon
  <2>10. td'[c].eps = <<>> /\ td'[c].pc = "closed" /\ Range(td'[c].eps) = {} /\ IsInjective(td'[c].eps)
    BY <2>9, EmptyList DEF Down, At
  <2> HIDE DEF k, l, s
  <2>11. Typed(eps, sess, td')
    BY <2>1, <2>9, Zenon DEF Typed
  <2>12. Listing(eps, bound, td')
    <3> SUFFICES ASSUME NEW t \in Actors
                 PROVE  /\ IsInjective(td'[t].eps)
                        /\ \A f \in Range(td'[t].eps) : f \in DOMAIN eps /\ Mine(t, eps[f])
                        /\ td'[t].pc \in {"sess", "stop", "free"} =>
                             /\ td'[t].eps # <<>>
                             /\ eps[Head(td'[t].eps)].bind => Head(td'[t].eps) \notin Range(bound)
                        /\ td'[t].pc = "made" =>
                             td'[t].eps # <<>> /\ Range(td'[t].eps) = {Head(td'[t].eps)}
      BY Zenon DEF Listing
    <3>1. CASE t = c
      BY <2>10, <3>1, Zenon
    <3>2. CASE t = s
      BY <2>3, <2>6, <2>8, <2>9, <3>2, Zenon DEF Mine, s
    <3>3. CASE t # c /\ t # s
      BY <2>1, <2>9, <3>3, Zenon DEF Listing
    <3> QED
      BY <3>1, <3>2, <3>3, Zenon
  <2>13. Keeping(eps, sess, td')
    <3> SUFFICES ASSUME NEW t \in Actors, td'[t].pc \in {"stop", "free"}
                 PROVE  td'[t].cur \in Kept(eps[Head(td'[t].eps)])
      BY <2>1, Zenon DEF Keeping
    <3>1. t # c /\ t # s
      BY <2>9, <2>10
    <3> QED
      BY <2>1, <2>9, <3>1, Zenon DEF Keeping
  <2>14. Divided(eps, td')
    <3>1. \A t \in Actors : \A f \in Range(td'[t].eps) :
            IF f = e THEN t = s ELSE f \in Range(td[t].eps)
      BY <1>2, <2>1, <2>2, <2>8, <2>9, <2>10, Zenon DEF Divided, l
    <3>2. \A t \in Actors : \A f \in Range(td[t].eps) :
            IF f = e THEN f \in Range(td'[s].eps) ELSE f \in Range(td'[t].eps)
      BY <2>2, <2>8, <2>9, Zenon DEF l
    <3>3. \A t, u \in Actors : \A f \in Range(td'[t].eps) : f \in Range(td'[u].eps) => t = u
      BY <2>1, <3>1, Zenon DEF Divided
    <3>4. \A f \in DOMAIN eps : \E t \in Actors : f \in Range(td'[t].eps)
      BY <2>1, <2>4, <3>2, Zenon DEF Divided
    <3> QED
      BY <3>3, <3>4, Zenon DEF Divided
  <2>15. Recall(sess, td')
    <3> SUFFICES ASSUME NEW t \in Actors
                 PROVE  /\ td'[t].pc = "stop" => Remembers(sess, td'[t].cur, td'[t].peer)
                        /\ td'[t].pc = "free" => sess[td'[t].cur].peer = None
      BY Zenon DEF Recall
    <3>1. CASE t = c \/ t = s
      BY <2>9, <2>10, <3>1
    <3>2. CASE t # c /\ t # s
      BY <2>1, <2>9, <3>2, Zenon DEF Recall
    <3> QED
      BY <3>1, <3>2, Zenon
  <2>16. Calls(call')
    BY <1>1, <1>4, CallChanged, Zenon DEF IInv
  <2> QED
    BY <1>1, <2>11, <2>12, <2>13, <2>14, <2>15, <2>16, Zenon DEF IInv
<1> QED
  BY <1>3, <1>4, Zenon

(* The endpoint a call makes. *)
LEMMA NewEpId ==
  ASSUME IInv, NEW c, Finding(c)
  PROVE  Fresh(FreeEps, eps) \in EpIds /\ Fresh(FreeEps, eps) \notin DOMAIN eps
<1>1. \E x \in FreeEps : x \notin DOMAIN eps
  BY Zenon DEF Finding
<1>2. Fresh(FreeEps, eps) \in FreeEps /\ Fresh(FreeEps, eps) \notin DOMAIN eps
  BY <1>1, FreshIsNew, Zenon
<1> QED
  BY <1>2, Zenon DEF FreeEps

(* A call that has looked for the owner. *)
LEMMA FinderCall ==
  ASSUME IInv, NEW c \in Callers, Finding(c)
  PROVE  /\ call[c].sock \in Socks /\ call[c].addr \in Addrs
         /\ c \in Actors /\ c \notin Socks /\ td[c].eps = <<>> /\ td[c].pc = "closed"
<1>1. call[c] # NoCall /\ td[c] = Down
  BY Zenon DEF Finding, Finders
<1>2. call[c].sock \in Socks /\ call[c].addr \in Addrs
  BY <1>1, Zenon DEF IInv, Calls
<1>3. c \in Actors /\ c \notin Socks
  BY InprocAssumption, Zenon DEF Actors
<1>4. td[c].eps = <<>> /\ td[c].pc = "closed"
  BY <1>1 DEF Down, At
<1> QED
  BY <1>2, <1>3, <1>4, Zenon

(* The new endpoint is listed by the call. *)
LEMMA EpMade ==
  ASSUME NEW F, NEW S, NEW b, Typed(F, S, td), Listing(F, b, td), Keeping(F, S, td),
         NEW E, Divided(E, td), NEW e \in EpIds, DOMAIN F = DOMAIN E \cup {e},
         NEW c \in Actors, c \notin Socks, td[c].eps = <<>>,
         \A t \in Actors : e \notin Range(td[t].eps),
         Go(c, "made", <<e>>, None, None)
  PROVE  /\ Typed(F, S, td') /\ Listing(F, b, td') /\ Keeping(F, S, td') /\ Divided(F, td')
         /\ \A Q : Recall(Q, td) => Recall(Q, td')
<1> DEFINE l == <<e>>
<1>1. td \in [Actors -> TdRec] /\ Go(c, "made", l, None, None)
  BY Zenon DEF Typed
<1>2. l \in Seq(EpIds) /\ IsInjective(l) /\ Range(l) = {e} /\ l # <<>> /\ Head(l) = e
  BY DEF IsInjective, Range
<1> HIDE DEF l
<1>3. td'[c].eps = l /\ \A t \in Actors : t # c => td'[t] = td[t]
  BY <1>1, <1>2, GoFields, Zenon DEF Pcs
<1>4. \A f \in Range(l) : f \in DOMAIN F /\ Mine(c, F[f])
  BY <1>2, Zenon DEF Mine
<1>5. Typed(F, S, td') /\ Listing(F, b, td') /\ Keeping(F, S, td')
  BY <1>1, <1>2, <1>4, GoKeeps, Zenon DEF Pcs
<1>6. \A Q : Recall(Q, td) => Recall(Q, td')
  BY <1>1, <1>2, GoRecall, Zenon DEF Pcs
<1>7. Divided(F, td')
  <2>1. \A t \in Actors : \A f \in Range(td'[t].eps) :
          IF t = c THEN f = e ELSE f \in Range(td[t].eps) /\ f # e
    BY <1>2, <1>3, Zenon
  <2>2. \A t, u \in Actors : \A f \in Range(td'[t].eps) : f \in Range(td'[u].eps) => t = u
    BY <2>1, Zenon DEF Divided
  <2>3. \A f \in DOMAIN F : \E t \in Actors : f \in Range(td'[t].eps)
    <3> SUFFICES ASSUME NEW f \in DOMAIN F PROVE \E t \in Actors : f \in Range(td'[t].eps)
      BY Zenon
    <3>1. CASE f = e
      BY <1>2, <1>3, <3>1, Zenon
    <3>2. CASE f # e
      <4>1. PICK t \in Actors : f \in Range(td[t].eps)
        BY <3>2, Zenon DEF Divided
      <4>2. t # c
        BY <4>1, EmptyList, Zenon
      <4> QED
        BY <1>3, <4>1, <4>2, Zenon
    <3> QED
      BY <3>1, <3>2, Zenon
  <2> QED
    BY <2>2, <2>3, Zenon DEF Divided
<1> QED
  BY <1>5, <1>6, <1>7, Zenon

(* A new endpoint is in no list. *)
LEMMA NewEpUnlisted ==
  ASSUME IInv, NEW e, e \notin DOMAIN eps
  PROVE  /\ \A t \in Actors : e \notin Range(td[t].eps)
         /\ e \notin Range(bound) /\ e \notin Range(lazy)
  BY Zenon DEF IInv, Listing, Registry

(* mb_bind *)
LEMMA MbBindKeeps ==
  ASSUME IInv, NEW c \in Callers, MbBind(c)
  PROVE  IInv'
<1> DEFINE e == Fresh(FreeEps, eps)
           p == Endpoint(call[c].sock, TRUE, call[c].addr)
           o == call[c].owner
           D == [x \in DOMAIN eps |-> IF x = o THEN [eps[x] EXCEPT !.lazy = FALSE] ELSE eps[x]]
           F == With(D, e, p)
<1>1. /\ Finding(c) /\ Go(c, "made", <<e>>, None, None) /\ mb_ins_bind(e, p, o)
      /\ sess' = sess /\ pipes' = pipes /\ call' = call
  BY Zenon DEF MbBind
<1>2. e \in EpIds /\ e \notin DOMAIN eps
  BY <1>1, NewEpId, Zenon
<1>3. /\ p \in EpRec /\ p.bind = TRUE /\ p.lazy = FALSE
      /\ p.sinproc = None /\ p.sinprocs = <<>>
  <2>1. call[c].sock \in Socks /\ call[c].addr \in Addrs /\ TRUE \in BOOLEAN
    BY <1>1, FinderCall, Zenon
  <2> QED
    BY <2>1, EmptyList DEF Endpoint, EpRec
<1>4. /\ lazy' = Erased(lazy, o) /\ eps' = F /\ bound' = Append(bound, e)
  BY <1>1, Zenon DEF mb_ins_bind
<1>5. Registry(eps, bound, lazy) /\ Typed(eps, sess, td) /\ Listing(eps, bound, td) /\ Keeping(eps, sess, td)
  BY Zenon DEF IInv
<1>6. /\ \A t \in Actors : e \notin Range(td[t].eps)
      /\ e \notin Range(bound) /\ e \notin Range(lazy)
  BY <1>2, NewEpUnlisted, Zenon
<1> HIDE DEF e, p, o
<1>7. /\ DOMAIN F = DOMAIN eps \cup {e} /\ F[e] = p
      /\ \A f \in DOMAIN eps : F[f] = IF f = o THEN [eps[f] EXCEPT !.lazy = FALSE] ELSE eps[f]
  <2>1. DOMAIN D = DOMAIN eps
    BY Zenon
  <2> HIDE DEF D
  <2>2. F = [y \in DOMAIN D \cup {e} |-> IF y = e THEN p ELSE D[y]]
    BY Zenon DEF With
  <2> HIDE DEF F
  <2>3. DOMAIN F = DOMAIN D \cup {e}
    BY <2>2, Zenon
  <2>4. F[e] = p
    BY <2>2, Zenon
  <2>5. \A f \in DOMAIN D : f # e => F[f] = D[f]
    BY <2>2, Zenon
  <2> QED
    BY <1>2, <2>1, <2>3, <2>4, <2>5, Zenon DEF D
<1> HIDE DEF F
<1>8. \A f \in DOMAIN eps :
        /\ F[f] \in EpRec /\ F[f].sock = eps[f].sock /\ F[f].bind = eps[f].bind
        /\ F[f].addr = eps[f].addr
        /\ F[f].sinproc = eps[f].sinproc /\ F[f].sinprocs = eps[f].sinprocs
        /\ F[f].lazy <=> eps[f].lazy /\ f # o
  <2> SUFFICES ASSUME NEW f \in DOMAIN eps
               PROVE  /\ F[f] \in EpRec /\ F[f].sock = eps[f].sock /\ F[f].bind = eps[f].bind
                      /\ F[f].addr = eps[f].addr
                      /\ F[f].sinproc = eps[f].sinproc /\ F[f].sinprocs = eps[f].sinprocs
                      /\ F[f].lazy <=> eps[f].lazy /\ f # o
    BY Zenon
  <2>1. eps[f] \in EpRec
    BY <1>5, Zenon DEF Typed
  <2>2. CASE f = o
    BY <1>7, <2>1, <2>2, Zenon DEF EpRec
  <2>3. CASE f # o
    BY <1>7, <2>1, <2>3, Zenon
  <2> QED
    BY <2>2, <2>3, Zenon
<1>9. Typed(F, sess, td)
  BY <1>2, <1>3, <1>5, <1>7, <1>8, Zenon DEF Typed
<1>10. /\ bound' \in Seq(EpIds) /\ IsInjective(bound') /\ Range(bound') = Range(bound) \cup {e}
       /\ lazy' \in Seq(EpIds) /\ IsInjective(lazy') /\ Range(lazy') = Range(lazy) \ {o}
  BY <1>2, <1>4, <1>5, <1>6, AppendList, ErasedList, Zenon DEF Registry
<1>11. Registry(F, bound', lazy')
  <2>1. /\ \A f \in Range(bound) : f \in DOMAIN eps /\ eps[f].bind
        /\ \A f \in Range(lazy) : f \in DOMAIN eps /\ ~eps[f].bind
        /\ \A f \in DOMAIN eps : eps[f].lazy <=> f \in Range(lazy)
    BY <1>5, Zenon DEF Registry
  <2>2. \A f \in Range(bound') : f \in DOMAIN F /\ F[f].bind
    BY <1>3, <1>7, <1>8, <1>10, <2>1, Zenon
  <2>3. \A f \in Range(lazy') : f \in DOMAIN F /\ ~F[f].bind
    BY <1>7, <1>8, <1>10, <2>1, Zenon
  <2>4. \A f \in DOMAIN F : F[f].lazy <=> f \in Range(lazy')
    <3> SUFFICES ASSUME NEW f \in DOMAIN F PROVE F[f].lazy <=> f \in Range(lazy')
      BY Zenon
    <3>1. CASE f = e
      BY <1>3, <1>6, <1>7, <1>10, <3>1, Zenon
    <3>2. CASE f # e
      BY <1>7, <1>8, <1>10, <2>1, <3>2, Zenon
    <3> QED
      BY <3>1, <3>2, Zenon
  <2> QED
    BY <1>10, <2>2, <2>3, <2>4, Zenon DEF Registry
<1>12. DOMAIN eps \subseteq DOMAIN F /\ td \in [Actors -> TdRec]
  BY <1>5, <1>7, Zenon DEF Typed
<1>13. Listing(F, bound', td)
  <2>1. \A f \in DOMAIN eps : F[f].sock = eps[f].sock /\ F[f].bind = eps[f].bind
    BY <1>8, Zenon
  <2>2. \A f \in DOMAIN eps : f \in Range(bound') => f \in Range(bound)
    BY <1>2, <1>10, Zenon
  <2> QED
    BY <1>5, <1>12, <2>1, <2>2, ListingSame, Zenon
<1>14. Keeping(F, sess, td)
  <2>1. \A f \in DOMAIN eps : F[f].sinproc = eps[f].sinproc /\ F[f].sinprocs = eps[f].sinprocs
    BY <1>8, Zenon
  <2>2. \A f \in DOMAIN F \ DOMAIN eps : F[f].sinproc = None /\ F[f].sinprocs = <<>>
    BY <1>3, <1>7, Zenon
  <2> QED
    BY <1>5, <1>12, <2>1, <2>2, KeepingSame, Zenon
<1>15. /\ Typed(F, sess, td') /\ Listing(F, bound', td') /\ Keeping(F, sess, td')
       /\ Divided(F, td') /\ \A Q : Recall(Q, td) => Recall(Q, td')
  <2>1. Divided(eps, td) /\ Go(c, "made", <<e>>, None, None)
    BY <1>1, Zenon DEF IInv, e
  <2>2. c \in Actors /\ c \notin Socks /\ td[c].eps = <<>>
    BY <1>1, FinderCall, Zenon
  <2>3. DOMAIN F = DOMAIN eps \cup {e} /\ e \in EpIds /\ \A t \in Actors : e \notin Range(td[t].eps)
    BY <1>2, <1>6, <1>7, Zenon
  <2> QED
    BY <1>9, <1>13, <1>14, <2>1, <2>2, <2>3, EpMade, Zenon
<1>16. Pairing(F, sess, pipes) /\ Recall(sess, td')
  <2>1. \A x \in DOMAIN sess : F[sess[x].ep].sock = eps[sess[x].ep].sock
    BY <1>5, <1>8, Zenon DEF Keeping
  <2> QED
    BY <1>15, <2>1, PairingSame, Zenon DEF IInv
<1>17. DOMAIN pipes = Socks /\ Calls(call)
  BY Zenon DEF IInv
<1> QED
  BY <1>1, <1>4, <1>11, <1>15, <1>16, <1>17, Zenon DEF IInv

(* mb_connect to an address nobody owns *)
LEMMA ConnectLazyKeeps ==
  ASSUME IInv, NEW c \in Callers, ConnectLazy(c)
  PROVE  IInv'
<1> DEFINE e == Fresh(FreeEps, eps)
           n == Endpoint(call[c].sock, FALSE, call[c].addr)
           p == [n EXCEPT !.lazy = TRUE]
           F == With(eps, e, p)
<1>1. /\ Finding(c) /\ Go(c, "made", <<e>>, None, None)
      /\ eps' = F /\ lazy' = Append(lazy, e)
      /\ sess' = sess /\ bound' = bound /\ pipes' = pipes /\ call' = call
  BY Zenon DEF ConnectLazy
<1>2. e \in EpIds /\ e \notin DOMAIN eps
  BY <1>1, NewEpId, Zenon
<1>3. /\ p \in EpRec /\ p.bind = FALSE /\ p.lazy = TRUE
      /\ p.sinproc = None /\ p.sinprocs = <<>>
  <2>1. /\ n \in EpRec /\ n.bind = FALSE /\ n.sinproc = None /\ n.sinprocs = <<>>
    <3>1. call[c].sock \in Socks /\ call[c].addr \in Addrs /\ FALSE \in BOOLEAN
      BY <1>1, FinderCall, Zenon
    <3> QED
      BY <3>1, EmptyList DEF Endpoint, EpRec
  <2> HIDE DEF n
  <2> QED
    BY <2>1, Zenon DEF EpRec
<1>4. Registry(eps, bound, lazy) /\ Typed(eps, sess, td) /\ Listing(eps, bound, td) /\ Keeping(eps, sess, td)
  BY Zenon DEF IInv
<1>5. /\ \A t \in Actors : e \notin Range(td[t].eps)
      /\ e \notin Range(bound) /\ e \notin Range(lazy)
  BY <1>2, NewEpUnlisted, Zenon
<1> HIDE DEF e, p
<1>6. DOMAIN F = DOMAIN eps \cup {e} /\ F[e] = p /\ \A f \in DOMAIN eps : F[f] = eps[f]
  <2>1. Gains(eps, F, e, p)
    BY WithPoint, Zenon
  <2> HIDE DEF F
  <2> QED
    BY <1>2, <2>1, Zenon DEF Gains
<1> HIDE DEF F
<1>7. Typed(F, sess, td)
  BY <1>2, <1>3, <1>4, <1>6, Zenon DEF Typed
<1>8. lazy' \in Seq(EpIds) /\ IsInjective(lazy') /\ Range(lazy') = Range(lazy) \cup {e}
  BY <1>1, <1>2, <1>4, <1>5, AppendList, Zenon DEF Registry
<1>9. Registry(F, bound, lazy')
  <2>1. /\ bound \in Seq(EpIds) /\ IsInjective(bound)
        /\ \A f \in Range(bound) : f \in DOMAIN eps /\ eps[f].bind
        /\ \A f \in Range(lazy) : f \in DOMAIN eps /\ ~eps[f].bind
        /\ \A f \in DOMAIN eps : eps[f].lazy <=> f \in Range(lazy)
    BY <1>4, Zenon DEF Registry
  <2>2. \A f \in Range(bound) : f \in DOMAIN F /\ F[f].bind
    BY <1>6, <2>1, Zenon
  <2>3. \A f \in Range(lazy') : f \in DOMAIN F /\ ~F[f].bind
    BY <1>3, <1>6, <1>8, <2>1, Zenon
  <2>4. \A f \in DOMAIN F : F[f].lazy <=> f \in Range(lazy')
    <3> SUFFICES ASSUME NEW f \in DOMAIN F PROVE F[f].lazy <=> f \in Range(lazy')
      BY Zenon
    <3>1. CASE f = e
      BY <1>3, <1>6, <1>8, <3>1, Zenon
    <3>2. CASE f # e
      BY <1>6, <1>8, <2>1, <3>2, Zenon
    <3> QED
      BY <3>1, <3>2, Zenon
  <2> QED
    BY <1>8, <2>1, <2>2, <2>3, <2>4, Zenon DEF Registry
<1>10. DOMAIN eps \subseteq DOMAIN F /\ td \in [Actors -> TdRec]
  BY <1>4, <1>6, Zenon DEF Typed
<1>11. Listing(F, bound, td)
  <2>1. \A f \in DOMAIN eps : F[f].sock = eps[f].sock /\ F[f].bind = eps[f].bind
    BY <1>6, Zenon
  <2> QED
    BY <1>4, <1>10, <2>1, ListingSame, Zenon
<1>12. Keeping(F, sess, td)
  <2>1. \A f \in DOMAIN eps : F[f].sinproc = eps[f].sinproc /\ F[f].sinprocs = eps[f].sinprocs
    BY <1>6, Zenon
  <2>2. \A f \in DOMAIN F \ DOMAIN eps : F[f].sinproc = None /\ F[f].sinprocs = <<>>
    BY <1>3, <1>6, Zenon
  <2> QED
    BY <1>4, <1>10, <2>1, <2>2, KeepingSame, Zenon
<1>13. /\ Typed(F, sess, td') /\ Listing(F, bound, td') /\ Keeping(F, sess, td')
       /\ Divided(F, td') /\ \A Q : Recall(Q, td) => Recall(Q, td')
  <2>1. Divided(eps, td) /\ Go(c, "made", <<e>>, None, None)
    BY <1>1, Zenon DEF IInv, e
  <2>2. c \in Actors /\ c \notin Socks /\ td[c].eps = <<>>
    BY <1>1, FinderCall, Zenon
  <2> QED
    BY <1>2, <1>5, <1>6, <1>7, <1>11, <1>12, <2>1, <2>2, EpMade, Zenon
<1>14. Pairing(F, sess, pipes) /\ Recall(sess, td')
  <2>1. \A x \in DOMAIN sess : F[sess[x].ep].sock = eps[sess[x].ep].sock
    BY <1>4, <1>6, Zenon DEF Keeping
  <2> QED
    BY <1>13, <2>1, PairingSame, Zenon DEF IInv
<1>15. DOMAIN pipes = Socks /\ Calls(call)
  BY Zenon DEF IInv
<1> QED
  BY <1>1, <1>9, <1>13, <1>14, <1>15, Zenon DEF IInv

-----------------------------------------------------------------------------
(* What the operations on sessions change *)

(* The parts of a world that the invariant speaks of. *)
IsWorld(w, e, x, p) == w.eps = e /\ w.sess = x /\ w.pipes = p

(* WorldOf makes one of its parts. *)
LEMMA WorldFields ==
  ASSUME NEW e, NEW x, NEW p, NEW t
  PROVE  IsWorld(WorldOf(e, x, p, t), e, x, p)
  BY DEF WorldOf, IsWorld

(* mb_pipebase_stop and mb_pipebase_cancel differ in what they count. *)
LEMMA StopFields ==
  ASSUME NEW w, NEW x
  PROVE  /\ IsWorld(mb_pipebase_stop(w, x), w.eps, [w.sess EXCEPT ![x].state = "IDLE"],
                    [w.pipes EXCEPT ![SockOf(w, x)] = Erased(@, x)])
         /\ IsWorld(mb_pipebase_cancel(w, x), w.eps, [w.sess EXCEPT ![x].state = "IDLE"],
                    [w.pipes EXCEPT ![SockOf(w, x)] = Erased(@, x)])
<1> DEFINE r == mb_sock_pipe_rm(w, x)
           Q == [w.pipes EXCEPT ![SockOf(w, x)] = Erased(@, x)]
           C == [w.sess EXCEPT ![x].state = "IDLE"]
           j == [r.stat EXCEPT ![SockOf(w, x)].current = @ - 1, ![SockOf(w, x)].broken = @ + 1]
           k == [r.stat EXCEPT ![SockOf(w, x)].current = @ - 1, ![SockOf(w, x)][Kind(w, x)] = @ - 1]
<1>1. r = WorldOf(w.eps, C, Q, w.stat)
  BY Zenon DEF mb_sock_pipe_rm
<1>2. /\ mb_pipebase_stop(w, x) = WorldOf(r.eps, r.sess, r.pipes, j)
      /\ mb_pipebase_cancel(w, x) = WorldOf(r.eps, r.sess, r.pipes, k)
  BY Zenon DEF mb_pipebase_stop, mb_pipebase_cancel
<1> HIDE DEF r, Q, C, j, k
<1>3. IsWorld(r, w.eps, C, Q)
  BY <1>1, WorldFields, Zenon
<1>4. /\ IsWorld(mb_pipebase_stop(w, x), r.eps, r.sess, r.pipes)
      /\ IsWorld(mb_pipebase_cancel(w, x), r.eps, r.sess, r.pipes)
  BY <1>2, WorldFields, Zenon
<1> QED
  BY <1>3, <1>4, Zenon DEF IsWorld, Q, C

(* mb_pipebase_start: the session is active and in the list, or failed. *)
LEMMA StartFields ==
  ASSUME NEW w, NEW x, NEW oom
  PROVE  /\ mb_pipebase_start(w, x, oom).rc = "OK" =>
              IsWorld(mb_pipebase_start(w, x, oom).w, [w.eps EXCEPT ![w.sess[x].ep].err = FALSE],
                      [w.sess EXCEPT ![x].state = "ACTIVE"],
                      [w.pipes EXCEPT ![SockOf(w, x)] = Append(@, x)])
         /\ mb_pipebase_start(w, x, oom).rc # "OK" =>
              IsWorld(mb_pipebase_start(w, x, oom).w, [w.eps EXCEPT ![w.sess[x].ep].err = TRUE],
                      [w.sess EXCEPT ![x].state = "FAILED"], w.pipes)
<1> DEFINE s == SockOf(w, x)
           rc == mb_sock_pipe_add(w, x, oom)
           c == mb_ep_set_error(w, w.sess[x].ep, rc # "OK")
           A == [w.sess EXCEPT ![x].state = "ACTIVE"]
           B == [w.sess EXCEPT ![x].state = "FAILED"]
           Q == [w.pipes EXCEPT ![s] = Append(@, x)]
           j == [c.stat EXCEPT ![s].current = @ + 1, ![s][Kind(w, x)] = @ + 1]
           v == IF rc = "OK" THEN WorldOf(c.eps, A, Q, j) ELSE WorldOf(c.eps, B, w.pipes, c.stat)
           r == mb_pipebase_start(w, x, oom)
<1>1. r = [rc |-> rc, w |-> v]
  BY Zenon DEF mb_pipebase_start
<1>2. /\ rc = "OK" => c.eps = [w.eps EXCEPT ![w.sess[x].ep].err = FALSE]
      /\ rc # "OK" => c.eps = [w.eps EXCEPT ![w.sess[x].ep].err = TRUE]
  BY Zenon DEF mb_ep_set_error, WorldOf
<1> HIDE DEF rc, c, A, B, Q, j, r
<1>3. /\ rc = "OK" => IsWorld(v, c.eps, A, Q)
      /\ rc # "OK" => IsWorld(v, c.eps, B, w.pipes)
  BY WorldFields, Zenon
<1> HIDE DEF v
<1>4. r.rc = rc /\ r.w = v
  BY <1>1
<1> QED
  BY <1>2, <1>3, <1>4, Zenon DEF IsWorld, r, A, B, Q

(* Two sessions that point at each other, and that no longer do. *)
LEMMA LinkFields ==
  ASSUME NEW w, NEW x, NEW y
  PROVE  /\ IsWorld(Linked(w, x, y), w.eps, SetPeer(SetPeer(w.sess, x, y), y, x), w.pipes)
         /\ IsWorld(Unlinked(w, x, y), w.eps, SetPeer(SetPeer(w.sess, x, None), y, None), w.pipes)
  BY WorldFields, Zenon DEF Linked, Unlinked

(* A session. *)
R(e, p, st) == [ep |-> e, peer |-> p, state |-> st]

(* mb_sinproc_create and mb_sinproc_term *)
LEMMA CreateFields ==
  ASSUME NEW w, NEW x, NEW e
  PROVE  /\ IsWorld(mb_sinproc_create(w, x, e), w.eps, With(w.sess, x, R(e, None, "IDLE")), w.pipes)
         /\ IsWorld(mb_sinproc_term(w, x), w.eps, Drop(w.sess, x),
                    [s \in Socks |-> Erased(w.pipes[s], x)])
  BY WorldFields, Zenon DEF mb_sinproc_create, mb_sinproc_term, R

(* S is B but for two sessions. *)
Two(B, S, x, y, p, q) ==
  /\ DOMAIN S = DOMAIN B \cup {x, y} /\ S[x] = p /\ S[y] = q
  /\ \A z \in DOMAIN B : z # x /\ z # y => S[z] = B[z]

(* Which of the two comes first does not matter. *)
LEMMA TwoFlip ==
  ASSUME NEW B, NEW S, NEW x, NEW y, NEW p, NEW q, Two(B, S, x, y, p, q)
  PROVE  Two(B, S, y, x, q, p)
  BY Zenon DEF Two

(* A change of one of them. *)
LEMMA TwoSet ==
  ASSUME NEW B, NEW S, NEW x, NEW y, x # y, NEW e, NEW p, NEW st, NEW q,
         Two(B, S, x, y, R(e, p, st), q), NEW v
  PROVE  /\ Two(B, SetPeer(S, x, v), x, y, R(e, v, st), q)
         /\ Two(B, [S EXCEPT ![x].state = v], x, y, R(e, p, v), q)
<1>1. SetPeer(S, x, v) = [S EXCEPT ![x] = [S[x] EXCEPT !.peer = v]]
  BY Zenon DEF SetPeer
<1>2. [S EXCEPT ![x].state = v] = [S EXCEPT ![x] = [S[x] EXCEPT !.state = v]]
  BY Zenon
<1>3. [S[x] EXCEPT !.peer = v] = R(e, v, st) /\ [S[x] EXCEPT !.state = v] = R(e, p, v)
  BY DEF Two, R
<1>4. ASSUME NEW r PROVE Two(B, [S EXCEPT ![x] = r], x, y, r, q)
  BY Zenon DEF Two
<1> QED
  BY <1>1, <1>2, <1>3, <1>4, Zenon

(* The lists of pipes. *)
Lists(P) == DOMAIN P = Socks /\ \A u \in Socks : P[u] \in Seq(SessIds) /\ IsInjective(P[u])
Plus(P, Q, x, s) == \A u \in Socks : Range(Q[u]) = IF u = s THEN Range(P[u]) \cup {x} ELSE Range(P[u])
Minus(P, Q, x, s) == \A u \in Socks : Range(Q[u]) = IF u = s THEN Range(P[u]) \ {x} ELSE Range(P[u])

(* A pipe added. *)
LEMMA ListsPlus ==
  ASSUME NEW P, Lists(P), NEW s \in Socks, NEW x \in SessIds, x \notin Range(P[s])
  PROVE  /\ Lists([P EXCEPT ![s] = Append(@, x)])
         /\ Plus(P, [P EXCEPT ![s] = Append(@, x)], x, s)
<1> DEFINE l == Append(P[s], x)
           Q == [P EXCEPT ![s] = l]
<1>1. l \in Seq(SessIds) /\ IsInjective(l) /\ Range(l) = Range(P[s]) \cup {x}
  BY AppendList, Zenon DEF Lists
<1> HIDE DEF l
<1>2. DOMAIN Q = Socks /\ Q[s] = l /\ \A u \in Socks : u # s => Q[u] = P[u]
  BY Zenon DEF Lists
<1> HIDE DEF Q
<1>3. Lists(Q)
  BY <1>1, <1>2, Zenon DEF Lists
<1>4. Plus(P, Q, x, s)
  BY <1>1, <1>2, Zenon DEF Plus
<1> QED
  BY <1>3, <1>4, Zenon DEF Q, l

(* A pipe removed. *)
LEMMA ListsMinus ==
  ASSUME NEW P, Lists(P), NEW s \in Socks, NEW x
  PROVE  /\ Lists([P EXCEPT ![s] = Erased(@, x)])
         /\ Minus(P, [P EXCEPT ![s] = Erased(@, x)], x, s)
<1> DEFINE l == Erased(P[s], x)
           Q == [P EXCEPT ![s] = l]
<1>1. l \in Seq(SessIds) /\ IsInjective(l) /\ Range(l) = Range(P[s]) \ {x}
  BY ErasedList, Zenon DEF Lists
<1> HIDE DEF l
<1>2. DOMAIN Q = Socks /\ Q[s] = l /\ \A u \in Socks : u # s => Q[u] = P[u]
  BY Zenon DEF Lists
<1> HIDE DEF Q
<1>3. Lists(Q)
  BY <1>1, <1>2, Zenon DEF Lists
<1>4. Minus(P, Q, x, s)
  BY <1>1, <1>2, Zenon DEF Minus
<1> QED
  BY <1>3, <1>4, Zenon DEF Q, l

(* Q is P without x, whichever list it is in. *)
Without(P, Q, x) == Lists(Q) /\ \A u \in Socks : Range(Q[u]) = Range(P[u]) \ {x}

(* A pipe removed wherever it is. *)
LEMMA ListsErased ==
  ASSUME NEW P, Lists(P), NEW x
  PROVE  Without(P, [u \in Socks |-> Erased(P[u], x)], x)
<1> DEFINE Q == [u \in Socks |-> Erased(P[u], x)]
<1>1. DOMAIN Q = Socks /\ \A u \in Socks : Q[u] = Erased(P[u], x)
  BY Zenon
<1> HIDE DEF Q
<1>2. \A u \in Socks : Q[u] \in Seq(SessIds) /\ IsInjective(Q[u]) /\ Range(Q[u]) = Range(P[u]) \ {x}
  <2> SUFFICES ASSUME NEW u \in Socks
               PROVE  Q[u] \in Seq(SessIds) /\ IsInjective(Q[u]) /\ Range(Q[u]) = Range(P[u]) \ {x}
    BY Zenon
  <2>1. P[u] \in Seq(SessIds) /\ IsInjective(P[u])
    BY Zenon DEF Lists
  <2>2. /\ Erased(P[u], x) \in Seq(SessIds) /\ IsInjective(Erased(P[u], x))
        /\ Range(Erased(P[u], x)) = Range(P[u]) \ {x}
    BY <2>1, ErasedList, Zenon
  <2> QED
    BY <1>1, <2>2, Zenon
<1> QED
  BY <1>1, <1>2, Zenon DEF Without, Lists, Q

-----------------------------------------------------------------------------
(* The steps that stop and free a session *)

(* Sessions with the endpoints they had. *)
SameOwners(S, Q) ==
  DOMAIN Q = DOMAIN S /\ \A z \in DOMAIN S : Q[z] \in SessRec /\ Q[z].ep = S[z].ep

(* What the invariant says of sessions' endpoints carries over to them. *)
LEMMA OwnersSame ==
  ASSUME NEW E, NEW S, NEW Q, NEW T, Typed(E, S, T), Keeping(E, S, T), SameOwners(S, Q)
  PROVE  Typed(E, Q, T) /\ Keeping(E, Q, T)
<1>1. Typed(E, Q, T)
  BY Zenon DEF Typed, SameOwners
<1>2. \A x \in DOMAIN Q : Q[x].ep \in DOMAIN E /\ x \in Kept(E[Q[x].ep])
  BY Zenon DEF Keeping, SameOwners
<1>3. \A e \in DOMAIN E : \A x \in Kept(E[e]) : x \in DOMAIN Q /\ Q[x].ep = e
  BY Zenon DEF Keeping, SameOwners
<1> QED
  BY <1>1, <1>2, <1>3, Zenon DEF Keeping

(* The endpoints of sessions stay as states and peers change. *)
LEMMA OwnersSet ==
  ASSUME NEW S, NEW Q, SameOwners(S, Q), NEW x
  PROVE  SameOwners(S, [Q EXCEPT ![x].state = "IDLE"]) /\ SameOwners(S, SetPeer(Q, x, None))
<1>1. ASSUME NEW z \in DOMAIN S
      PROVE  /\ [Q EXCEPT ![x].state = "IDLE"][z] \in SessRec
             /\ [Q EXCEPT ![x].state = "IDLE"][z].ep = S[z].ep
             /\ [Q EXCEPT ![x].peer = None][z] \in SessRec
             /\ [Q EXCEPT ![x].peer = None][z].ep = S[z].ep
  <2>1. Q[z] \in SessRec /\ Q[z].ep = S[z].ep /\ z \in DOMAIN Q
    BY Zenon DEF SameOwners
  <2> QED
    BY <2>1 DEF SessRec
<1>2. DOMAIN [Q EXCEPT ![x].state = "IDLE"] = DOMAIN S /\ DOMAIN [Q EXCEPT ![x].peer = None] = DOMAIN S
  BY Zenon DEF SameOwners
<1> QED
  BY <1>1, <1>2, Zenon DEF SameOwners, SetPeer

(* mb_sinproc_stop changes states and peers, whoever the peer is. *)
LEMMA StopOwners ==
  ASSUME NEW w, NEW S, SameOwners(S, w.sess), NEW x, NEW p
  PROVE  /\ SameOwners(S, mb_sinproc_stop(w, x, p).sess)
         /\ DOMAIN mb_sinproc_stop(w, x, p).pipes = DOMAIN w.pipes
<1>1. ASSUME NEW v, SameOwners(S, v.sess), NEW z
      PROVE  SameOwners(S, StopIfActive(v, z).sess) /\ DOMAIN StopIfActive(v, z).pipes = DOMAIN v.pipes
  <2>1. CASE StopIfActive(v, z) = v
    BY <1>1, <2>1, Zenon
  <2>2. CASE StopIfActive(v, z) = mb_pipebase_stop(v, z)
    <3>1. IsWorld(mb_pipebase_stop(v, z), v.eps, [v.sess EXCEPT ![z].state = "IDLE"],
                  [v.pipes EXCEPT ![SockOf(v, z)] = Erased(@, z)])
      BY StopFields, Zenon
    <3>2. SameOwners(S, [v.sess EXCEPT ![z].state = "IDLE"])
      BY <1>1, OwnersSet, Zenon
    <3> QED
      BY <2>2, <3>1, <3>2, Zenon DEF IsWorld
  <2> QED
    BY <2>1, <2>2, Zenon DEF StopIfActive
<1> DEFINE a == StopIfActive(w, x)
           b == StopIfActive(a, p)
<1>2. SameOwners(S, a.sess) /\ DOMAIN a.pipes = DOMAIN w.pipes
  BY <1>1, Zenon
<1> HIDE DEF a
<1>3. SameOwners(S, b.sess) /\ DOMAIN b.pipes = DOMAIN w.pipes
  BY <1>1, <1>2, Zenon
<1> HIDE DEF b
<1>4. SameOwners(S, Unlinked(b, x, p).sess) /\ DOMAIN Unlinked(b, x, p).pipes = DOMAIN w.pipes
  <2>1. IsWorld(Unlinked(b, x, p), b.eps, SetPeer(SetPeer(b.sess, x, None), p, None), b.pipes)
    BY LinkFields, Zenon
  <2>2. SameOwners(S, SetPeer(b.sess, x, None))
    BY <1>3, OwnersSet, Zenon
  <2>3. SameOwners(S, SetPeer(SetPeer(b.sess, x, None), p, None))
    BY <2>2, OwnersSet, Zenon
  <2> QED
    BY <1>3, <2>1, <2>3, Zenon DEF IsWorld
<1>5. mb_sinproc_stop(w, x, p) = IF p = None THEN a ELSE Unlinked(b, x, p)
  BY Zenon DEF mb_sinproc_stop, a, b
<1> QED
  BY <1>2, <1>4, <1>5, Zenon

(* A session without a peer is not active and stops without a change. *)
LEMMA StopSingle ==
  ASSUME NEW w, NEW x, w.sess[x].state # "ACTIVE"
  PROVE  mb_sinproc_stop(w, x, None) = w
  BY Zenon DEF mb_sinproc_stop, StopIfActive

(* The world v is w, where x and p are q and r. *)
Untouched(w, v, x, p, q, r) == Two(w.sess, v.sess, x, p, q, r) /\ v.pipes = w.pipes

(* Two sessions that another teardown has parted stop without a change. *)
LEMMA StopParted ==
  ASSUME NEW w, NEW x \in DOMAIN w.sess, NEW p \in DOMAIN w.sess, x # p, p # None,
         NEW e, NEW f, NEW a, NEW b, a # "ACTIVE", b # "ACTIVE",
         w.sess[x] = R(e, None, a), w.sess[p] = R(f, None, b)
  PROVE  Untouched(w, mb_sinproc_stop(w, x, p), x, p, R(e, None, a), R(f, None, b))
<1> DEFINE B == w.sess
           S1 == SetPeer(B, x, None)
           S2 == SetPeer(S1, p, None)
           v == Unlinked(w, x, p)
<1>1. w.sess[x].state # "ACTIVE" /\ w.sess[p].state # "ACTIVE"
  BY DEF R
<1>2. mb_sinproc_stop(w, x, p) = v
  BY <1>1, Zenon DEF mb_sinproc_stop, StopIfActive
<1>3. IsWorld(v, w.eps, S2, w.pipes)
  BY LinkFields, Zenon
<1>4. Two(B, B, x, p, R(e, None, a), R(f, None, b))
  BY Zenon DEF Two
<1> HIDE DEF B, v
<1>5. Two(B, S1, p, x, R(f, None, b), R(e, None, a))
  BY <1>4, TwoFlip, TwoSet, Zenon
<1> HIDE DEF S1
<1>6. Two(B, S2, x, p, R(e, None, a), R(f, None, b))
  BY <1>5, TwoFlip, TwoSet, Zenon
<1> QED
  BY <1>2, <1>3, <1>6, Zenon DEF IsWorld, Untouched, B

(* The world v is w after x and p, sessions of e and f, stopped. *)
StoppedPair(w, v, x, p, e, f) ==
  /\ Two(w.sess, v.sess, x, p, R(e, None, "IDLE"), R(f, None, "IDLE"))
  /\ v.pipes = [[w.pipes EXCEPT ![w.eps[e].sock] = Erased(@, x)]
                  EXCEPT ![w.eps[f].sock] = Erased(@, p)]

(* Two active peers stop together, and leave the lists of their sockets. *)
LEMMA StopPair ==
  ASSUME NEW w, NEW x \in DOMAIN w.sess, NEW p \in DOMAIN w.sess, x # p, p # None, NEW e, NEW f,
         w.sess[x] = R(e, p, "ACTIVE"), w.sess[p] = R(f, x, "ACTIVE")
  PROVE  StoppedPair(w, mb_sinproc_stop(w, x, p), x, p, e, f)
<1> DEFINE B == w.sess
           S1 == [B EXCEPT ![x].state = "IDLE"]
           S2 == [S1 EXCEPT ![p].state = "IDLE"]
           a == mb_pipebase_stop(w, x)
           b == mb_pipebase_stop(a, p)
           v == Unlinked(b, x, p)
<1>1. /\ R(e, p, "ACTIVE").state = "ACTIVE" /\ R(e, p, "ACTIVE").ep = e
      /\ R(f, x, "ACTIVE").state = "ACTIVE" /\ R(f, x, "ACTIVE").ep = f
  BY DEF R
<1>2. IsWorld(a, w.eps, S1, [w.pipes EXCEPT ![SockOf(w, x)] = Erased(@, x)])
  BY StopFields, Zenon
<1>3. IsWorld(b, a.eps, [a.sess EXCEPT ![p].state = "IDLE"],
              [a.pipes EXCEPT ![SockOf(a, p)] = Erased(@, p)])
  BY StopFields, Zenon
<1>4. IsWorld(v, b.eps, SetPeer(SetPeer(b.sess, x, None), p, None), b.pipes)
  BY LinkFields, Zenon
<1>5. Two(B, S1, x, p, R(e, p, "IDLE"), R(f, x, "ACTIVE"))
  <2>1. Two(B, B, x, p, R(e, p, "ACTIVE"), R(f, x, "ACTIVE"))
    BY Zenon DEF Two
  <2> QED
    BY <2>1, TwoSet, Zenon
<1>6. S1[p] = R(f, x, "ACTIVE")
  BY <1>5, Zenon DEF Two
<1> HIDE DEF a, b, v, S1, B
<1>7. mb_sinproc_stop(w, x, p) = v
  <2>1. StopIfActive(w, x) = a
    BY <1>1, Zenon DEF StopIfActive, a
  <2>2. StopIfActive(a, p) = b
    BY <1>1, <1>2, <1>6, Zenon DEF StopIfActive, IsWorld, b
  <2> QED
    BY <2>1, <2>2, Zenon DEF mb_sinproc_stop, v
<1>8. SockOf(w, x) = w.eps[e].sock /\ SockOf(a, p) = w.eps[f].sock
  BY <1>1, <1>2, <1>6, Zenon DEF SockOf, IsWorld
<1>9. Two(B, S2, p, x, R(f, x, "IDLE"), R(e, p, "IDLE"))
  BY <1>5, TwoFlip, TwoSet, Zenon
<1> HIDE DEF S2
<1>10. Two(B, SetPeer(S2, x, None), x, p, R(e, None, "IDLE"), R(f, x, "IDLE"))
  BY <1>9, TwoFlip, TwoSet, Zenon
<1>11. Two(B, SetPeer(SetPeer(S2, x, None), p, None), p, x, R(f, None, "IDLE"), R(e, None, "IDLE"))
  BY <1>10, TwoFlip, TwoSet, Zenon
<1>12. Two(B, SetPeer(SetPeer(S2, x, None), p, None), x, p, R(e, None, "IDLE"), R(f, None, "IDLE"))
  BY <1>11, TwoFlip, Zenon
<1> QED
  BY <1>2, <1>3, <1>4, <1>7, <1>8, <1>12, Zenon DEF IsWorld, StoppedPair, B, S2

(* The pairs that are left when two peers stop. *)
LEMMA PairCut ==
  ASSUME NEW E, NEW S, NEW P, Pairing(E, S, P), DOMAIN P = Socks,
         \A z \in DOMAIN S : z \in SessIds /\ S[z] \in SessRec,
         \A z \in DOMAIN S : E[S[z].ep].sock \in Socks,
         NEW x \in DOMAIN S, NEW p, p = S[x].peer, p # None,
         NEW Q, Two(S, Q, x, p, R(S[x].ep, None, "IDLE"), R(S[p].ep, None, "IDLE"))
  PROVE  Pairing(E, Q, [[P EXCEPT ![E[S[x].ep].sock] = Erased(@, x)]
                          EXCEPT ![E[S[p].ep].sock] = Erased(@, p)])
<1> DEFINE s == E[S[x].ep].sock
           t == E[S[p].ep].sock
           P1 == [P EXCEPT ![s] = Erased(@, x)]
           P2 == [P1 EXCEPT ![t] = Erased(@, p)]
<1>1. p \in DOMAIN S /\ p # x /\ S[p].peer = x
  BY Zenon DEF Pairing
<1>2. x \in SessIds /\ p \in SessIds /\ s \in Socks /\ t \in Socks /\ x # None
  BY <1>1, NoneIsNobody, Zenon
<1> HIDE DEF s, t
<1>3. Lists(P)
  BY Zenon DEF Pairing, Lists
<1>4. Lists(P1) /\ Minus(P, P1, x, s)
  BY <1>2, <1>3, ListsMinus, Zenon
<1> HIDE DEF P1
<1>5. Lists(P2) /\ Minus(P1, P2, p, t)
  BY <1>2, <1>4, ListsMinus, Zenon
<1> HIDE DEF P2
<1>6. /\ R(S[x].ep, None, "IDLE").peer = None /\ R(S[x].ep, None, "IDLE").state = "IDLE"
      /\ R(S[p].ep, None, "IDLE").peer = None /\ R(S[p].ep, None, "IDLE").state = "IDLE"
      /\ "IDLE" # "ACTIVE"
  BY DEF R
<1>7. /\ DOMAIN Q = DOMAIN S
      /\ Q[x].peer = None /\ Q[x].state # "ACTIVE" /\ Q[p].peer = None /\ Q[p].state # "ACTIVE"
      /\ \A z \in DOMAIN S : z # x /\ z # p => Q[z] = S[z]
  <2>1. DOMAIN S \cup {x, p} = DOMAIN S
    BY <1>1, Zenon
  <2> QED
    BY <1>6, <2>1, Zenon DEF Two
<1>8. ASSUME NEW u \in Socks, NEW z \in SessIds
      PROVE  z \in Range(P2[u]) <=> z \in DOMAIN Q /\ Q[z].peer # None /\ E[Q[z].ep].sock = u
  <2>1. z \in Range(P[u]) <=> z \in DOMAIN S /\ S[z].peer # None /\ E[S[z].ep].sock = u
    BY Zenon DEF Pairing
  <2>2. CASE z = x
    <3>1. z \in Range(P[u]) => u = s
      BY <2>1, <2>2, Zenon DEF s
    <3>2. z \notin Range(P1[u])
      BY <1>4, <2>2, <3>1, Zenon DEF Minus
    <3>3. z \notin Range(P2[u])
      BY <1>5, <3>2, Zenon DEF Minus
    <3> QED
      BY <1>7, <2>2, <3>3, Zenon
  <2>3. CASE z = p
    <3>1. z \in Range(P[u]) => u = t
      BY <2>1, <2>3, Zenon DEF t
    <3>2. z \in Range(P1[u]) => u = t
      BY <1>4, <3>1, Zenon DEF Minus
    <3>3. z \notin Range(P2[u])
      BY <1>5, <2>3, <3>2, Zenon DEF Minus
    <3> QED
      BY <1>7, <2>3, <3>3, Zenon
  <2>4. CASE z # x /\ z # p
    <3>1. z \in Range(P1[u]) <=> z \in Range(P[u])
      BY <1>4, <2>4, Zenon DEF Minus
    <3>2. z \in Range(P2[u]) <=> z \in Range(P1[u])
      BY <1>5, <2>4, Zenon DEF Minus
    <3> QED
      BY <1>7, <2>1, <2>4, <3>1, <3>2, Zenon
  <2> QED
    BY <2>2, <2>3, <2>4, Zenon
<1>9. ASSUME NEW z \in DOMAIN Q
      PROVE  /\ Q[z].state = "ACTIVE" <=> Q[z].peer # None
             /\ Q[z].peer # None => Q[z].peer \in DOMAIN Q /\ Q[z].peer # z /\ Q[Q[z].peer].peer = z
  <2>1. CASE z = x \/ z = p
    BY <1>7, <2>1, Zenon
  <2>2. CASE z # x /\ z # p
    <3>1. Q[z] = S[z] /\ z \in DOMAIN S
      BY <1>7, <2>2, Zenon
    <3>2. /\ S[z].state = "ACTIVE" <=> S[z].peer # None
          /\ S[z].peer # None => S[z].peer \in DOMAIN S /\ S[z].peer # z /\ S[S[z].peer].peer = z
      BY <3>1, Zenon DEF Pairing
    <3>3. S[z].peer # None => S[z].peer # x /\ S[z].peer # p
      BY <1>1, <2>2, <3>2, Zenon
    <3> QED
      BY <1>7, <3>1, <3>2, <3>3, Zenon
  <2> QED
    BY <2>1, <2>2, Zenon
<1>10. Pairing(E, Q, P2)
  BY <1>5, <1>8, <1>9, Zenon DEF Pairing, Lists
<1> QED
  BY <1>10, Zenon DEF P2, P1, s, t

(* The socket of a session. *)
LEMMA SessSock ==
  ASSUME IInv, NEW z \in DOMAIN sess
  PROVE  /\ z \in SessIds /\ sess[z] \in SessRec /\ sess[z].ep \in DOMAIN eps
         /\ sess[z] = R(sess[z].ep, sess[z].peer, sess[z].state)
         /\ eps[sess[z].ep].sock \in Socks
<1>1. z \in SessIds /\ sess[z] \in SessRec /\ sess[z].ep \in DOMAIN eps
  BY Zenon DEF IInv, Typed, Keeping
<1>2. sess[z] = R(sess[z].ep, sess[z].peer, sess[z].state)
  BY <1>1 DEF SessRec, R
<1>3. eps[sess[z].ep] \in EpRec
  BY <1>1, Zenon DEF IInv, Typed
<1>4. eps[sess[z].ep].sock \in Socks
  BY <1>3 DEF EpRec
<1> QED
  BY <1>1, <1>2, <1>4, Zenon

(* The session a teardown works on. *)
LEMMA CurSession ==
  ASSUME IInv, NEW s \in Actors, td[s].pc \in {"stop", "free"}
  PROVE  /\ td[s].eps # <<>> /\ EpOf(s) \in DOMAIN eps /\ EpOf(s) \in Range(td[s].eps)
         /\ td[s].cur \in Kept(eps[EpOf(s)]) /\ td[s].cur \in DOMAIN sess
         /\ sess[td[s].cur].ep = EpOf(s)
         /\ eps[EpOf(s)].bind => EpOf(s) \notin Range(bound)
<1>1. td[s].pc \in {"sess", "stop", "free"}
  BY Zenon
<1>2. td[s].eps # <<>> /\ (eps[EpOf(s)].bind => EpOf(s) \notin Range(bound))
  BY <1>1, Zenon DEF IInv, Listing, EpOf
<1>3. EpOf(s) \in DOMAIN eps /\ EpOf(s) \in Range(td[s].eps)
  BY <1>2, HeadListed, Zenon
<1>4. td[s].cur \in Kept(eps[EpOf(s)])
  BY Zenon DEF IInv, Keeping, EpOf
<1>5. td[s].cur \in DOMAIN sess /\ sess[td[s].cur].ep = EpOf(s)
  BY <1>3, <1>4, Zenon DEF IInv, Keeping
<1> QED
  BY <1>2, <1>3, <1>4, <1>5, Zenon

(* Two teardowns work on different endpoints and sessions. *)
LEMMA CurApart ==
  ASSUME IInv, NEW s \in Actors, NEW t \in Actors, t # s,
         td[s].pc \in {"stop", "free"}, td[t].pc \in {"stop", "free"}
  PROVE  EpOf(t) # EpOf(s) /\ td[t].cur # td[s].cur
<1>1. EpOf(s) \in Range(td[s].eps) /\ sess[td[s].cur].ep = EpOf(s)
  BY CurSession, Zenon
<1>2. EpOf(t) \in Range(td[t].eps) /\ sess[td[t].cur].ep = EpOf(t)
  BY CurSession, Zenon
<1>3. EpOf(t) # EpOf(s)
  BY <1>1, <1>2, Zenon DEF IInv, Divided
<1> QED
  BY <1>1, <1>2, <1>3, Zenon

(* In Q the sessions x and p of S have no peer; the others are as before. *)
CutOff(S, Q, x, p) ==
  /\ DOMAIN Q = DOMAIN S /\ Q[x].peer = None /\ (p \in DOMAIN S => Q[p].peer = None)
  /\ \A z \in DOMAIN S : z # x /\ z # p => Q[z] = S[z]

(* What another teardown recalls is still so when x and p part. *)
LEMMA RecallCut ==
  ASSUME NEW E, NEW S, NEW P, Pairing(E, S, P), None \notin DOMAIN S,
         NEW x \in DOMAIN S, NEW p, Remembers(S, x, p), NEW Q, CutOff(S, Q, x, p),
         NEW z \in DOMAIN S, z # x, NEW q, Remembers(S, z, q)
  PROVE  Remembers(Q, z, q)
<1>1. S[z].peer = None => Q[z].peer = None
  BY Zenon DEF CutOff
<1>2. q = None => Q[z].peer = None
  BY <1>1, Zenon DEF Remembers
<1>3. ASSUME q \in DOMAIN S PROVE Q[z].peer = q \/ (Q[z].peer = None /\ Q[q].peer = None)
  <2>1. CASE S[z].peer = None /\ S[q].peer = None
    BY <1>1, <1>3, <2>1, Zenon DEF CutOff
  <2>2. CASE S[z].peer = q
    <3>1. CASE z # p
      BY <2>2, <3>1, Zenon DEF CutOff
    <3>2. CASE z = p
      <4>1. S[x].peer = p
        <5>1. S[x].peer = p \/ S[p].peer = None
          BY <3>2, Zenon DEF Remembers
        <5> QED
          BY <1>3, <2>2, <3>2, <5>1, Zenon
      <4>2. S[p].peer = x
        BY <3>2, <4>1, Zenon DEF Pairing
      <4> QED
        BY <2>2, <3>2, <4>2, Zenon DEF CutOff
    <3> QED
      BY <3>1, <3>2, Zenon
  <2> QED
    BY <1>3, <2>1, <2>2, Zenon DEF Remembers
<1> QED
  BY <1>2, <1>3, Zenon DEF Remembers, CutOff

(* Pairs depend on what each session is. *)
LEMMA PairingLike ==
  ASSUME NEW E, NEW S, NEW Q, NEW P, Pairing(E, S, P),
         DOMAIN Q = DOMAIN S, \A z \in DOMAIN S : Q[z] = S[z]
  PROVE  Pairing(E, Q, P)
<1>1. ASSUME NEW s \in Socks, NEW x \in SessIds
      PROVE  x \in Range(P[s]) <=> x \in DOMAIN Q /\ Q[x].peer # None /\ E[Q[x].ep].sock = s
  <2>1. x \in Range(P[s]) <=> x \in DOMAIN S /\ S[x].peer # None /\ E[S[x].ep].sock = s
    BY Zenon DEF Pairing
  <2>2. CASE x \in DOMAIN S
    <3>1. Q[x] = S[x]
      BY <2>2, Zenon
    <3> QED
      BY <2>1, <2>2, <3>1, Zenon
  <2>3. CASE x \notin DOMAIN S
    BY <2>1, <2>3, Zenon
  <2> QED
    BY <2>2, <2>3, Zenon
<1>2. ASSUME NEW x \in DOMAIN Q
      PROVE  /\ Q[x].state = "ACTIVE" <=> Q[x].peer # None
             /\ Q[x].peer # None => Q[x].peer \in DOMAIN Q /\ Q[x].peer # x /\ Q[Q[x].peer].peer = x
  <2>1. Q[x] = S[x] /\ x \in DOMAIN S
    BY Zenon
  <2>2. /\ S[x].state = "ACTIVE" <=> S[x].peer # None
        /\ S[x].peer # None => S[x].peer \in DOMAIN S /\ S[x].peer # x /\ S[S[x].peer].peer = x
    BY <2>1, Zenon DEF Pairing
  <2>3. S[x].peer \in DOMAIN S => Q[S[x].peer] = S[S[x].peer]
    BY Zenon
  <2> QED
    BY <2>1, <2>2, <2>3, Zenon
<1> QED
  BY <1>1, <1>2, Zenon DEF Pairing

(* mb_sinproc_stop under the locks. *)
LEMMA SessStopKeeps ==
  ASSUME IInv, NEW s \in Actors, SessStop(s)
  PROVE  IInv'
<1> DEFINE l == td[s].eps
           x == td[s].cur
           p == td[s].peer
           w == mb_sinproc_stop(World, x, p)
<1>1. /\ td[s].pc = "stop" /\ sess' = w.sess /\ pipes' = w.pipes
      /\ Go(s, "free", l, x, None) /\ p \in DOMAIN sess \cup {None}
      /\ eps' = eps /\ bound' = bound /\ lazy' = lazy /\ call' = call
  BY Zenon DEF SessStop
<1>2. td[s].pc \in {"stop", "free"}
  BY <1>1
<1>3. /\ l # <<>> /\ x \in Kept(eps[Head(l)]) /\ x \in DOMAIN sess
      /\ eps[Head(l)].bind => Head(l) \notin Range(bound)
  BY <1>2, CurSession, Zenon DEF EpOf
<1>4. /\ td \in [Actors -> TdRec] /\ l \in Seq(EpIds) /\ IsInjective(l)
      /\ x \in SessIds \cup {None} /\ p \in SessIds \cup {None}
      /\ \A e \in Range(l) : e \in DOMAIN eps /\ Mine(s, eps[e])
  BY TdTyped, Zenon
<1>5. Typed(eps, sess, td) /\ Listing(eps, bound, td) /\ Keeping(eps, sess, td) /\ DOMAIN pipes = Socks
  BY Zenon DEF IInv
<1>6. IsWorld(World, eps, sess, pipes)
  BY WorldFields, Zenon DEF World
<1>7. SameOwners(sess, sess') /\ DOMAIN pipes' = Socks
  <2>1. SameOwners(sess, World.sess) /\ DOMAIN World.pipes = Socks
    BY <1>5, <1>6, Zenon DEF IsWorld, SameOwners, Typed
  <2> QED
    BY <1>1, <2>1, StopOwners, Zenon
<1> HIDE DEF l, x, p, w
<1>8. Typed(eps, sess', td) /\ Keeping(eps, sess', td)
  BY <1>5, <1>7, OwnersSame, Zenon
<1>9. Typed(eps, sess', td') /\ Listing(eps, bound, td') /\ Keeping(eps, sess', td')
  BY <1>1, <1>3, <1>4, <1>5, <1>8, GoKeeps, Zenon DEF Pcs
<1>10. /\ td'[s].pc = "free" /\ td'[s].cur = x /\ \A t \in Actors : t # s => td'[t] = td[t]
  BY <1>1, <1>4, GoFields, Zenon DEF Pcs
<1>11. Pairing(eps, sess, pipes) /\ Recall(sess, td) /\ Remembers(sess, x, p)
  BY <1>1, Zenon DEF IInv, Recall, x, p
<1>12. Pairing(eps, sess', pipes') /\ CutOff(sess, sess', x, p)
  <2>1. Pairing(eps, sess, pipes)
    BY <1>11, Zenon
  <2>2. CASE p = None
    <3>1. sess[x].peer = None /\ sess[x].state # "ACTIVE"
      BY <1>3, <1>11, <2>2, Zenon DEF Pairing, Remembers
    <3>2. mb_sinproc_stop(World, x, None) = World
      BY <1>6, <3>1, StopSingle, Zenon DEF IsWorld
    <3>3. sess' = sess /\ pipes' = pipes
      BY <1>1, <1>6, <2>2, <3>2, Zenon DEF IsWorld, w
    <3>4. p \notin DOMAIN sess
      BY <2>2, SessSock, NoneIsNobody, Zenon
    <3> QED
      BY <2>1, <3>1, <3>3, <3>4, Zenon DEF CutOff
  <2>3. CASE p # None /\ sess[x].peer = None /\ sess[p].peer = None
    <3> DEFINE e == sess[x].ep
               f == sess[p].ep
               a == sess[x].state
               b == sess[p].state
    <3>1. p \in DOMAIN sess /\ p # x
      BY <1>1, <1>11, <2>3, Zenon DEF Remembers
    <3>2. a # "ACTIVE" /\ b # "ACTIVE"
      BY <1>3, <2>1, <2>3, <3>1, Zenon DEF Pairing
    <3>3. sess[x] = R(e, None, a) /\ sess[p] = R(f, None, b)
      BY <1>3, <2>3, <3>1, SessSock, Zenon
    <3> HIDE DEF e, f, a, b
    <3>4. /\ World.sess[x] = R(e, None, a) /\ World.sess[p] = R(f, None, b)
          /\ x \in DOMAIN World.sess /\ p \in DOMAIN World.sess
      BY <1>3, <1>6, <3>1, <3>3, Zenon DEF IsWorld
    <3>5. Untouched(World, w, x, p, R(e, None, a), R(f, None, b))
      BY <2>3, <3>1, <3>2, <3>4, StopParted, Zenon DEF w
    <3>6. Two(sess, sess', x, p, sess[x], sess[p]) /\ pipes' = pipes
      BY <1>1, <1>6, <3>3, <3>5, Zenon DEF IsWorld, Untouched
    <3>7. DOMAIN sess' = DOMAIN sess /\ \A z \in DOMAIN sess : sess'[z] = sess[z]
      <4>1. DOMAIN sess \cup {x, p} = DOMAIN sess
        BY <1>3, <3>1, Zenon
      <4> QED
        BY <3>6, <4>1, Zenon DEF Two
    <3> QED
      BY <1>3, <2>1, <2>3, <3>6, <3>7, PairingLike, Zenon DEF CutOff
  <2>4. CASE p # None /\ sess[x].peer = p
    <3> DEFINE e == sess[x].ep
               f == sess[p].ep
               P2 == [[pipes EXCEPT ![eps[e].sock] = Erased(@, x)]
                        EXCEPT ![eps[f].sock] = Erased(@, p)]
    <3>1. p \in DOMAIN sess /\ p # x /\ sess[p].peer = x /\ sess[x].state = "ACTIVE" /\ x # None
      <4>1. x \in SessIds
        BY <1>3, SessSock, Zenon
      <4> QED
        BY <1>3, <2>1, <2>4, <4>1, NoneIsNobody, Zenon DEF Pairing
    <3>2. sess[p].state = "ACTIVE"
      BY <2>1, <3>1, Zenon DEF Pairing
    <3>3. sess[x] = R(e, p, "ACTIVE") /\ sess[p] = R(f, x, "ACTIVE")
      BY <1>3, <2>4, <3>1, <3>2, SessSock, Zenon
    <3> HIDE DEF e, f
    <3>4. /\ World.sess[x] = R(e, p, "ACTIVE") /\ World.sess[p] = R(f, x, "ACTIVE")
          /\ x \in DOMAIN World.sess /\ p \in DOMAIN World.sess
      BY <1>3, <1>6, <3>1, <3>3, Zenon DEF IsWorld
    <3>5. StoppedPair(World, w, x, p, e, f)
      BY <2>4, <3>1, <3>4, StopPair, Zenon DEF w
    <3>6. Two(sess, sess', x, p, R(e, None, "IDLE"), R(f, None, "IDLE")) /\ pipes' = P2
      BY <1>1, <1>6, <3>5, Zenon DEF IsWorld, StoppedPair
    <3>7. Pairing(eps, sess', P2)
      <4>1. \A z \in DOMAIN sess : z \in SessIds /\ sess[z] \in SessRec
        BY SessSock, Zenon
      <4>2. \A z \in DOMAIN sess : eps[sess[z].ep].sock \in Socks
        BY SessSock, Zenon
      <4> QED
        BY <1>3, <1>5, <2>1, <2>4, <3>6, <4>1, <4>2, PairCut, Zenon DEF e, f
    <3>8. R(e, None, "IDLE").peer = None /\ R(f, None, "IDLE").peer = None
      BY DEF R
    <3>9. CutOff(sess, sess', x, p)
      BY <1>7, <3>6, <3>8, Zenon DEF Two, CutOff, SameOwners
    <3> QED
      BY <3>6, <3>7, <3>9, Zenon
  <2>5. p # None => sess[x].peer = p \/ (sess[x].peer = None /\ sess[p].peer = None)
    BY <1>1, <1>11, Zenon DEF Remembers
  <2> QED
    BY <2>2, <2>3, <2>4, <2>5, Zenon
<1>13. Recall(sess', td')
  <2> SUFFICES ASSUME NEW t \in Actors
               PROVE  /\ td'[t].pc = "stop" => Remembers(sess', td'[t].cur, td'[t].peer)
                      /\ td'[t].pc = "free" => sess'[td'[t].cur].peer = None
    BY Zenon DEF Recall
  <2>1. CASE t = s
    BY <1>10, <1>12, <2>1 DEF CutOff
  <2>2. CASE t # s
    <3>1. td'[t] = td[t]
      BY <1>10, <2>2, Zenon
    <3>2. ASSUME td[t].pc \in {"stop", "free"} PROVE td[t].cur \in DOMAIN sess /\ td[t].cur # x
      BY <1>2, <2>2, <3>2, CurSession, CurApart, Zenon DEF x
    <3>3. ASSUME td[t].pc = "stop" PROVE Remembers(sess', td[t].cur, td[t].peer)
      <4>1. Remembers(sess, td[t].cur, td[t].peer)
        BY <1>11, <3>3, Zenon DEF Recall
      <4>2. None \notin DOMAIN sess
        BY SessSock, NoneIsNobody, Zenon
      <4>3. td[t].cur \in DOMAIN sess /\ td[t].cur # x
        BY <3>2, <3>3, Zenon
      <4> QED
        BY <1>3, <1>11, <1>12, <4>1, <4>2, <4>3, RecallCut, Zenon
    <3>4. ASSUME td[t].pc = "free" PROVE sess'[td[t].cur].peer = None
      <4>1. sess[td[t].cur].peer = None
        BY <1>11, <3>4, Zenon DEF Recall
      <4>2. td[t].cur \in DOMAIN sess /\ td[t].cur # x
        BY <3>2, <3>4, Zenon
      <4> QED
        BY <1>12, <4>1, <4>2, Zenon DEF CutOff
    <3> QED
      BY <3>1, <3>3, <3>4, Zenon
  <2> QED
    BY <2>1, <2>2, Zenon
<1>14. Divided(eps, td')
  <2>1. Divided(eps, td) /\ Range(l) = Range(td[s].eps)
    BY Zenon DEF IInv, l
  <2> QED
    BY <1>1, <1>4, <2>1, GoDivided, Zenon DEF Pcs
<1>15. Registry(eps, bound, lazy) /\ Calls(call)
  BY Zenon DEF IInv
<1> QED
  BY <1>1, <1>7, <1>9, <1>12, <1>13, <1>14, <1>15, Zenon DEF IInv

(* In F the endpoint e has one session less than in E. *)
GaveUp(E, F, e, x) ==
  /\ DOMAIN F = DOMAIN E /\ \A f \in DOMAIN E : f # e => F[f] = E[f]
  /\ F[e] \in EpRec
  /\ F[e].sock = E[e].sock /\ F[e].bind = E[e].bind
  /\ F[e].addr = E[e].addr /\ F[e].lazy = E[e].lazy
  /\ IsInjective(F[e].sinprocs) /\ F[e].sinproc \notin Range(F[e].sinprocs)
  /\ Kept(F[e]) = Kept(E[e]) \ {x}

(* An endpoint that gives up a session. *)
LEMMA DisownedFields ==
  ASSUME NEW E, NEW e \in DOMAIN E, E[e] \in EpRec, NEW x \in SessIds,
         IsInjective(E[e].sinprocs), E[e].sinproc \notin Range(E[e].sinprocs)
  PROVE  GaveUp(E, Disowned(E, e, x), e, x)
<1> DEFINE k == IF E[e].sinproc = x THEN None ELSE E[e].sinproc
           m == Erased(E[e].sinprocs, x)
           r == [E[e] EXCEPT !.sinproc = k]
           q == [r EXCEPT !.sinprocs = m]
           G == [E EXCEPT ![e] = r]
           F == [G EXCEPT ![e] = q]
<1>1. E[e].sinprocs \in Seq(SessIds) /\ E[e].sinproc \in SessIds \cup {None}
  BY DEF EpRec
<1>2. m \in Seq(SessIds) /\ IsInjective(m) /\ Range(m) = Range(E[e].sinprocs) \ {x}
  BY <1>1, ErasedList, Zenon
<1>3. k \in SessIds \cup {None}
  BY <1>1, Zenon
<1>4. r \in EpRec /\ r.sinprocs = E[e].sinprocs
  BY <1>3 DEF EpRec
<1>5. Disowned(E, e, x) = F
  <2>1. [E EXCEPT ![e].sinproc = IF @ = x THEN None ELSE @] = G
    BY Zenon
  <2>2. G[e] = r
    BY Zenon
  <2> HIDE DEF G, r
  <2>3. [G EXCEPT ![e].sinprocs = Erased(@, x)] = F
    BY <1>4, <2>2, Zenon
  <2> QED
    BY <2>1, <2>3, Zenon DEF Disowned
<1> HIDE DEF k, m
<1>6. /\ q \in EpRec /\ q.sock = E[e].sock /\ q.bind = E[e].bind /\ q.addr = E[e].addr
      /\ q.lazy = E[e].lazy /\ q.sinproc = k /\ q.sinprocs = m
  BY <1>2, <1>3, Zenon DEF EpRec
<1> HIDE DEF q, r
<1>7. DOMAIN F = DOMAIN E /\ F[e] = q /\ \A f \in DOMAIN E : f # e => F[f] = E[f]
  BY Zenon
<1> HIDE DEF F, G
<1>8. k \notin Range(m)
  <2>1. None \notin Range(m)
    <3>1. Range(m) \subseteq SessIds
      BY <1>2 DEF Range
    <3> QED
      BY <3>1, NoneIsNobody, Zenon
  <2> QED
    BY <1>2, <2>1, Zenon DEF k
<1>9. Kept(q) = Kept(E[e]) \ {x}
  <2>1. ({k} \ {None}) = ({E[e].sinproc} \ {None}) \ {x}
    BY NoneIsNobody, Zenon DEF k
  <2> QED
    BY <1>2, <1>6, <2>1, Zenon DEF Kept
<1> QED
  BY <1>2, <1>5, <1>6, <1>7, <1>8, <1>9, Zenon DEF GaveUp

(* mb_sinproc_term and the list it was in. *)
LEMMA SessFreeKeeps ==
  ASSUME IInv, NEW s \in Actors, SessFree(s)
  PROVE  IInv'
<1> DEFINE l == td[s].eps
           e == EpOf(s)
           x == td[s].cur
           F == Disowned(eps, e, x)
           w == mb_sinproc_term(World, x)
<1>1. /\ td[s].pc = "free" /\ sess' = w.sess /\ pipes' = w.pipes /\ eps' = F
      /\ Go(s, "sess", l, None, None) /\ bound' = bound /\ lazy' = lazy /\ call' = call
  BY Zenon DEF SessFree
<1>2. td[s].pc \in {"stop", "free"}
  BY <1>1
<1>3. /\ l # <<>> /\ e \in DOMAIN eps /\ x \in Kept(eps[e]) /\ x \in DOMAIN sess
      /\ sess[x].ep = e /\ (eps[e].bind => e \notin Range(bound))
  BY <1>2, CurSession, Zenon
<1>4. /\ td \in [Actors -> TdRec] /\ l \in Seq(EpIds) /\ IsInjective(l)
      /\ \A f \in Range(l) : f \in DOMAIN eps /\ Mine(s, eps[f])
  BY TdTyped, Zenon
<1>5. Typed(eps, sess, td) /\ Listing(eps, bound, td) /\ Keeping(eps, sess, td) /\ DOMAIN pipes = Socks
      /\ Registry(eps, bound, lazy)
  BY Zenon DEF IInv
<1>6. IsWorld(w, eps, Drop(sess, x), [u \in Socks |-> Erased(pipes[u], x)])
  <2>1. IsWorld(World, eps, sess, pipes)
    BY WorldFields, Zenon DEF World
  <2>2. IsWorld(w, World.eps, Drop(World.sess, x), [u \in Socks |-> Erased(World.pipes[u], x)])
    BY CreateFields, Zenon
  <2> QED
    BY <2>1, <2>2, Zenon DEF IsWorld
<1>7. sess' = Drop(sess, x) /\ pipes' = [u \in Socks |-> Erased(pipes[u], x)]
  BY <1>1, <1>6, Zenon DEF IsWorld
<1>10. e = Head(l)
  BY Zenon DEF EpOf
<1>11. x \in SessIds
  BY <1>3, SessSock, Zenon
<1> HIDE DEF w, F, l, x, e
<1>8. DOMAIN sess' = DOMAIN sess \ {x} /\ \A z \in DOMAIN sess : z # x => sess'[z] = sess[z]
  <2>1. /\ DOMAIN Drop(sess, x) = DOMAIN sess \ {x}
        /\ \A z \in DOMAIN sess : z # x => Drop(sess, x)[z] = sess[z]
    BY DropPoint, Zenon
  <2> QED
    BY <1>7, <2>1, Zenon
<1>9. DOMAIN pipes' = Socks
  BY <1>7, Zenon
<1>12. /\ DOMAIN F = DOMAIN eps /\ \A f \in DOMAIN eps : f # e => F[f] = eps[f]
       /\ F[e] \in EpRec
       /\ F[e].sock = eps[e].sock /\ F[e].bind = eps[e].bind
       /\ F[e].addr = eps[e].addr /\ F[e].lazy = eps[e].lazy
       /\ IsInjective(F[e].sinprocs) /\ F[e].sinproc \notin Range(F[e].sinprocs)
       /\ Kept(F[e]) = Kept(eps[e]) \ {x}
  <2>1. eps[e] \in EpRec /\ IsInjective(eps[e].sinprocs) /\ eps[e].sinproc \notin Range(eps[e].sinprocs)
    BY <1>3, <1>5, Zenon DEF Typed, Keeping
  <2>2. GaveUp(eps, F, e, x)
    BY <1>3, <1>11, <2>1, DisownedFields, Zenon DEF F
  <2> QED
    BY <2>2, Zenon DEF GaveUp
<1>13. \A f \in DOMAIN eps :
         F[f].sock = eps[f].sock /\ F[f].bind = eps[f].bind /\ F[f].addr = eps[f].addr /\ F[f].lazy = eps[f].lazy
  <2> SUFFICES ASSUME NEW f \in DOMAIN eps
               PROVE  /\ F[f].sock = eps[f].sock /\ F[f].bind = eps[f].bind
                      /\ F[f].addr = eps[f].addr /\ F[f].lazy = eps[f].lazy
    BY Zenon
  <2>1. CASE f = e
    BY <1>12, <2>1, Zenon
  <2>2. CASE f # e
    BY <1>12, <2>2, Zenon
  <2> QED
    BY <2>1, <2>2, Zenon
<1>14. Registry(F, bound, lazy)
  <2>1. SameEps(eps, F)
    BY <1>12, <1>13, Zenon DEF SameEps
  <2>2. \A f \in DOMAIN F \ DOMAIN eps : ~F[f].lazy
    BY <1>12, Zenon
  <2> QED
    BY <1>5, <2>1, <2>2, RegistrySame, Zenon
<1>15. Typed(F, sess', td)
  BY <1>5, <1>8, <1>12, Zenon DEF Typed
<1>16. Listing(F, bound, td)
  <2>1. DOMAIN eps \subseteq DOMAIN F /\ \A f \in DOMAIN eps : f \in Range(bound) => f \in Range(bound)
    BY <1>12, Zenon
  <2>2. \A f \in DOMAIN eps : F[f].sock = eps[f].sock /\ F[f].bind = eps[f].bind
    BY <1>13, Zenon
  <2> QED
    BY <1>4, <1>5, <2>1, <2>2, ListingSame, Zenon
<1>17. \A z \in DOMAIN sess' : sess'[z].ep \in DOMAIN F /\ z \in Kept(F[sess'[z].ep])
  <2> SUFFICES ASSUME NEW z \in DOMAIN sess' PROVE sess'[z].ep \in DOMAIN F /\ z \in Kept(F[sess'[z].ep])
    BY Zenon
  <2>1. z \in DOMAIN sess /\ z # x /\ sess'[z] = sess[z]
    BY <1>8, Zenon
  <2>2. sess[z].ep \in DOMAIN eps /\ z \in Kept(eps[sess[z].ep])
    BY <1>5, <2>1, Zenon DEF Keeping
  <2> QED
    BY <1>12, <2>1, <2>2, Zenon
<1>18. \A f \in DOMAIN F :
         /\ IsInjective(F[f].sinprocs) /\ F[f].sinproc \notin Range(F[f].sinprocs)
         /\ \A z \in Kept(F[f]) : z \in DOMAIN sess' /\ sess'[z].ep = f
  <2> SUFFICES ASSUME NEW f \in DOMAIN F
               PROVE  /\ IsInjective(F[f].sinprocs) /\ F[f].sinproc \notin Range(F[f].sinprocs)
                      /\ \A z \in Kept(F[f]) : z \in DOMAIN sess' /\ sess'[z].ep = f
    BY Zenon
  <2>1. /\ f \in DOMAIN eps
        /\ IsInjective(eps[f].sinprocs) /\ eps[f].sinproc \notin Range(eps[f].sinprocs)
        /\ \A z \in Kept(eps[f]) : z \in DOMAIN sess /\ sess[z].ep = f
    BY <1>5, <1>12, Zenon DEF Keeping
  <2>2. IsInjective(F[f].sinprocs) /\ F[f].sinproc \notin Range(F[f].sinprocs)
    BY <1>12, <2>1, Zenon
  <2>3. ASSUME NEW z \in Kept(F[f]) PROVE z \in Kept(eps[f]) /\ z # x
    <3>1. CASE f = e
      BY <1>12, <2>3, <3>1, Zenon
    <3>2. CASE f # e
      BY <1>3, <1>12, <2>1, <2>3, <3>2, Zenon
    <3> QED
      BY <3>1, <3>2, Zenon
  <2> QED
    BY <1>8, <2>1, <2>2, <2>3, Zenon
<1>19. \A t \in Actors : t # s => (td[t].pc \in {"stop", "free"} => td[t].cur \in Kept(F[Head(td[t].eps)]))
  <2> SUFFICES ASSUME NEW t \in Actors, t # s, td[t].pc \in {"stop", "free"}
               PROVE  td[t].cur \in Kept(F[Head(td[t].eps)])
    BY Zenon
  <2>1. EpOf(t) \in DOMAIN eps /\ td[t].cur \in Kept(eps[EpOf(t)])
    BY CurSession, Zenon
  <2>2. EpOf(t) # e
    BY <1>2, CurApart, Zenon DEF e
  <2> QED
    BY <1>12, <2>1, <2>2, Zenon DEF EpOf
<1>20. /\ td' \in [Actors -> TdRec] /\ td'[s].pc = "sess" /\ td'[s].eps = l
       /\ \A t \in Actors : t # s => td'[t] = td[t]
  BY <1>1, <1>4, GoFields, Zenon DEF Pcs
<1>21. Typed(F, sess', td')
  BY <1>15, <1>20, Zenon DEF Typed
<1>22. Listing(F, bound, td')
  <2> SUFFICES ASSUME NEW t \in Actors
               PROVE  /\ IsInjective(td'[t].eps)
                      /\ \A f \in Range(td'[t].eps) : f \in DOMAIN F /\ Mine(t, F[f])
                      /\ td'[t].pc \in {"sess", "stop", "free"} =>
                           /\ td'[t].eps # <<>>
                           /\ F[Head(td'[t].eps)].bind => Head(td'[t].eps) \notin Range(bound)
                      /\ td'[t].pc = "made" =>
                           td'[t].eps # <<>> /\ Range(td'[t].eps) = {Head(td'[t].eps)}
    BY Zenon DEF Listing
  <2>1. CASE t = s
    <3>1. \A f \in Range(l) : f \in DOMAIN F /\ Mine(s, F[f])
      BY <1>4, <1>12, <1>13, Zenon DEF Mine
    <3>2. F[Head(l)].bind => Head(l) \notin Range(bound)
      BY <1>3, <1>10, <1>12, Zenon
    <3> QED
      BY <1>3, <1>4, <1>20, <2>1, <3>1, <3>2, Zenon
  <2>2. CASE t # s
    BY <1>16, <1>20, <2>2, Zenon DEF Listing
  <2> QED
    BY <2>1, <2>2, Zenon
<1>23. Keeping(F, sess', td')
  <2>1. \A t \in Actors : td'[t].pc \in {"stop", "free"} => td'[t].cur \in Kept(F[Head(td'[t].eps)])
    <3> SUFFICES ASSUME NEW t \in Actors, td'[t].pc \in {"stop", "free"}
                 PROVE  td'[t].cur \in Kept(F[Head(td'[t].eps)])
      BY Zenon
    <3>1. t # s
      BY <1>20
    <3> QED
      BY <1>19, <1>20, <3>1, Zenon
  <2> QED
    BY <1>17, <1>18, <2>1, Zenon DEF Keeping
<1>24. Pairing(F, sess', pipes') /\ Recall(sess', td')
  <2>1. Pairing(eps, sess, pipes) /\ Recall(sess, td)
    BY Zenon DEF IInv
  <2>2. sess[x].peer = None
    BY <1>1, <2>1, Zenon DEF Recall, x
  <2>3. /\ Lists(pipes') /\ \A u \in Socks : Range(pipes'[u]) = Range(pipes[u]) \ {x}
    <3>1. Lists(pipes)
      BY <1>5, <2>1, Zenon DEF Pairing, Lists
    <3>2. Without(pipes, pipes', x)
      BY <1>7, <3>1, ListsErased, Zenon
    <3> QED
      BY <3>2, Zenon DEF Without
  <2>4. ASSUME NEW u \in Socks, NEW z \in SessIds
        PROVE  z \in Range(pipes'[u]) <=> z \in DOMAIN sess' /\ sess'[z].peer # None /\ F[sess'[z].ep].sock = u
    <3>1. z \in Range(pipes[u]) <=> z \in DOMAIN sess /\ sess[z].peer # None /\ eps[sess[z].ep].sock = u
      BY <2>1, Zenon DEF Pairing
    <3>2. CASE z = x
      BY <1>8, <2>3, <3>2, Zenon
    <3>3. CASE z # x
      <4>1. z \in DOMAIN sess => sess'[z] = sess[z] /\ F[sess[z].ep].sock = eps[sess[z].ep].sock
        BY <1>5, <1>8, <1>13, <3>3, Zenon DEF Keeping
      <4> QED
        BY <1>8, <2>3, <3>1, <3>3, <4>1, Zenon
    <3> QED
      BY <3>2, <3>3, Zenon
  <2>5. ASSUME NEW z \in DOMAIN sess'
        PROVE  /\ sess'[z].state = "ACTIVE" <=> sess'[z].peer # None
               /\ sess'[z].peer # None =>
                    sess'[z].peer \in DOMAIN sess' /\ sess'[z].peer # z /\ sess'[sess'[z].peer].peer = z
    <3>1. z \in DOMAIN sess /\ z # x /\ sess'[z] = sess[z]
      BY <1>8, Zenon
    <3>2. z \in SessIds /\ z # None
      BY <3>1, SessSock, NoneIsNobody, Zenon
    <3>3. /\ sess[z].state = "ACTIVE" <=> sess[z].peer # None
          /\ sess[z].peer # None =>
               sess[z].peer \in DOMAIN sess /\ sess[z].peer # z /\ sess[sess[z].peer].peer = z
      BY <2>1, <3>1, Zenon DEF Pairing
    <3>4. sess[z].peer # None => sess[z].peer # x
      BY <2>2, <3>2, <3>3, Zenon
    <3> QED
      BY <1>8, <3>1, <3>3, <3>4, Zenon
  <2>6. Pairing(F, sess', pipes')
    BY <2>3, <2>4, <2>5, Zenon DEF Pairing, Lists
  <2>7. ASSUME NEW t \in Actors
        PROVE  /\ td'[t].pc = "stop" => Remembers(sess', td'[t].cur, td'[t].peer)
               /\ td'[t].pc = "free" => sess'[td'[t].cur].peer = None
    <3>1. CASE t = s
      BY <1>20, <3>1
    <3>2. CASE t # s
      <4>1. td'[t] = td[t]
        BY <1>20, <3>2, Zenon
      <4>2. td[t].pc \in {"stop", "free"} => sess'[td[t].cur] = sess[td[t].cur]
        BY <1>2, <1>8, <3>2, CurSession, CurApart, Zenon DEF x
      <4>3. \A p \in DOMAIN sess' : p \in DOMAIN sess /\ sess'[p] = sess[p]
        BY <1>8, Zenon
      <4>4. /\ td[t].pc = "stop" => Remembers(sess, td[t].cur, td[t].peer)
            /\ td[t].pc = "free" => sess[td[t].cur].peer = None
        BY <2>1, Zenon DEF Recall
      <4> QED
        BY <4>1, <4>2, <4>3, <4>4, Zenon DEF Remembers
    <3> QED
      BY <3>1, <3>2, Zenon
  <2>8. Recall(sess', td')
    BY <2>7, Zenon DEF Recall
  <2> QED
    BY <2>6, <2>8, Zenon
<1>25. Divided(F, td') /\ Calls(call)
  <2>1. Divided(eps, td) /\ Range(l) = Range(td[s].eps)
    BY Zenon DEF IInv, l
  <2> QED
    BY <1>1, <1>4, <1>12, <2>1, GoDivided, Zenon DEF Pcs, IInv
<1> QED
  BY <1>1, <1>9, <1>14, <1>21, <1>22, <1>23, <1>24, <1>25, Zenon DEF IInv

-----------------------------------------------------------------------------
(* mb_connect to an address that is owned *)

(* Endpoints that differ in sessions and error only. *)
Like(q, r) == q.sock = r.sock /\ q.bind = r.bind /\ q.addr = r.addr /\ q.lazy = r.lazy

(* F is the endpoints with a connector e added, whose session is k, and     *)
(* with L as the sessions the owner o has accepted.                         *)
Grown(F, s, a, e, k, o, L) ==
  /\ DOMAIN F = DOMAIN eps \cup {e} /\ \A f \in DOMAIN F : F[f] \in EpRec
  /\ Like(F[e], Endpoint(s, FALSE, a))
  /\ F[e].sinproc = k /\ F[e].sinprocs = <<>> /\ F[o].sinprocs = L
  /\ \A f \in DOMAIN eps : Like(F[f], eps[f]) /\ F[f].sinproc = eps[f].sinproc
  /\ \A f \in DOMAIN eps : f # o => F[f].sinprocs = eps[f].sinprocs

(* Like is transitive. *)
LEMMA LikeLike ==
  ASSUME NEW p, NEW q, NEW r, Like(p, q), Like(q, r)
  PROVE  Like(p, r)
  BY Zenon DEF Like

(* The connector as it is created. *)
LEMMA GrownFirst ==
  ASSUME IInv, NEW s \in Socks, NEW a \in Addrs, NEW e \in EpIds, e \notin DOMAIN eps,
         NEW o \in DOMAIN eps
  PROVE  Grown(With(eps, e, Endpoint(s, FALSE, a)), s, a, e, None, o, eps[o].sinprocs)
<1> DEFINE p == Endpoint(s, FALSE, a)
           F == With(eps, e, p)
<1>1. p \in EpRec /\ p.sinproc = None /\ p.sinprocs = <<>>
  BY EmptyList DEF Endpoint, EpRec
<1> HIDE DEF p
<1>2. Gains(eps, F, e, p)
  BY WithPoint, Zenon
<1> HIDE DEF F
<1>3. DOMAIN F = DOMAIN eps \cup {e} /\ F[e] = p /\ \A f \in DOMAIN eps : F[f] = eps[f]
  BY <1>2, Zenon DEF Gains
<1>6. \A f \in DOMAIN eps : eps[f] \in EpRec
  BY Zenon DEF IInv, Typed
<1>7. Like(F[e], Endpoint(s, FALSE, a))
  BY <1>3, Zenon DEF Like, p
<1>8. \A f \in DOMAIN eps : Like(F[f], eps[f]) /\ F[f].sinproc = eps[f].sinproc
  BY <1>3, Zenon DEF Like
<1>9. Grown(F, s, a, e, None, o, eps[o].sinprocs)
  BY <1>1, <1>3, <1>6, <1>7, <1>8, Zenon DEF Grown
<1> QED
  BY <1>9, Zenon DEF F, p

(* Errors do not matter. *)
LEMMA GrownError ==
  ASSUME NEW F, NEW s, NEW a, NEW e, NEW k, NEW o, NEW L, Grown(F, s, a, e, k, o, L),
         o \in DOMAIN eps, NEW g \in DOMAIN F, NEW b \in BOOLEAN
  PROVE  Grown([F EXCEPT ![g].err = b], s, a, e, k, o, L)
<1> DEFINE G == [F EXCEPT ![g].err = b]
<1>1. \A f \in DOMAIN F : F[f] \in EpRec
  BY Zenon DEF Grown
<1>2. DOMAIN G = DOMAIN F
  BY Zenon
<1>3. ASSUME NEW f \in DOMAIN F
      PROVE  G[f] \in EpRec /\ Like(G[f], F[f]) /\ G[f].sinproc = F[f].sinproc /\ G[f].sinprocs = F[f].sinprocs
  BY <1>1 DEF EpRec, Like
<1> HIDE DEF G
<1>4. e \in DOMAIN F /\ o \in DOMAIN F /\ \A f \in DOMAIN eps : f \in DOMAIN F
  BY Zenon DEF Grown
<1>5. Like(G[e], Endpoint(s, FALSE, a)) /\ G[e].sinproc = k /\ G[e].sinprocs = <<>> /\ G[o].sinprocs = L
  BY <1>3, <1>4, LikeLike, Zenon DEF Grown
<1>6. \A f \in DOMAIN eps : Like(G[f], eps[f]) /\ G[f].sinproc = eps[f].sinproc
  BY <1>3, <1>4, LikeLike, Zenon DEF Grown
<1>7. \A f \in DOMAIN eps : f # o => G[f].sinprocs = eps[f].sinprocs
  BY <1>3, <1>4, Zenon DEF Grown
<1>8. DOMAIN G = DOMAIN eps \cup {e} /\ \A f \in DOMAIN G : G[f] \in EpRec
  BY <1>2, <1>3, Zenon DEF Grown
<1>9. Grown(G, s, a, e, k, o, L)
  BY <1>5, <1>6, <1>7, <1>8, Zenon DEF Grown
<1> QED
  BY <1>9, Zenon DEF G

(* The sessions of the two endpoints. *)
LEMMA GrownSet ==
  ASSUME NEW F, NEW s, NEW a, NEW e, NEW k, NEW o, NEW L, Grown(F, s, a, e, k, o, L),
         o \in DOMAIN eps, e \notin DOMAIN eps, NEW j \in SessIds \cup {None}, NEW M \in Seq(SessIds)
  PROVE  Grown([[F EXCEPT ![e].sinproc = j] EXCEPT ![o].sinprocs = M], s, a, e, j, o, M)
<1> DEFINE D == [F EXCEPT ![e].sinproc = j]
           G == [D EXCEPT ![o].sinprocs = M]
<1>1. \A f \in DOMAIN F : F[f] \in EpRec
  BY Zenon DEF Grown
<1>2. e \in DOMAIN F /\ o \in DOMAIN F /\ o # e /\ \A f \in DOMAIN eps : f \in DOMAIN F /\ f # e
  BY Zenon DEF Grown
<1>3. DOMAIN D = DOMAIN F
  BY Zenon
<1>4. ASSUME NEW f \in DOMAIN F
      PROVE  /\ D[f] \in EpRec /\ Like(D[f], F[f]) /\ D[f].sinprocs = F[f].sinprocs
             /\ (f = e => D[f].sinproc = j) /\ (f # e => D[f].sinproc = F[f].sinproc)
  BY <1>1 DEF EpRec, Like
<1> HIDE DEF D
<1>5. DOMAIN G = DOMAIN F
  BY <1>3, Zenon
<1>6. ASSUME NEW f \in DOMAIN F
      PROVE  /\ G[f] \in EpRec /\ Like(G[f], D[f]) /\ G[f].sinproc = D[f].sinproc
             /\ (f = o => G[f].sinprocs = M) /\ (f # o => G[f].sinprocs = D[f].sinprocs)
  <2>1. D[f] \in EpRec
    BY <1>4, Zenon
  <2> QED
    BY <1>3, <2>1 DEF EpRec, Like
<1> HIDE DEF G
<1>7. ASSUME NEW f \in DOMAIN F PROVE Like(G[f], F[f])
  BY <1>4, <1>6, LikeLike, Zenon
<1>8. Like(G[e], Endpoint(s, FALSE, a)) /\ G[e].sinproc = j /\ G[e].sinprocs = <<>> /\ G[o].sinprocs = M
  <2>1. Like(G[e], Endpoint(s, FALSE, a))
    BY <1>2, <1>7, LikeLike, Zenon DEF Grown
  <2>2. G[e].sinproc = j /\ G[o].sinprocs = M
    BY <1>2, <1>4, <1>6, Zenon
  <2>3. G[e].sinprocs = D[e].sinprocs /\ D[e].sinprocs = F[e].sinprocs
    BY <1>2, <1>4, <1>6, Zenon
  <2> QED
    BY <2>1, <2>2, <2>3, Zenon DEF Grown
<1>9. \A f \in DOMAIN eps : Like(G[f], eps[f])
  BY <1>2, <1>7, LikeLike, Zenon DEF Grown
<1>10. \A f \in DOMAIN eps : G[f].sinproc = eps[f].sinproc
  <2>1. \A f \in DOMAIN eps : G[f].sinproc = D[f].sinproc /\ D[f].sinproc = F[f].sinproc
    BY <1>2, <1>4, <1>6, Zenon
  <2> QED
    BY <2>1, Zenon DEF Grown
<1>11. \A f \in DOMAIN eps : f # o => G[f].sinprocs = eps[f].sinprocs
  <2>1. \A f \in DOMAIN eps : f # o => G[f].sinprocs = D[f].sinprocs /\ D[f].sinprocs = F[f].sinprocs
    BY <1>2, <1>4, <1>6, Zenon
  <2> QED
    BY <2>1, Zenon DEF Grown
<1>12. DOMAIN G = DOMAIN eps \cup {e} /\ \A f \in DOMAIN G : G[f] \in EpRec
  BY <1>5, <1>6, Zenon DEF Grown
<1>13. Grown(G, s, a, e, j, o, M)
  BY <1>8, <1>9, <1>10, <1>11, <1>12, Zenon DEF Grown
<1> QED
  BY <1>13, Zenon DEF G, D

(* The endpoints with the sessions of a connection. *)
LEMMA GrownAdopted ==
  ASSUME NEW F, NEW s, NEW a, NEW e, NEW k, NEW o, NEW L \in Seq(SessIds), Grown(F, s, a, e, k, o, L),
         o \in DOMAIN eps, e \notin DOMAIN eps, NEW x \in SessIds, NEW y \in SessIds
  PROVE  Grown(Adopted(F, e, x, o, y), s, a, e, x, o, Append(L, y))
<1>1. o # e /\ o \in DOMAIN F /\ F[o].sinprocs = L
  BY Zenon DEF Grown
<1>2. [F EXCEPT ![e].sinproc = x][o] = F[o]
  BY <1>1, Zenon
<1>3. Adopted(F, e, x, o, y) = [[F EXCEPT ![e].sinproc = x] EXCEPT ![o].sinprocs = Append(L, y)]
  BY <1>1, <1>2, Zenon DEF Adopted
<1>4. Append(L, y) \in Seq(SessIds)
  OBVIOUS
<1> DEFINE M == Append(L, y)
<1> HIDE DEF M
<1>5. Grown([[F EXCEPT ![e].sinproc = x] EXCEPT ![o].sinprocs = M], s, a, e, x, o, M)
  <2>1. x \in SessIds \cup {None} /\ M \in Seq(SessIds)
    BY <1>4, Zenon DEF M
  <2> QED
    BY <2>1, GrownSet, Zenon
<1> QED
  BY <1>3, <1>5, Zenon DEF M

(* The endpoints without them again. *)
LEMMA GrownOrphaned ==
  ASSUME NEW F, NEW s, NEW a, NEW e, NEW k, NEW o, NEW L \in Seq(SessIds), NEW y \in SessIds,
         y \notin Range(L), Grown(F, s, a, e, k, o, Append(L, y)),
         o \in DOMAIN eps, e \notin DOMAIN eps
  PROVE  Grown(Orphaned(F, e, o, y), s, a, e, None, o, L)
<1>1. o # e /\ o \in DOMAIN F /\ F[o].sinprocs = Append(L, y)
  BY Zenon DEF Grown
<1>2. [F EXCEPT ![e].sinproc = None][o] = F[o]
  BY <1>1, Zenon
<1>3. Erased(Append(L, y), y) = L
  BY ErasedLast, Zenon
<1>4. Orphaned(F, e, o, y) = [[F EXCEPT ![e].sinproc = None] EXCEPT ![o].sinprocs = L]
  BY <1>1, <1>2, <1>3, Zenon DEF Orphaned
<1> DEFINE M == Append(L, y)
<1>5. Grown(F, s, a, e, k, o, M)
  BY Zenon
<1> HIDE DEF M
<1>6. Grown([[F EXCEPT ![e].sinproc = None] EXCEPT ![o].sinprocs = L], s, a, e, None, o, L)
  <2>1. None \in SessIds \cup {None}
    BY Zenon
  <2> QED
    BY <1>5, <2>1, GrownSet, Zenon
<1> QED
  BY <1>4, <1>6, Zenon

(* The sessions of a handshake do not touch the others. *)
Apart(S, x, y) == DOMAIN S = DOMAIN sess \cup {x, y} /\ \A z \in DOMAIN sess : S[z] = sess[z]

(* The lists of pipes P after a handshake of x was refused. *)
Refused(B, P, s, x) ==
  \/ P = B
  \/ P = [[B EXCEPT ![s] = Append(@, x)] EXCEPT ![s] = Erased(@, x)]

(* The outcome r of a handshake in w, of x with y, a session of o. *)
Shaken(w, r, s, e, o, x, y) ==
  /\ r.rc = "OK" =>
       /\ Two(sess, r.w.sess, x, y, R(e, y, "ACTIVE"), R(o, x, "ACTIVE"))
       /\ r.w.pipes = [[w.pipes EXCEPT ![s] = Append(@, x)] EXCEPT ![eps[o].sock] = Append(@, y)]
  /\ r.rc # "OK" => Apart(r.w.sess, x, y) /\ Refused(w.pipes, r.w.pipes, s, x)

(* mb_sinproc_connect *)
LEMMA Handshake ==
  ASSUME NEW w, NEW s \in Socks, NEW a, NEW e, NEW k, NEW o, NEW L, Grown(w.eps, s, a, e, k, o, L),
         o \in DOMAIN eps, e \notin DOMAIN eps,
         NEW x, NEW y, x # y, x \notin DOMAIN sess, y \notin DOMAIN sess,
         Two(sess, w.sess, x, y, R(e, None, "IDLE"), R(o, None, "IDLE")), NEW oom,
         NEW r, r = mb_sinproc_connect(w, x, y, oom)
  PROVE  Grown(r.w.eps, s, a, e, k, o, L) /\ Shaken(w, r, s, e, o, x, y)
<1> DEFINE v == Linked(w, x, y)
           c == mb_pipebase_start(v, x, oom = "self")
           d == mb_pipebase_start(c.w, y, oom = "peer")
           C == [v.sess EXCEPT ![x].state = "ACTIVE"]
           P1 == [v.pipes EXCEPT ![SockOf(v, x)] = Append(@, x)]
<1>1. IsWorld(v, w.eps, SetPeer(SetPeer(w.sess, x, y), y, x), w.pipes)
  BY LinkFields, Zenon
<1>2. Two(sess, v.sess, x, y, R(e, y, "IDLE"), R(o, x, "IDLE"))
  <2>1. Two(sess, SetPeer(w.sess, x, y), x, y, R(e, y, "IDLE"), R(o, None, "IDLE"))
    BY TwoSet, Zenon
  <2>2. Two(sess, SetPeer(w.sess, x, y), y, x, R(o, None, "IDLE"), R(e, y, "IDLE"))
    BY <2>1, TwoFlip, Zenon
  <2>3. Two(sess, SetPeer(SetPeer(w.sess, x, y), y, x), y, x, R(o, x, "IDLE"), R(e, y, "IDLE"))
    BY <2>2, TwoSet, Zenon
  <2> QED
    BY <1>1, <2>3, TwoFlip, Zenon DEF IsWorld
<1>3. /\ c.rc # "OK" => r = [rc |-> c.rc, w |-> Unlinked(c.w, x, y)]
      /\ c.rc = "OK" /\ d.rc # "OK" =>
           r = [rc |-> d.rc, w |-> mb_pipebase_cancel(Unlinked(d.w, x, y), x)]
      /\ c.rc = "OK" /\ d.rc = "OK" => r = d
  BY Zenon DEF mb_sinproc_connect
<1>4. /\ c.rc = "OK" => IsWorld(c.w, [v.eps EXCEPT ![v.sess[x].ep].err = FALSE], C, P1)
      /\ c.rc # "OK" => IsWorld(c.w, [v.eps EXCEPT ![v.sess[x].ep].err = TRUE],
                                [v.sess EXCEPT ![x].state = "FAILED"], v.pipes)
  BY StartFields, Zenon
<1>5. /\ d.rc = "OK" => IsWorld(d.w, [c.w.eps EXCEPT ![c.w.sess[y].ep].err = FALSE],
                                [c.w.sess EXCEPT ![y].state = "ACTIVE"],
                                [c.w.pipes EXCEPT ![SockOf(c.w, y)] = Append(@, y)])
      /\ d.rc # "OK" => IsWorld(d.w, [c.w.eps EXCEPT ![c.w.sess[y].ep].err = TRUE],
                                [c.w.sess EXCEPT ![y].state = "FAILED"], c.w.pipes)
  BY StartFields, Zenon
<1> HIDE DEF c, d, v
<1>6. v.eps = w.eps /\ v.pipes = w.pipes /\ v.sess[x].ep = e /\ SockOf(v, x) = s
  <2>1. v.eps = w.eps /\ v.pipes = w.pipes
    BY <1>1, Zenon DEF IsWorld
  <2>2. v.sess[x].ep = e
    BY <1>2 DEF Two, R
  <2>3. Endpoint(s, FALSE, a).sock = s
    BY DEF Endpoint
  <2>4. w.eps[e].sock = s
    BY <2>3, Zenon DEF Grown, Like
  <2> QED
    BY <2>1, <2>2, <2>4, Zenon DEF SockOf
<1>7. e \in DOMAIN w.eps /\ o \in DOMAIN w.eps /\ TRUE \in BOOLEAN /\ FALSE \in BOOLEAN
  BY Zenon DEF Grown
<1>8. CASE c.rc # "OK"
  <2> DEFINE B == [v.sess EXCEPT ![x].state = "FAILED"]
             G == [w.eps EXCEPT ![e].err = TRUE]
             u == Unlinked(c.w, x, y)
  <2>1. IsWorld(c.w, G, B, w.pipes)
    BY <1>4, <1>6, <1>8, Zenon
  <2>2. Grown(G, s, a, e, k, o, L)
    BY <1>7, GrownError, Zenon
  <2>3. Two(sess, B, x, y, R(e, y, "FAILED"), R(o, x, "IDLE"))
    BY <1>2, TwoSet, Zenon
  <2> HIDE DEF B, G
  <2>4. IsWorld(u, c.w.eps, SetPeer(SetPeer(c.w.sess, x, None), y, None), c.w.pipes)
    BY LinkFields, Zenon
  <2>5. Two(sess, SetPeer(B, x, None), x, y, R(e, None, "FAILED"), R(o, x, "IDLE"))
    BY <2>3, TwoSet, Zenon
  <2>6. Two(sess, SetPeer(B, x, None), y, x, R(o, x, "IDLE"), R(e, None, "FAILED"))
    BY <2>5, TwoFlip, Zenon
  <2>7. Two(sess, SetPeer(SetPeer(B, x, None), y, None), y, x, R(o, None, "IDLE"), R(e, None, "FAILED"))
    BY <2>6, TwoSet, Zenon
  <2> HIDE DEF u
  <2>8. r.rc # "OK" /\ r.w = u
    BY <1>3, <1>8 DEF u
  <2>9. u.eps = G /\ u.pipes = w.pipes /\ u.sess = SetPeer(SetPeer(B, x, None), y, None)
    BY <2>1, <2>4, Zenon DEF IsWorld
  <2>10. Apart(u.sess, x, y)
    BY <2>7, <2>9, Zenon DEF Two, Apart
  <2> QED
    BY <2>2, <2>8, <2>9, <2>10, Zenon DEF Shaken, Refused
<1>9. ASSUME c.rc = "OK"
      PROVE  /\ Grown(c.w.eps, s, a, e, k, o, L)
             /\ Two(sess, c.w.sess, y, x, R(o, x, "IDLE"), R(e, y, "ACTIVE"))
             /\ c.w.pipes = [w.pipes EXCEPT ![s] = Append(@, x)]
             /\ c.w.sess[y].ep = o /\ SockOf(c.w, y) = eps[o].sock
  <2> DEFINE G == [w.eps EXCEPT ![e].err = FALSE]
  <2>1. IsWorld(c.w, G, C, [w.pipes EXCEPT ![s] = Append(@, x)])
    BY <1>4, <1>6, <1>9, Zenon
  <2>2. Grown(G, s, a, e, k, o, L)
    BY <1>7, GrownError, Zenon
  <2>3. Two(sess, C, x, y, R(e, y, "ACTIVE"), R(o, x, "IDLE"))
    BY <1>2, TwoSet, Zenon
  <2> HIDE DEF C, G
  <2>4. Two(sess, C, y, x, R(o, x, "IDLE"), R(e, y, "ACTIVE"))
    BY <2>3, TwoFlip, Zenon
  <2>5. C[y].ep = o
    BY <2>4 DEF Two, R
  <2>6. c.w.eps = G /\ c.w.sess = C /\ c.w.pipes = [w.pipes EXCEPT ![s] = Append(@, x)]
    BY <2>1, Zenon DEF IsWorld
  <2>7. G[o].sock = eps[o].sock
    BY <2>2, Zenon DEF Grown, Like
  <2> QED
    BY <2>2, <2>4, <2>5, <2>6, <2>7, Zenon DEF SockOf
<1>10. CASE c.rc = "OK" /\ d.rc # "OK"
  <2> DEFINE G == [c.w.eps EXCEPT ![o].err = TRUE]
             B == [c.w.sess EXCEPT ![y].state = "FAILED"]
             u == Unlinked(d.w, x, y)
             S2 == SetPeer(SetPeer(B, x, None), y, None)
             P2 == [w.pipes EXCEPT ![s] = Append(@, x)]
             q == mb_pipebase_cancel(u, x)
  <2>1. IsWorld(d.w, G, B, P2)
    BY <1>5, <1>9, <1>10, Zenon
  <2>2. o \in DOMAIN c.w.eps
    BY <1>9, <1>10, Zenon DEF Grown
  <2>3. Grown(G, s, a, e, k, o, L)
    BY <1>7, <1>9, <1>10, <2>2, GrownError, Zenon
  <2>4. Two(sess, B, y, x, R(o, x, "FAILED"), R(e, y, "ACTIVE"))
    BY <1>9, <1>10, TwoSet, Zenon
  <2> HIDE DEF B, G, P2
  <2>5. IsWorld(u, d.w.eps, SetPeer(SetPeer(d.w.sess, x, None), y, None), d.w.pipes)
    BY LinkFields, Zenon
  <2>6. Two(sess, B, x, y, R(e, y, "ACTIVE"), R(o, x, "FAILED"))
    BY <2>4, TwoFlip, Zenon
  <2>7. Two(sess, SetPeer(B, x, None), x, y, R(e, None, "ACTIVE"), R(o, x, "FAILED"))
    BY <2>6, TwoSet, Zenon
  <2>8. Two(sess, SetPeer(B, x, None), y, x, R(o, x, "FAILED"), R(e, None, "ACTIVE"))
    BY <2>7, TwoFlip, Zenon
  <2>9. Two(sess, S2, y, x, R(o, None, "FAILED"), R(e, None, "ACTIVE"))
    BY <2>8, TwoSet, Zenon
  <2>10. Two(sess, S2, x, y, R(e, None, "ACTIVE"), R(o, None, "FAILED"))
    BY <2>9, TwoFlip, Zenon
  <2>11. u.eps = G /\ u.sess = S2 /\ u.pipes = P2
    BY <2>1, <2>5, Zenon DEF IsWorld
  <2> HIDE DEF S2, u
  <2>12. Two(sess, [S2 EXCEPT ![x].state = "IDLE"], x, y, R(e, None, "IDLE"), R(o, None, "FAILED"))
    BY <2>10, TwoSet, Zenon
  <2>13. SockOf(u, x) = s
    <3>1. S2[x].ep = e
      BY <2>10 DEF Two, R
    <3>2. Endpoint(s, FALSE, a).sock = s
      BY DEF Endpoint
    <3>3. G[e].sock = s
      BY <2>3, <3>2, Zenon DEF Grown, Like
    <3> QED
      BY <2>11, <3>1, <3>3, Zenon DEF SockOf
  <2>14. IsWorld(q, u.eps, [u.sess EXCEPT ![x].state = "IDLE"], [u.pipes EXCEPT ![SockOf(u, x)] = Erased(@, x)])
    BY StopFields, Zenon
  <2> HIDE DEF q
  <2>15. q.eps = G /\ q.sess = [S2 EXCEPT ![x].state = "IDLE"] /\ q.pipes = [P2 EXCEPT ![s] = Erased(@, x)]
    BY <2>11, <2>13, <2>14, Zenon DEF IsWorld
  <2>16. r.rc # "OK" /\ r.w = q
    BY <1>3, <1>10 DEF q, u
  <2>17. Apart(q.sess, x, y)
    BY <2>12, <2>15, Zenon DEF Two, Apart
  <2> QED
    BY <2>3, <2>15, <2>16, <2>17, Zenon DEF Shaken, Refused, P2
<1>11. CASE c.rc = "OK" /\ d.rc = "OK"
  <2> DEFINE G == [c.w.eps EXCEPT ![o].err = FALSE]
             B == [c.w.sess EXCEPT ![y].state = "ACTIVE"]
  <2>1. IsWorld(d.w, G, B, [[w.pipes EXCEPT ![s] = Append(@, x)] EXCEPT ![eps[o].sock] = Append(@, y)])
    BY <1>5, <1>9, <1>11, Zenon
  <2>2. o \in DOMAIN c.w.eps
    BY <1>9, <1>11, Zenon DEF Grown
  <2>3. Grown(G, s, a, e, k, o, L)
    BY <1>7, <1>9, <1>11, <2>2, GrownError, Zenon
  <2>4. Two(sess, B, y, x, R(o, x, "ACTIVE"), R(e, y, "ACTIVE"))
    BY <1>9, <1>11, TwoSet, Zenon
  <2> HIDE DEF B, G
  <2>5. Two(sess, B, x, y, R(e, y, "ACTIVE"), R(o, x, "ACTIVE"))
    BY <2>4, TwoFlip, Zenon
  <2>6. r = d
    BY <1>3, <1>11, Zenon
  <2> QED
    BY <1>11, <2>1, <2>3, <2>5, <2>6, Zenon DEF IsWorld, Shaken
<1> QED
  BY <1>8, <1>10, <1>11, Zenon

(* The world v in which e is connected to o by the sessions x and y. *)
Joins(v, s, a, e, o, x, y) ==
  /\ x # y /\ x \in FreeSess \ DOMAIN sess /\ y \in FreeSess \ DOMAIN sess
  /\ Grown(v.eps, s, a, e, x, o, Append(eps[o].sinprocs, y))
  /\ Two(sess, v.sess, x, y, R(e, y, "ACTIVE"), R(o, x, "ACTIVE"))
  /\ v.pipes = [[pipes EXCEPT ![s] = Append(@, x)] EXCEPT ![eps[o].sock] = Append(@, y)]

(* The pipes are sessions. *)
ListsSessions == Lists(pipes) /\ \A u \in Socks : Range(pipes[u]) \subseteq DOMAIN sess

(* The lists Q have the pipes that there are. *)
SamePipes(Q) == Lists(Q) /\ \A u \in Socks : Range(Q[u]) = Range(pipes[u])

(* The world v in which nothing is left of an attempt to. *)
Undone(v, s, a, e, o) ==
  /\ Grown(v.eps, s, a, e, None, o, eps[o].sinprocs)
  /\ DOMAIN v.sess = DOMAIN sess /\ \A z \in DOMAIN sess : v.sess[z] = sess[z]
  /\ DOMAIN v.pipes = Socks
  /\ ListsSessions => SamePipes(v.pipes)

(* The lists of pipes after a refused handshake. *)
LEMMA PipesUndone ==
  ASSUME NEW s \in Socks, NEW x \in SessIds \ DOMAIN sess, NEW y \in SessIds \ DOMAIN sess, NEW P,
         Refused(pipes, P, s, x), ListsSessions, NEW Q, Q = [u \in Socks |-> Erased([t \in Socks |-> Erased(P[t], x)][u], y)]
  PROVE  SamePipes(Q)
<1> DEFINE B == [pipes EXCEPT ![s] = Append(@, x)]
           C == [t \in Socks |-> Erased(P[t], x)]
<1>1. \A u \in Socks : x \notin Range(pipes[u]) /\ y \notin Range(pipes[u])
  BY Zenon DEF ListsSessions
<1>2. Lists(P) /\ \A u \in Socks : Range(P[u]) \ {x} = Range(pipes[u])
  <2>1. CASE P = pipes
    BY <1>1, <2>1, Zenon DEF ListsSessions
  <2>2. CASE P = [B EXCEPT ![s] = Erased(@, x)]
    <3>1. Lists(B) /\ Plus(pipes, B, x, s)
      BY <1>1, ListsPlus, Zenon DEF ListsSessions
    <3> HIDE DEF B
    <3>2. Lists(P) /\ Minus(B, P, x, s)
      BY <2>2, <3>1, ListsMinus, Zenon
    <3>3. ASSUME NEW u \in Socks PROVE Range(P[u]) \ {x} = Range(pipes[u])
      <4>1. CASE u = s
        <5>1. Range(B[u]) = Range(pipes[u]) \cup {x}
          BY <3>1, <4>1, Zenon DEF Plus
        <5>2. Range(P[u]) = Range(B[u]) \ {x}
          BY <3>2, <4>1, Zenon DEF Minus
        <5> QED
          BY <1>1, <5>1, <5>2, Zenon
      <4>2. CASE u # s
        <5>1. Range(B[u]) = Range(pipes[u])
          BY <3>1, <4>2, Zenon DEF Plus
        <5>2. Range(P[u]) = Range(B[u])
          BY <3>2, <4>2, Zenon DEF Minus
        <5> QED
          BY <1>1, <5>1, <5>2, Zenon
      <4> QED
        BY <4>1, <4>2, Zenon
    <3> QED
      BY <3>2, <3>3, Zenon
  <2> QED
    BY <2>1, <2>2, Zenon DEF Refused
<1>3. Without(P, C, x)
  BY <1>2, ListsErased, Zenon
<1>4. Q = [u \in Socks |-> Erased(C[u], y)]
  BY Zenon
<1> HIDE DEF C
<1>5. Without(C, Q, y)
  <2>1. Lists(C)
    BY <1>3, Zenon DEF Without
  <2>2. Without(C, [u \in Socks |-> Erased(C[u], y)], y)
    BY <2>1, ListsErased, Zenon
  <2> QED
    BY <1>4, <2>2, Zenon
<1>6. ASSUME NEW u \in Socks PROVE Range(Q[u]) = Range(pipes[u])
  <2>1. Range(C[u]) = Range(pipes[u])
    BY <1>2, <1>3, Zenon DEF Without
  <2>2. Range(Q[u]) = Range(pipes[u]) \ {y}
    BY <1>5, <2>1, Zenon DEF Without
  <2> QED
    BY <1>1, <2>2, Zenon
<1> QED
  BY <1>5, <1>6, Zenon DEF Without, SamePipes

(* mb_cinproc_connect_cb *)
LEMMA Connected ==
  ASSUME IInv, NEW s \in Socks, NEW a \in Addrs, NEW e \in EpIds, e \notin DOMAIN eps,
         NEW o \in DOMAIN eps, \A x \in SessIds \cup {None} : FreeSess \ (DOMAIN sess \cup {x}) # {},
         NEW w, IsWorld(w, With(eps, e, Endpoint(s, FALSE, a)), sess, pipes), NEW oom,
         NEW r, r = mb_cinproc_connect_cb(w, e, o, oom)
  PROVE  /\ r.rc = "OK" => \E x, y \in SessIds : Joins(r.w, s, a, e, o, x, y)
         /\ r.rc # "OK" => Undone(r.w, s, a, e, o)
<1> DEFINE x == Fresh(FreeSess, w.sess)
           y == Fresh(FreeSess \ {x}, w.sess)
           b == mb_sinproc_create(w, x, e)
           v == mb_sinproc_create(b, y, o)
           n == WorldOf(Adopted(v.eps, e, x, o, y), v.sess, v.pipes, v.stat)
           h == mb_sinproc_connect(n, x, y, oom)
           i == mb_sinproc_term(h.w, x)
           t == mb_sinproc_term(i, y)
           m == WorldOf(Orphaned(t.eps, e, o, y), t.sess, t.pipes, t.stat)
           L == eps[o].sinprocs
<1>1. w.eps = With(eps, e, Endpoint(s, FALSE, a)) /\ w.sess = sess /\ w.pipes = pipes
  BY Zenon DEF IsWorld
<1>2. /\ oom = "alloc" => r = [rc |-> "ENOMEM", w |-> w]
      /\ oom # "alloc" /\ h.rc = "OK" => r = h
      /\ oom # "alloc" /\ h.rc # "OK" => r = [rc |-> h.rc, w |-> m]
  BY Zenon DEF mb_cinproc_connect_cb
<1>3. x \in SessIds \ DOMAIN sess /\ x \in FreeSess
  <2>1. \E z \in FreeSess : z \notin DOMAIN w.sess
    BY <1>1, Zenon
  <2>2. x \in FreeSess /\ x \notin DOMAIN sess
    BY <1>1, <2>1, FreshIsNew, Zenon
  <2> QED
    BY <2>2, Zenon DEF FreeSess
<1> HIDE DEF x
<1>4. y \in SessIds \ DOMAIN sess /\ x # y /\ y \in FreeSess
  <2>1. \E z \in FreeSess \ {x} : z \notin DOMAIN w.sess
    BY <1>1, <1>3, Zenon
  <2>2. y \in FreeSess \ {x} /\ y \notin DOMAIN w.sess
    BY <2>1, FreshIsNew, Zenon
  <2> QED
    BY <1>1, <2>2, Zenon DEF FreeSess
<1> HIDE DEF y
<1>5. L \in Seq(SessIds) /\ y \notin Range(L)
  <2>1. eps[o] \in EpRec
    BY Zenon DEF IInv, Typed
  <2>2. L \in Seq(SessIds)
    BY <2>1 DEF EpRec
  <2>3. Range(L) \subseteq DOMAIN sess
    BY Zenon DEF IInv, Keeping, Kept
  <2> QED
    BY <1>4, <2>2, <2>3, Zenon
<1>6. Grown(w.eps, s, a, e, None, o, L)
  BY <1>1, GrownFirst, Zenon
<1> HIDE DEF L
<1>7. CASE oom = "alloc"
  <2>1. r.rc # "OK" /\ r.w = w
    <3>1. r = [rc |-> "ENOMEM", w |-> w]
      BY <1>2, <1>7, Zenon
    <3> QED
      BY <3>1
  <2>2. DOMAIN pipes = Socks
    BY Zenon DEF IInv
  <2>3. Undone(w, s, a, e, o)
    BY <1>1, <1>6, <2>2, Zenon DEF Undone, ListsSessions, SamePipes, L
  <2> QED
    BY <2>1, <2>3, Zenon
<1>8. /\ IsWorld(b, w.eps, With(w.sess, x, R(e, None, "IDLE")), w.pipes)
      /\ IsWorld(v, b.eps, With(b.sess, y, R(o, None, "IDLE")), b.pipes)
  BY CreateFields, Zenon
<1>9. /\ v.eps = w.eps /\ v.pipes = pipes
      /\ v.sess = With(With(sess, x, R(e, None, "IDLE")), y, R(o, None, "IDLE"))
  BY <1>1, <1>8, Zenon DEF IsWorld
<1>10. Two(sess, v.sess, x, y, R(e, None, "IDLE"), R(o, None, "IDLE"))
  <2> DEFINE p == R(e, None, "IDLE")
             q == R(o, None, "IDLE")
             S1 == With(sess, x, p)
             S2 == With(S1, y, q)
  <2> HIDE DEF p, q
  <2>1. Gains(sess, S1, x, p)
    BY WithPoint, Zenon
  <2> HIDE DEF S1
  <2>2. Gains(S1, S2, y, q)
    BY WithPoint, Zenon
  <2> HIDE DEF S2
  <2>3. DOMAIN S2 = DOMAIN sess \cup {x, y}
    BY <2>1, <2>2, Zenon DEF Gains
  <2>4. S2[x] = p
    BY <1>4, <2>1, <2>2, Zenon DEF Gains
  <2>5. \A z \in DOMAIN sess : z # x /\ z # y => S2[z] = sess[z]
    BY <2>1, <2>2, Zenon DEF Gains
  <2>6. Two(sess, S2, x, y, p, q)
    BY <2>2, <2>3, <2>4, <2>5, Zenon DEF Gains, Two
  <2> QED
    BY <1>9, <2>6, Zenon DEF S2, S1, p, q
<1> HIDE DEF v, b
<1>11. IsWorld(n, Adopted(v.eps, e, x, o, y), v.sess, v.pipes)
  BY WorldFields, Zenon
<1>12. Grown(n.eps, s, a, e, x, o, Append(L, y))
  <2>1. Grown(Adopted(w.eps, e, x, o, y), s, a, e, x, o, Append(L, y))
    BY <1>3, <1>4, <1>5, <1>6, GrownAdopted, Zenon
  <2> QED
    BY <1>9, <1>11, <2>1, Zenon DEF IsWorld
<1>13. n.pipes = pipes /\ Two(sess, n.sess, x, y, R(e, None, "IDLE"), R(o, None, "IDLE"))
  BY <1>9, <1>10, <1>11, Zenon DEF IsWorld
<1> HIDE DEF n
<1> DEFINE M == Append(L, y)
<1>14. Grown(n.eps, s, a, e, x, o, M)
  BY <1>12, Zenon
<1> HIDE DEF M
<1>15. Grown(h.w.eps, s, a, e, x, o, M) /\ Shaken(n, h, s, e, o, x, y)
  BY <1>3, <1>4, <1>13, <1>14, Handshake, Zenon
<1> HIDE DEF h
<1>16. CASE oom # "alloc" /\ h.rc = "OK"
  <2>1. r = h
    BY <1>2, <1>16, Zenon
  <2>2. Joins(h.w, s, a, e, o, x, y)
    BY <1>3, <1>4, <1>13, <1>15, <1>16, Zenon DEF Joins, Shaken, L, M
  <2> QED
    BY <1>3, <1>4, <1>16, <2>1, <2>2, Zenon
<1>17. CASE oom # "alloc" /\ h.rc # "OK"
  <2>1. r.rc # "OK" /\ r.w = m
    BY <1>2, <1>17
  <2>2. /\ IsWorld(i, h.w.eps, Drop(h.w.sess, x), [u \in Socks |-> Erased(h.w.pipes[u], x)])
        /\ IsWorld(t, i.eps, Drop(i.sess, y), [u \in Socks |-> Erased(i.pipes[u], y)])
    BY CreateFields, Zenon
  <2> DEFINE P == h.w.pipes
             Q == [u \in Socks |-> Erased([j \in Socks |-> Erased(P[j], x)][u], y)]
             S == Drop(Drop(h.w.sess, x), y)
  <2>3. t.eps = h.w.eps /\ t.sess = S /\ t.pipes = Q
    BY <2>2, Zenon DEF IsWorld
  <2>4. IsWorld(m, Orphaned(t.eps, e, o, y), t.sess, t.pipes)
    BY WorldFields, Zenon
  <2> HIDE DEF i, t, m
  <2>5. Grown(Orphaned(h.w.eps, e, o, y), s, a, e, None, o, L)
    <3>1. Grown(h.w.eps, s, a, e, x, o, Append(L, y))
      BY <1>15, Zenon DEF M
    <3> QED
      BY <1>4, <1>5, <3>1, GrownOrphaned, Zenon
  <2>6. DOMAIN S = DOMAIN sess /\ \A z \in DOMAIN sess : S[z] = sess[z]
    <3> DEFINE S1 == Drop(h.w.sess, x)
    <3>1. DOMAIN h.w.sess = DOMAIN sess \cup {x, y} /\ \A z \in DOMAIN sess : h.w.sess[z] = sess[z]
      BY <1>15, <1>17, Zenon DEF Shaken, Apart
    <3>2. DOMAIN S1 = DOMAIN h.w.sess \ {x} /\ \A z \in DOMAIN h.w.sess : z # x => S1[z] = h.w.sess[z]
      BY DropPoint, Zenon
    <3> HIDE DEF S1
    <3>3. DOMAIN Drop(S1, y) = DOMAIN S1 \ {y} /\ \A z \in DOMAIN S1 : z # y => Drop(S1, y)[z] = S1[z]
      BY DropPoint, Zenon
    <3>4. S = Drop(S1, y)
      BY Zenon DEF S1
    <3> HIDE DEF S
    <3>5. DOMAIN S = DOMAIN sess
      BY <1>3, <1>4, <3>1, <3>2, <3>3, <3>4, Zenon
    <3>6. ASSUME NEW z \in DOMAIN sess PROVE S[z] = sess[z]
      <4>1. z # x /\ z # y /\ z \in DOMAIN h.w.sess /\ h.w.sess[z] = sess[z]
        BY <1>3, <1>4, <3>1, Zenon
      <4>2. S1[z] = sess[z] /\ z \in DOMAIN S1
        BY <3>2, <4>1, Zenon
      <4> QED
        BY <3>3, <3>4, <4>1, <4>2, Zenon
    <3> QED
      BY <3>5, <3>6, Zenon
  <2>7. DOMAIN Q = Socks
    BY Zenon
  <2>8. ASSUME ListsSessions PROVE SamePipes(Q)
    <3>1. Refused(pipes, P, s, x)
      BY <1>13, <1>15, <1>17, Zenon DEF Shaken
    <3> HIDE DEF P
    <3>2. Q = [u \in Socks |-> Erased([j \in Socks |-> Erased(P[j], x)][u], y)]
      BY Zenon
    <3> HIDE DEF Q
    <3> QED
      BY <1>3, <1>4, <2>8, <3>1, <3>2, PipesUndone, Zenon
  <2> HIDE DEF S, Q
  <2>9. m.eps = Orphaned(h.w.eps, e, o, y) /\ m.sess = S /\ m.pipes = Q
    BY <2>3, <2>4, Zenon DEF IsWorld
  <2>10. Undone(m, s, a, e, o)
    BY <2>5, <2>6, <2>7, <2>8, <2>9, Zenon DEF Undone, L
  <2> QED
    BY <2>1, <2>10, Zenon
<1> QED
  BY <1>7, <1>16, <1>17, Zenon

(* What a teardown recalls, when sessions are added that no teardown knows. *)
LEMMA RecallGrow ==
  ASSUME IInv, NEW Q, DOMAIN sess \subseteq DOMAIN Q, \A z \in DOMAIN sess : Q[z] = sess[z],
         \A t \in Actors : td[t].peer \in DOMAIN Q => td[t].peer \in DOMAIN sess
  PROVE  Recall(Q, td)
<1> SUFFICES ASSUME NEW t \in Actors
             PROVE  /\ td[t].pc = "stop" => Remembers(Q, td[t].cur, td[t].peer)
                    /\ td[t].pc = "free" => Q[td[t].cur].peer = None
  BY Zenon DEF Recall
<1>1. /\ td[t].pc = "stop" => Remembers(sess, td[t].cur, td[t].peer)
      /\ td[t].pc = "free" => sess[td[t].cur].peer = None
  BY Zenon DEF IInv, Recall
<1>2. td[t].pc \in {"stop", "free"} => Q[td[t].cur] = sess[td[t].cur]
  BY CurSession, Zenon
<1>3. td[t].peer \in DOMAIN Q => td[t].peer \in DOMAIN sess /\ Q[td[t].peer] = sess[td[t].peer]
  BY Zenon
<1> QED
  BY <1>1, <1>2, <1>3, Zenon DEF Remembers

(* A connection that could be made. *)
LEMMA JoinKeeps ==
  ASSUME IInv, NEW s \in Socks, NEW a \in Addrs, NEW e \in EpIds, e \notin DOMAIN eps,
         NEW o \in DOMAIN eps, NEW v, NEW x, NEW y, Joins(v, s, a, e, o, x, y),
         NEW c \in Actors, c \notin Socks, td[c].eps = <<>>,
         eps' = v.eps, sess' = v.sess, pipes' = v.pipes, bound' = bound, lazy' = lazy,
         call' = call, Go(c, "made", <<e>>, None, None)
  PROVE  IInv'
<1> DEFINE F == eps'
           L == eps[o].sinprocs
           M == Append(L, y)
           t == eps[o].sock
<1>1. /\ x # y /\ x \in SessIds /\ x \notin DOMAIN sess /\ y \in SessIds /\ y \notin DOMAIN sess
      /\ Grown(F, s, a, e, x, o, M)
      /\ Two(sess, sess', x, y, R(e, y, "ACTIVE"), R(o, x, "ACTIVE"))
      /\ pipes' = [[pipes EXCEPT ![s] = Append(@, x)] EXCEPT ![t] = Append(@, y)]
  BY Zenon DEF Joins, FreeSess
<1>2. /\ Typed(eps, sess, td) /\ Listing(eps, bound, td) /\ Keeping(eps, sess, td)
      /\ DOMAIN pipes = Socks /\ Registry(eps, bound, lazy) /\ td \in [Actors -> TdRec]
  BY Zenon DEF IInv, Typed
<1>3. eps[o] \in EpRec
  BY <1>2, Zenon DEF Typed
<1>4. t \in Socks /\ L \in Seq(SessIds)
  BY <1>3 DEF EpRec
<1>5. IsInjective(L) /\ Range(L) \subseteq DOMAIN sess /\ None \notin DOMAIN sess
  BY <1>2, NoneIsNobody, Zenon DEF Typed, Keeping, Kept
<1> HIDE DEF F, L, t
<1>6. M \in Seq(SessIds) /\ IsInjective(M) /\ Range(M) = Range(L) \cup {y}
  BY <1>1, <1>4, <1>5, AppendList, Zenon
<1> HIDE DEF M
<1>7. /\ DOMAIN F = DOMAIN eps \cup {e} /\ \A f \in DOMAIN F : F[f] \in EpRec
      /\ F[e].sinproc = x /\ F[e].sinprocs = <<>> /\ F[o].sinprocs = M
      /\ \A f \in DOMAIN eps : /\ F[f].sock = eps[f].sock /\ F[f].bind = eps[f].bind
                               /\ F[f].addr = eps[f].addr /\ F[f].lazy = eps[f].lazy
      /\ \A f \in DOMAIN eps : F[f].sinproc = eps[f].sinproc
      /\ \A f \in DOMAIN eps : f # o => F[f].sinprocs = eps[f].sinprocs
  BY <1>1, Zenon DEF Grown, Like
<1>8. F[e].sock = s /\ F[e].lazy = FALSE
  <2>1. Endpoint(s, FALSE, a).sock = s /\ Endpoint(s, FALSE, a).lazy = FALSE
    BY DEF Endpoint
  <2> QED
    BY <1>1, <2>1, Zenon DEF Grown, Like
<1>9. /\ DOMAIN sess' = DOMAIN sess \cup {x, y} /\ \A z \in DOMAIN sess : sess'[z] = sess[z]
  BY <1>1, Zenon DEF Two
<1>10. /\ sess'[x] \in SessRec /\ sess'[x].ep = e /\ sess'[x].peer = y /\ sess'[x].state = "ACTIVE"
       /\ sess'[y] \in SessRec /\ sess'[y].ep = o /\ sess'[y].peer = x /\ sess'[y].state = "ACTIVE"
  <2>1. sess'[x] = R(e, y, "ACTIVE") /\ sess'[y] = R(o, x, "ACTIVE")
    BY <1>1, Zenon DEF Two
  <2>2. o \in EpIds
    BY <1>2, Zenon DEF Typed
  <2> QED
    BY <1>1, <2>1, <2>2 DEF R, SessRec
<1>11. Registry(F, bound, lazy)
  <2>1. SameEps(eps, F)
    BY <1>7, Zenon DEF SameEps
  <2>2. \A f \in DOMAIN F \ DOMAIN eps : ~F[f].lazy
    BY <1>7, <1>8, Zenon
  <2> QED
    BY <1>2, <2>1, <2>2, RegistrySame, Zenon
<1>12. Typed(F, sess', td)
  <2>1. \A f \in DOMAIN F : f \in EpIds /\ F[f] \in EpRec
    BY <1>2, <1>7, Zenon DEF Typed
  <2>2. \A z \in DOMAIN sess' : z \in SessIds /\ sess'[z] \in SessRec
    BY <1>1, <1>2, <1>9, <1>10, Zenon DEF Typed
  <2> QED
    BY <1>2, <2>1, <2>2, Zenon DEF Typed
<1>13. Listing(F, bound, td)
  <2>1. DOMAIN eps \subseteq DOMAIN F /\ \A f \in DOMAIN eps : f \in Range(bound) => f \in Range(bound)
    BY <1>7, Zenon
  <2>2. \A f \in DOMAIN eps : F[f].sock = eps[f].sock /\ F[f].bind = eps[f].bind
    BY <1>7, Zenon
  <2> QED
    BY <1>2, <2>1, <2>2, ListingSame, Zenon
<1>14. /\ Kept(F[e]) = {x} /\ Kept(F[o]) = Kept(eps[o]) \cup {y}
       /\ \A f \in DOMAIN eps : f # o => Kept(F[f]) = Kept(eps[f])
  <2>1. Kept(F[e]) = {x}
    <3>1. x # None /\ Range(<<>>) = {}
      BY <1>1, EmptyList, NoneIsNobody, Zenon
    <3> QED
      BY <1>7, <3>1, Zenon DEF Kept
  <2>2. Kept(F[o]) = Kept(eps[o]) \cup {y}
    BY <1>6, <1>7, Zenon DEF Kept, L
  <2>3. \A f \in DOMAIN eps : f # o => Kept(F[f]) = Kept(eps[f])
    BY <1>7, Zenon DEF Kept
  <2> QED
    BY <2>1, <2>2, <2>3, Zenon
<1>15. Keeping(F, sess', td)
  <2>1. ASSUME NEW z \in DOMAIN sess' PROVE sess'[z].ep \in DOMAIN F /\ z \in Kept(F[sess'[z].ep])
    <3>1. CASE z = x
      BY <1>7, <1>10, <1>14, <3>1, Zenon
    <3>2. CASE z = y
      BY <1>7, <1>10, <1>14, <3>2, Zenon
    <3>3. CASE z \in DOMAIN sess
      <4>1. sess[z].ep \in DOMAIN eps /\ z \in Kept(eps[sess[z].ep])
        BY <1>2, <3>3, Zenon DEF Keeping
      <4> QED
        BY <1>7, <1>9, <1>14, <3>3, <4>1, Zenon
    <3> QED
      BY <1>9, <3>1, <3>2, <3>3, Zenon
  <2>2. ASSUME NEW f \in DOMAIN F
        PROVE  /\ IsInjective(F[f].sinprocs) /\ F[f].sinproc \notin Range(F[f].sinprocs)
               /\ \A z \in Kept(F[f]) : z \in DOMAIN sess' /\ sess'[z].ep = f
    <3>1. CASE f = e
      <4>1. IsInjective(<<>>) /\ Range(<<>>) = {}
        BY EmptyList, Zenon
      <4> QED
        BY <1>7, <1>9, <1>10, <1>14, <3>1, <4>1, Zenon
    <3>2. ASSUME f # e
          PROVE  /\ f \in DOMAIN eps
                 /\ IsInjective(eps[f].sinprocs) /\ eps[f].sinproc \notin Range(eps[f].sinprocs)
                 /\ \A z \in Kept(eps[f]) : z \in DOMAIN sess /\ sess[z].ep = f
      BY <1>2, <1>7, <3>2, Zenon DEF Keeping
    <3>3. CASE f = o
      <4>1. f # e
        BY <3>3, Zenon
      <4>2. eps[o].sinproc \notin Range(M)
        <5>1. eps[o].sinproc \notin Range(L)
          BY <3>2, <3>3, <4>1, Zenon DEF L
        <5>2. eps[o].sinproc = None \/ eps[o].sinproc \in Kept(eps[o])
          BY Zenon DEF Kept
        <5>3. eps[o].sinproc # y
          BY <1>1, <3>2, <3>3, <4>1, <5>2, NoneIsNobody, Zenon
        <5> QED
          BY <1>6, <5>1, <5>3, Zenon
      <4>3. \A z \in Kept(F[o]) : z \in DOMAIN sess' /\ sess'[z].ep = o
        <5> SUFFICES ASSUME NEW z \in Kept(F[o]) PROVE z \in DOMAIN sess' /\ sess'[z].ep = o
          BY Zenon
        <5>1. z \in Kept(eps[o]) \/ z = y
          BY <1>14, Zenon
        <5>2. z \in Kept(eps[o]) => z \in DOMAIN sess /\ sess[z].ep = o
          BY <3>2, <3>3, <4>1, Zenon
        <5> QED
          BY <1>9, <1>10, <5>1, <5>2, Zenon
      <4> QED
        BY <1>6, <1>7, <3>3, <4>2, <4>3, Zenon
    <3>4. CASE f # e /\ f # o
      <4>1. /\ F[f].sinprocs = eps[f].sinprocs /\ F[f].sinproc = eps[f].sinproc
            /\ Kept(F[f]) = Kept(eps[f])
        BY <1>7, <1>14, <3>2, <3>4, Zenon
      <4>2. \A z \in Kept(eps[f]) : z \in DOMAIN sess' /\ sess'[z].ep = f
        BY <1>9, <3>2, <3>4, Zenon
      <4> QED
        BY <3>2, <3>4, <4>1, <4>2, Zenon
    <3> QED
      BY <3>1, <3>3, <3>4, Zenon
  <2>3. ASSUME NEW u \in Actors, td[u].pc \in {"stop", "free"}
        PROVE  td[u].cur \in Kept(F[Head(td[u].eps)])
    <3>1. EpOf(u) \in DOMAIN eps /\ td[u].cur \in Kept(eps[EpOf(u)])
      BY <2>3, CurSession, Zenon
    <3> QED
      BY <1>14, <3>1, Zenon DEF EpOf
  <2> QED
    BY <2>1, <2>2, <2>3, Zenon DEF Keeping
<1>16. /\ Typed(F, sess', td') /\ Listing(F, bound, td') /\ Keeping(F, sess', td')
       /\ Divided(F, td') /\ \A Q : Recall(Q, td) => Recall(Q, td')
  <2>1. /\ Divided(eps, td) /\ DOMAIN F = DOMAIN eps \cup {e}
        /\ \A u \in Actors : e \notin Range(td[u].eps)
    BY <1>7, NewEpUnlisted, Zenon DEF IInv
  <2> QED
    BY <1>12, <1>13, <1>15, <2>1, EpMade, Zenon
<1>17. DOMAIN pipes' = Socks
  BY <1>1, <1>2, Zenon
<1>18. Pairing(F, sess', pipes')
  <2> DEFINE P1 == [pipes EXCEPT ![s] = Append(@, x)]
             P2 == [P1 EXCEPT ![t] = Append(@, y)]
  <2>1. Pairing(eps, sess, pipes)
    BY Zenon DEF IInv
  <2>2. Lists(pipes)
    BY <1>2, <2>1, Zenon DEF Pairing, Lists
  <2>3. \A u \in Socks : x \notin Range(pipes[u]) /\ y \notin Range(pipes[u])
    BY <1>1, <2>1, Zenon DEF Pairing
  <2>4. Lists(P1) /\ Plus(pipes, P1, x, s)
    BY <1>1, <2>2, <2>3, ListsPlus, Zenon
  <2> HIDE DEF P1
  <2>5. y \notin Range(P1[t])
    <3>1. Range(P1[t]) = Range(pipes[t]) \/ Range(P1[t]) = Range(pipes[t]) \cup {x}
      BY <1>4, <2>4, Zenon DEF Plus
    <3> QED
      BY <1>1, <1>4, <2>3, <3>1, Zenon
  <2>6. Lists(P2) /\ Plus(P1, P2, y, t)
    BY <1>1, <1>4, <2>4, <2>5, ListsPlus, Zenon
  <2> HIDE DEF P2
  <2>7. F[o].sock = t
    BY <1>7, Zenon DEF t
  <2>8. ASSUME NEW u \in Socks, NEW z \in SessIds
        PROVE  z \in Range(P2[u]) <=> z \in DOMAIN sess' /\ sess'[z].peer # None /\ F[sess'[z].ep].sock = u
    <3>1. z \in Range(pipes[u]) <=> z \in DOMAIN sess /\ sess[z].peer # None /\ eps[sess[z].ep].sock = u
      BY <2>1, Zenon DEF Pairing
    <3>2. z \in Range(P1[u]) <=> z \in Range(pipes[u]) \/ (u = s /\ z = x)
      <4>1. CASE u = s
        BY <2>4, <4>1, Zenon DEF Plus
      <4>2. CASE u # s
        BY <2>4, <4>2, Zenon DEF Plus
      <4> QED
        BY <4>1, <4>2, Zenon
    <3>3. z \in Range(P2[u]) <=> z \in Range(P1[u]) \/ (u = t /\ z = y)
      <4>1. CASE u = t
        BY <2>6, <4>1, Zenon DEF Plus
      <4>2. CASE u # t
        BY <2>6, <4>2, Zenon DEF Plus
      <4> QED
        BY <4>1, <4>2, Zenon
    <3>4. CASE z = x
      <4>1. z \in Range(P2[u]) <=> u = s
        BY <1>1, <2>3, <3>2, <3>3, <3>4, Zenon
      <4> QED
        BY <1>1, <1>8, <1>9, <1>10, <3>4, <4>1, NoneIsNobody, Zenon
    <3>5. CASE z = y
      <4>1. z \in Range(P2[u]) <=> u = t
        BY <1>1, <2>3, <3>2, <3>3, <3>5, Zenon
      <4>2. y \in DOMAIN sess' /\ sess'[y].peer # None /\ F[sess'[y].ep].sock = t
        BY <1>1, <1>9, <1>10, <2>7, NoneIsNobody, Zenon
      <4> QED
        BY <3>5, <4>1, <4>2, Zenon
    <3>6. CASE z # x /\ z # y
      <4>1. z \in Range(P2[u]) <=> z \in Range(pipes[u])
        BY <3>2, <3>3, <3>6, Zenon
      <4>2. z \in DOMAIN sess' <=> z \in DOMAIN sess
        BY <1>9, <3>6, Zenon
      <4>3. z \in DOMAIN sess => sess'[z] = sess[z] /\ F[sess[z].ep].sock = eps[sess[z].ep].sock
        BY <1>2, <1>7, <1>9, Zenon DEF Keeping
      <4> QED
        BY <3>1, <4>1, <4>2, <4>3, Zenon
    <3> QED
      BY <3>4, <3>5, <3>6, Zenon
  <2>9. ASSUME NEW z \in DOMAIN sess'
        PROVE  /\ sess'[z].state = "ACTIVE" <=> sess'[z].peer # None
               /\ sess'[z].peer # None =>
                    sess'[z].peer \in DOMAIN sess' /\ sess'[z].peer # z /\ sess'[sess'[z].peer].peer = z
    <3>1. CASE z = x
      BY <1>1, <1>9, <1>10, <3>1, NoneIsNobody, Zenon
    <3>2. CASE z = y
      BY <1>1, <1>9, <1>10, <3>2, NoneIsNobody, Zenon
    <3>3. CASE z \in DOMAIN sess
      <4>1. /\ sess[z].state = "ACTIVE" <=> sess[z].peer # None
            /\ sess[z].peer # None =>
                 sess[z].peer \in DOMAIN sess /\ sess[z].peer # z /\ sess[sess[z].peer].peer = z
        BY <2>1, <3>3, Zenon DEF Pairing
      <4> QED
        BY <1>9, <3>3, <4>1, Zenon
    <3> QED
      BY <1>9, <3>1, <3>2, <3>3, Zenon
  <2>10. Pairing(F, sess', P2)
    BY <2>6, <2>8, <2>9, Zenon DEF Pairing, Lists
  <2>11. P2 = pipes'
    BY <1>1, Zenon DEF P1, P2
  <2> QED
    BY <2>10, <2>11, Zenon
<1>19. Recall(sess', td')
  <2>1. x \in FreeSess /\ y \in FreeSess
    BY Zenon DEF Joins
  <2>2. \A u \in Actors : td[u].peer # x /\ td[u].peer # y
    BY <2>1, Zenon DEF FreeSess
  <2>3. \A u \in Actors : td[u].peer \in DOMAIN sess' => td[u].peer \in DOMAIN sess
    BY <1>9, <2>2, Zenon
  <2>4. Recall(sess', td)
    BY <1>9, <2>3, RecallGrow, Zenon
  <2> QED
    BY <1>16, <2>4, Zenon
<1>20. Calls(call)
  BY Zenon DEF IInv
<1> QED
  BY <1>11, <1>16, <1>17, <1>18, <1>19, <1>20, Zenon DEF IInv, F

(* A connection that was refused: the endpoint is freed again. *)
LEMMA UndoneKeeps ==
  ASSUME IInv, NEW s \in Socks, NEW a \in Addrs, NEW e \in EpIds, e \notin DOMAIN eps,
         NEW o \in DOMAIN eps, NEW v, Undone(v, s, a, e, o),
         eps' = Drop(v.eps, e), sess' = v.sess, pipes' = v.pipes, bound' = bound, lazy' = lazy,
         td' = td, Calls(call')
  PROVE  IInv'
<1>1. /\ Grown(v.eps, s, a, e, None, o, eps[o].sinprocs)
      /\ DOMAIN sess' = DOMAIN sess /\ \A z \in DOMAIN sess : sess'[z] = sess[z]
      /\ DOMAIN pipes' = Socks /\ (ListsSessions => SamePipes(pipes'))
  BY Zenon DEF Undone
<1>2. DOMAIN eps' = DOMAIN v.eps \ {e} /\ \A f \in DOMAIN v.eps : f # e => eps'[f] = v.eps[f]
  BY DropPoint, Zenon
<1>3. /\ DOMAIN v.eps = DOMAIN eps \cup {e} /\ \A f \in DOMAIN v.eps : v.eps[f] \in EpRec
      /\ \A f \in DOMAIN eps : Like(v.eps[f], eps[f]) /\ v.eps[f].sinproc = eps[f].sinproc
      /\ \A f \in DOMAIN eps : v.eps[f].sinprocs = eps[f].sinprocs
  BY <1>1, Zenon DEF Grown
<1>4. DOMAIN eps' = DOMAIN eps /\ \A f \in DOMAIN eps : eps'[f] = v.eps[f]
  BY <1>2, <1>3, Zenon
<1>5. \A f \in DOMAIN eps :
        /\ eps'[f] \in EpRec
        /\ eps'[f].sock = eps[f].sock /\ eps'[f].bind = eps[f].bind
        /\ eps'[f].addr = eps[f].addr /\ eps'[f].lazy = eps[f].lazy
        /\ eps'[f].sinproc = eps[f].sinproc /\ eps'[f].sinprocs = eps[f].sinprocs
  <2> SUFFICES ASSUME NEW f \in DOMAIN eps
               PROVE  /\ eps'[f] \in EpRec
                      /\ eps'[f].sock = eps[f].sock /\ eps'[f].bind = eps[f].bind
                      /\ eps'[f].addr = eps[f].addr /\ eps'[f].lazy = eps[f].lazy
                      /\ eps'[f].sinproc = eps[f].sinproc /\ eps'[f].sinprocs = eps[f].sinprocs
    BY Zenon
  <2>1. eps'[f] = v.eps[f] /\ v.eps[f] \in EpRec
    BY <1>3, <1>4, Zenon
  <2>2. /\ Like(v.eps[f], eps[f]) /\ v.eps[f].sinproc = eps[f].sinproc
        /\ v.eps[f].sinprocs = eps[f].sinprocs
    BY <1>3, Zenon
  <2> QED
    BY <2>1, <2>2, Zenon DEF Like
<1>6. /\ Typed(eps, sess, td) /\ Listing(eps, bound, td) /\ Keeping(eps, sess, td)
      /\ DOMAIN pipes = Socks /\ Registry(eps, bound, lazy) /\ td \in [Actors -> TdRec]
  BY Zenon DEF IInv, Typed
<1>7. DOMAIN eps \subseteq DOMAIN eps' /\ DOMAIN eps' \ DOMAIN eps = {}
  BY <1>4, Zenon
<1> DEFINE F == eps'
<1> HIDE DEF F
<1>8. Registry(F, bound, lazy)
  <2>1. SameEps(eps, F) /\ \A f \in DOMAIN F \ DOMAIN eps : ~F[f].lazy
    BY <1>5, <1>7, Zenon DEF SameEps, F
  <2> QED
    BY <1>6, <2>1, RegistrySame, Zenon
<1>9. Listing(F, bound, td)
  <2>1. DOMAIN eps \subseteq DOMAIN F /\ \A f \in DOMAIN eps : f \in Range(bound) => f \in Range(bound)
    BY <1>7, Zenon DEF F
  <2>2. \A f \in DOMAIN eps : F[f].sock = eps[f].sock /\ F[f].bind = eps[f].bind
    BY <1>5, Zenon DEF F
  <2> QED
    BY <1>6, <2>1, <2>2, ListingSame, Zenon
<1>10. Keeping(F, sess, td)
  <2>1. \A f \in DOMAIN eps : F[f].sinproc = eps[f].sinproc /\ F[f].sinprocs = eps[f].sinprocs
    BY <1>5, Zenon DEF F
  <2>2. \A f \in DOMAIN F \ DOMAIN eps : F[f].sinproc = None /\ F[f].sinprocs = <<>>
    BY <1>7, Zenon DEF F
  <2> QED
    BY <1>6, <1>7, <2>1, <2>2, KeepingSame, Zenon DEF F
<1>11. Typed(F, sess, td)
  BY <1>4, <1>5, <1>6, Zenon DEF Typed, F
<1>12. Typed(F, sess', td) /\ Keeping(F, sess', td)
  <2>1. SameOwners(sess, sess')
    BY <1>1, <1>6, Zenon DEF SameOwners, Typed
  <2> QED
    BY <1>10, <1>11, <2>1, OwnersSame, Zenon
<1>13. Pairing(F, sess', pipes')
  <2>1. Pairing(eps, sess, pipes)
    BY Zenon DEF IInv
  <2>2. ListsSessions
    <3>1. Lists(pipes)
      BY <1>6, <2>1, Zenon DEF Pairing, Lists
    <3>2. ASSUME NEW u \in Socks PROVE Range(pipes[u]) \subseteq SessIds
      <4>1. pipes[u] \in Seq(SessIds)
        BY <3>1, Zenon DEF Lists
      <4> QED
        BY <4>1 DEF Range
    <3>3. ASSUME NEW u \in Socks PROVE Range(pipes[u]) \subseteq DOMAIN sess
      BY <2>1, <3>2, Zenon DEF Pairing
    <3> QED
      BY <3>1, <3>3, Zenon DEF ListsSessions
  <2>3. Lists(pipes') /\ \A u \in Socks : Range(pipes'[u]) = Range(pipes[u])
    BY <1>1, <2>2, Zenon DEF SamePipes
  <2>4. \A z \in DOMAIN sess : F[sess[z].ep].sock = eps[sess[z].ep].sock
    BY <1>5, <1>6, Zenon DEF Keeping, F
  <2>5. Pairing(F, sess, pipes)
    BY <2>1, <2>4, PairingSame, Zenon
  <2>6. \A u \in Socks : \A x \in SessIds :
          x \in Range(pipes'[u]) <=> x \in DOMAIN sess' /\ sess'[x].peer # None /\ F[sess'[x].ep].sock = u
    <3> SUFFICES ASSUME NEW u \in Socks, NEW x \in SessIds
                 PROVE  x \in Range(pipes'[u]) <=>
                          x \in DOMAIN sess' /\ sess'[x].peer # None /\ F[sess'[x].ep].sock = u
      BY Zenon
    <3>1. x \in Range(pipes[u]) <=> x \in DOMAIN sess /\ sess[x].peer # None /\ F[sess[x].ep].sock = u
      BY <2>5, Zenon DEF Pairing
    <3> QED
      BY <1>1, <2>3, <3>1, Zenon
  <2>7. \A x \in DOMAIN sess' :
          /\ sess'[x].state = "ACTIVE" <=> sess'[x].peer # None
          /\ sess'[x].peer # None =>
               sess'[x].peer \in DOMAIN sess' /\ sess'[x].peer # x /\ sess'[sess'[x].peer].peer = x
    <3> SUFFICES ASSUME NEW x \in DOMAIN sess'
                 PROVE  /\ sess'[x].state = "ACTIVE" <=> sess'[x].peer # None
                        /\ sess'[x].peer # None =>
                             /\ sess'[x].peer \in DOMAIN sess' /\ sess'[x].peer # x
                             /\ sess'[sess'[x].peer].peer = x
      BY Zenon
    <3>1. /\ sess[x].state = "ACTIVE" <=> sess[x].peer # None
          /\ sess[x].peer # None =>
               sess[x].peer \in DOMAIN sess /\ sess[x].peer # x /\ sess[sess[x].peer].peer = x
      BY <1>1, <2>1, Zenon DEF Pairing
    <3>2. sess'[x] = sess[x] /\ (sess[x].peer \in DOMAIN sess => sess'[sess[x].peer] = sess[sess[x].peer])
      BY <1>1, Zenon
    <3> QED
      BY <1>1, <3>1, <3>2, Zenon
  <2> QED
    BY <2>3, <2>6, <2>7, Zenon DEF Pairing, Lists
<1>14. Recall(sess', td)
  BY <1>1, RecallGrow, Zenon
<1>15. Divided(F, td)
  BY <1>4, Zenon DEF IInv, Divided, F
<1> QED
  BY <1>1, <1>8, <1>9, <1>12, <1>13, <1>14, <1>15, Zenon DEF IInv, F

(* mb_connect to an address that is owned. *)
LEMMA ConnectOwnedKeeps ==
  ASSUME IInv, NEW c \in Callers, ConnectOwned(c)
  PROVE  IInv'
<1> DEFINE e == Fresh(FreeEps, eps)
           s == call[c].sock
           a == call[c].addr
           o == call[c].owner
           w == WorldOf(With(eps, e, Endpoint(s, FALSE, a)), sess, pipes, stat)
           r(oom) == mb_cinproc_connect_cb(w, e, o, oom)
<1>1. /\ Finding(c) /\ o # None /\ bound' = bound /\ lazy' = lazy
      /\ \A x \in SessIds \cup {None} : FreeSess \ (DOMAIN sess \cup {x}) # {}
  BY Zenon DEF ConnectOwned
<1>2. PICK oom : /\ eps' = IF r(oom).rc = "OK" THEN r(oom).w.eps ELSE Drop(r(oom).w.eps, e)
                 /\ IF r(oom).rc = "OK" THEN Go(c, "made", <<e>>, None, None) /\ call' = call
                    ELSE td' = td /\ call' = [call EXCEPT ![c] = NoCall]
                 /\ sess' = r(oom).w.sess /\ pipes' = r(oom).w.pipes
  BY Zenon DEF ConnectOwned
<1> DEFINE q == r(oom)
<1>3. e \in EpIds /\ e \notin DOMAIN eps /\ o \in DOMAIN eps
  BY <1>1, NewEpId, Zenon DEF Finding
<1>4. s \in Socks /\ a \in Addrs /\ c \in Actors /\ c \notin Socks /\ td[c].eps = <<>>
  BY <1>1, FinderCall, Zenon
<1>5. IsWorld(w, With(eps, e, Endpoint(s, FALSE, a)), sess, pipes)
  BY WorldFields, Zenon
<1> HIDE DEF w, o, s, a
<1>6. /\ q.rc = "OK" => \E x, y \in SessIds : Joins(q.w, s, a, e, o, x, y)
      /\ q.rc # "OK" => Undone(q.w, s, a, e, o)
  BY <1>1, <1>3, <1>4, <1>5, Connected, Zenon
<1>7. /\ q.rc = "OK" => eps' = q.w.eps /\ Go(c, "made", <<e>>, None, None) /\ call' = call
      /\ q.rc # "OK" => eps' = Drop(q.w.eps, e) /\ td' = td /\ call' = [call EXCEPT ![c] = NoCall]
      /\ sess' = q.w.sess /\ pipes' = q.w.pipes
  BY <1>2, Zenon
<1> HIDE DEF q, e
<1>8. CASE q.rc = "OK"
  <2>1. PICK x, y \in SessIds : Joins(q.w, s, a, e, o, x, y)
    BY <1>6, <1>8, Zenon
  <2> QED
    BY <1>1, <1>3, <1>4, <1>7, <1>8, <2>1, JoinKeeps, Zenon
<1>9. CASE q.rc # "OK"
  <2>1. Calls(call')
    BY <1>7, <1>9, CallChanged, Zenon DEF IInv
  <2> QED
    BY <1>1, <1>3, <1>4, <1>6, <1>7, <1>9, <2>1, UndoneKeeps, Zenon
<1> QED
  BY <1>8, <1>9, Zenon

-----------------------------------------------------------------------------
(* Theorems *)

(* No sockets, calls, endpoints or sessions. *)
LEMMA InitIInv == Init => IInv
<1> SUFFICES ASSUME Init PROVE IInv
  BY Zenon
<1>1. /\ eps = <<>> /\ sess = <<>> /\ bound = <<>> /\ lazy = <<>>
      /\ pipes = [s \in Socks |-> <<>>] /\ td = [t \in Actors |-> Down]
      /\ call = [c \in Callers |-> NoCall]
  BY Zenon DEF Init
<1>2. DOMAIN eps = {} /\ DOMAIN sess = {}
  BY <1>1
<1>3. <<>> \in Seq(EpIds) /\ <<>> \in Seq(SessIds) /\ IsInjective(<<>>) /\ Range(<<>>) = {}
  BY EmptyList, Zenon
<1>4. Down \in TdRec /\ Down.pc = "closed" /\ Down.eps = <<>>
  BY <1>3 DEF Down, At, TdRec, Pcs
<1>5. td \in [Actors -> TdRec] /\ \A t \in Actors : td[t].pc = "closed" /\ td[t].eps = <<>>
  BY <1>1, <1>4, Zenon
<1>6. DOMAIN pipes = Socks /\ \A s \in Socks : pipes[s] = <<>>
  BY <1>1, Zenon
<1>7. Typed(eps, sess, td)
  BY <1>2, <1>5, Zenon DEF Typed
<1>8. Registry(eps, bound, lazy)
  BY <1>1, <1>2, <1>3, Zenon DEF Registry
<1>9. Listing(eps, bound, td)
  BY <1>3, <1>5 DEF Listing
<1>10. Keeping(eps, sess, td)
  BY <1>2, <1>5 DEF Keeping
<1>11. Pairing(eps, sess, pipes)
  BY <1>2, <1>3, <1>6, Zenon DEF Pairing
<1>12. Recall(sess, td)
  BY <1>5 DEF Recall
<1>13. Divided(eps, td)
  BY <1>2, <1>3, <1>5, Zenon DEF Divided
<1>14. Calls(call)
  BY <1>1, Zenon DEF Calls
<1> QED
  BY <1>6, <1>7, <1>8, <1>9, <1>10, <1>11, <1>12, <1>13, <1>14, Zenon DEF IInv

(* Every step keeps the invariant. *)
LEMMA NextIInv == IInv /\ [Next]_vars => IInv'
<1> SUFFICES ASSUME IInv, [Next]_vars PROVE IInv'
  BY Zenon
<1>1. ASSUME NEW t \in Actors, Teardown(t) PROVE IInv'
  BY <1>1, EpBeginKeeps, SessBeginKeeps, SessStopKeeps, SessFreeKeeps, EpEndKeeps, CloseEndKeeps, Zenon
     DEF Teardown
<1>2. ASSUME NEW s \in Socks, Open(s) \/ CloseBegin(s) \/ CloseWaited(s) PROVE IInv'
  BY <1>2, OpenKeeps, CloseBeginKeeps, CloseWaitedKeeps, Zenon
<1>3. ASSUME NEW c \in Callers, NEW s \in Socks, NEW bind \in BOOLEAN, NEW a \in Addrs,
             Begin(c, s, bind, a)
      PROVE  IInv'
  BY <1>3, BeginKeeps, Zenon
<1>4. ASSUME NEW c \in Callers, Register(c) \/ Publish(c) PROVE IInv'
  BY <1>4, MbBindKeeps, ConnectLazyKeeps, ConnectOwnedKeeps, ConnectRefusedKeeps, PublishKeeps, Zenon
     DEF Register
<1>5. ASSUME UNCHANGED vars PROVE IInv'
  <2>1. UNCHANGED eps /\ UNCHANGED sess /\ UNCHANGED bound /\ UNCHANGED lazy /\ UNCHANGED pipes
        /\ UNCHANGED td /\ UNCHANGED call
    BY <1>5, Zenon DEF vars
  <2> QED
    BY <2>1, Zenon DEF IInv
<1> QED
  BY <1>1, <1>2, <1>3, <1>4, <1>5, Zenon DEF Next

(* The inductive invariant holds in every reachable state. *)
THEOREM InprocGood == Spec => []IInv
  BY InitIInv, NextIInv, PTL DEF Spec

(* The invariant lists every endpoint once. *)
LEMMA GoodListed == IInv => EndpointsListed
<1> SUFFICES ASSUME IInv PROVE EndpointsListed
  BY Zenon
<1> DEFINE all == bound \o lazy
<1>1. /\ bound \in Seq(EpIds) /\ IsInjective(bound) /\ lazy \in Seq(EpIds) /\ IsInjective(lazy)
      /\ \A e \in Range(bound) : e \in DOMAIN eps /\ eps[e].bind
      /\ \A e \in Range(lazy) : e \in DOMAIN eps /\ ~eps[e].bind
      /\ \A e \in DOMAIN eps : eps[e].lazy <=> e \in Range(lazy)
  BY Zenon DEF IInv, Registry
<1>2. Range(bound) \cap Range(lazy) = {}
  BY <1>1, Zenon
<1>3. Range(all) = Range(bound) \cup Range(lazy) /\ IsInjective(all)
  <2>1. /\ all \in Seq(EpIds) /\ Range(all) = Range(bound) \cup Range(lazy)
        /\ IsInjective(bound) /\ IsInjective(lazy) /\ Range(bound) \cap Range(lazy) = {}
             => IsInjective(all)
    BY <1>1, JoinList, Zenon
  <2> QED
    BY <1>1, <1>2, <2>1, Zenon
<1> HIDE DEF all
<1>4. IsInjective(all) /\ Range(all) \subseteq DOMAIN eps
  BY <1>1, <1>3, Zenon
<1>5. ASSUME NEW t \in Actors
      PROVE  IsInjective(td[t].eps) /\ \A e \in Range(td[t].eps) : e \in DOMAIN eps /\ Mine(t, eps[e])
  BY Zenon DEF IInv, Listing
<1>6. ASSUME NEW e \in DOMAIN eps
      PROVE  \E t \in Actors :
               /\ e \in Range(td[t].eps) /\ (t \in Socks => eps[e].sock = t)
               /\ \A u \in Actors : e \in Range(td[u].eps) => u = t
  <2>1. PICK t \in Actors : e \in Range(td[t].eps)
    BY Zenon DEF IInv, Divided
  <2>2. \A u \in Actors : e \in Range(td[u].eps) => u = t
    BY <2>1, Zenon DEF IInv, Divided
  <2>3. t \in Socks => eps[e].sock = t
    BY <1>5, <2>1, Zenon DEF Mine
  <2> QED
    BY <2>1, <2>2, <2>3, Zenon
<1>7. \A t \in Actors : IsInjective(td[t].eps) /\ Range(td[t].eps) \subseteq DOMAIN eps
  BY <1>5, Zenon
<1> QED
  BY <1>1, <1>4, <1>6, <1>7, Zenon DEF EndpointsListed, all

(* The invariant gives a session one endpoint. *)
LEMMA GoodOwned == IInv => SessionsOwned
<1> SUFFICES ASSUME IInv PROVE SessionsOwned
  BY Zenon
<1>1. ASSUME NEW e \in DOMAIN eps
      PROVE  Range(Owned(e)) = Kept(eps[e]) /\ IsInjective(Owned(e))
  <2>1. eps[e] \in EpRec
    BY Zenon DEF IInv, Typed
  <2>2. IsInjective(eps[e].sinprocs) /\ eps[e].sinproc \notin Range(eps[e].sinprocs)
    BY Zenon DEF IInv, Keeping
  <2> QED
    BY <2>1, <2>2, OwnedList, Zenon
<1>2. /\ \A x \in DOMAIN sess : sess[x].ep \in DOMAIN eps /\ x \in Kept(eps[sess[x].ep])
      /\ \A e \in DOMAIN eps : \A x \in Kept(eps[e]) : x \in DOMAIN sess /\ sess[x].ep = e
  BY Zenon DEF IInv, Keeping
<1>3. \A x \in DOMAIN sess : x \in Range(Owned(sess[x].ep))
  BY <1>1, <1>2, Zenon
<1>4. \A x \in DOMAIN sess : \A e \in DOMAIN eps : x \in Range(Owned(e)) => e = sess[x].ep
  BY <1>1, <1>2, Zenon
<1>5. \A e \in DOMAIN eps : IsInjective(Owned(e)) /\ Range(Owned(e)) \subseteq DOMAIN sess
  BY <1>1, <1>2, Zenon
<1> QED
  BY <1>3, <1>4, <1>5, Zenon DEF SessionsOwned

(* The invariant pairs the pipes. *)
LEMMA GoodPaired == IInv => Paired
<1> SUFFICES ASSUME IInv, NEW s \in Socks
             PROVE  /\ IsInjective(pipes[s])
                    /\ \A x \in Range(pipes[s]) :
                         /\ x \in DOMAIN sess /\ sess[x].state = "ACTIVE" /\ eps[sess[x].ep].sock = s
                         /\ sess[x].peer \in DOMAIN sess
                         /\ sess[sess[x].peer].peer = x
                         /\ sess[x].peer \in Range(pipes[eps[sess[sess[x].peer].ep].sock])
  BY Zenon DEF Paired
<1>1. Pairing(eps, sess, pipes)
  BY Zenon DEF IInv
<1>2. pipes[s] \in Seq(SessIds) /\ IsInjective(pipes[s])
  BY <1>1, Zenon DEF Pairing
<1>3. Range(pipes[s]) \subseteq SessIds
  BY <1>2 DEF Range
<1>4. ASSUME NEW x \in Range(pipes[s])
      PROVE  /\ x \in DOMAIN sess /\ sess[x].state = "ACTIVE" /\ eps[sess[x].ep].sock = s
             /\ sess[x].peer \in DOMAIN sess
             /\ sess[sess[x].peer].peer = x
             /\ sess[x].peer \in Range(pipes[eps[sess[sess[x].peer].ep].sock])
  <2> DEFINE y == sess[x].peer
  <2>1. x \in SessIds /\ x \in DOMAIN sess /\ y # None /\ eps[sess[x].ep].sock = s
    BY <1>1, <1>3, Zenon DEF Pairing
  <2>2. sess[x].state = "ACTIVE" /\ y \in DOMAIN sess /\ sess[y].peer = x
    BY <1>1, <2>1, Zenon DEF Pairing
  <2> HIDE DEF y
  <2>3. y \in SessIds /\ eps[sess[y].ep].sock \in Socks
    BY <2>2, SessSock, Zenon
  <2>4. sess[y].peer # None
    BY <2>1, <2>2, NoneIsNobody, Zenon
  <2>5. y \in Range(pipes[eps[sess[y].ep].sock])
    BY <1>1, <2>2, <2>3, <2>4, Zenon DEF Pairing
  <2> QED
    BY <2>1, <2>2, <2>5, Zenon DEF y
<1> QED
  BY <1>2, <1>4, Zenon

(* global.c, ins.c: however the steps of mb_bind, mb_connect and mb_close    *)
(* interleave, an endpoint is listed once, by its socket or by the call     *)
(* that makes or discards it, and the registry lists endpoints that exist.  *)
(* This and the next two results speak of executions up to the first use    *)
(* of an owner or of a peer that was freed (OwnerAlive, PeerAlive).         *)
THEOREM EndpointsKept == Spec => []EndpointsListed
  BY InprocGood, GoodListed, PTL

(* inproc_binproc.c, inproc_cinproc.c: every session is kept by exactly one *)
(* endpoint, and is freed with it.                                          *)
THEOREM SessionsKept == Spec => []SessionsOwned
  BY InprocGood, GoodOwned, PTL

(* sinproc.c: with any number of sockets torn down at once, an active       *)
(* session and its peer point at each other and are in the lists of their   *)
(* sockets.                                                                 *)
THEOREM PipesPaired == Spec => []Paired
  BY InprocGood, GoodPaired, PTL

(* Sockets are counted up to the bound. *)
LEMMA OpenedBounded == Spec => [](opened \in 0 .. MaxOpen)
<1> DEFINE J == opened \in 0 .. MaxOpen
<1>1. Init => J
  BY InprocAssumption DEF Init
<1>2. J /\ [Next]_vars => J'
  <2> SUFFICES ASSUME J, [Next]_vars PROVE J'
    BY Zenon
  <2>1. CASE opened' = opened
    BY <2>1, Zenon
  <2>2. CASE \E s \in Socks : Open(s)
    BY <2>2, InprocAssumption DEF Open
  <2>3. opened' = opened \/ \E s \in Socks : Open(s)
    BY Zenon DEF Next, vars, Teardown, CloseBegin, EpBegin, SessBegin, SessStop, SessFree, EpEnd,
                 CloseEnd, CloseWaited, Begin, Register, MbBind, ConnectLazy, ConnectOwned,
                 ConnectRefused, Publish
  <2> QED
    BY <2>1, <2>2, <2>3, Zenon
<1> HIDE DEF J
<1>3. Spec => []J
  BY <1>1, <1>2, PTL DEF Spec
<1> QED
  BY <1>3, Zenon DEF J

(* The invariant types endpoints and sessions. *)
LEMMA GoodTyped == IInv /\ opened \in 0 .. MaxOpen => TypeOK
<1> SUFFICES ASSUME IInv, opened \in 0 .. MaxOpen PROVE TypeOK
  BY Zenon
<1>1. DOMAIN eps \subseteq EpIds /\ DOMAIN sess \subseteq SessIds
  BY Zenon DEF IInv, Typed
<1>2. ASSUME NEW x \in DOMAIN sess PROVE sess[x].ep \in DOMAIN eps /\ sess[x].state \in {"IDLE", "ACTIVE"}
  <2>1. sess[x] \in SessRec /\ sess[x].ep \in DOMAIN eps
    BY SessSock, Zenon
  <2> QED
    BY <2>1 DEF SessRec
<1> QED
  BY <1>1, <1>2, Zenon DEF TypeOK

(* Identifiers stay in range, and a session belongs to an endpoint.         *)
THEOREM InprocTyped == Spec => []TypeOK
  BY InprocGood, OpenedBounded, GoodTyped, PTL
=============================================================================
