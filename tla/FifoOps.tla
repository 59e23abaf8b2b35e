------------------------------ MODULE FifoOps ------------------------------
(***************************************************************************)
(* What the message queue of an inproc pipe promises: a FIFO of messages   *)
(* bounded by bytes (MB_RCVBUF), which remembers the size of the last push *)
(* it refused so that writability is not reported before that size fits.   *)
(* A message is its body's size: nothing else of it matters here.          *)
(* The queue is a record, so that other modules can hold several.          *)
(***************************************************************************)
EXTENDS Integers, Sequences

CONSTANTS Sizes,     \* body sizes that are sent
          Limits     \* values of MB_RCVBUF: never 0, which means unlimited

ASSUME FifoAssumption == Sizes \subseteq Nat /\ Limits \subseteq Nat \ {0}

(* mb_msgqueue_check_sz for a bounded queue: an empty body costs one byte. *)
CheckSz(sz) == IF sz = 0 THEN 1 ELSE sz

(* What the first messages of a queue are charged, for each number of them. *)
Charges(msgs) ==
  LET f[k \in 0 .. Len(msgs)] == IF k = 0 THEN 0 ELSE f[k - 1] + CheckSz(msgs[k]) IN f

Mem(msgs) == Charges(msgs)[Len(msgs)]

EmptyQueue(n) == [msgs |-> <<>>, maxmem |-> n, pending |-> 0]

Fits(q, c) == c <= q.maxmem /\ Mem(q.msgs) <= q.maxmem - c

(* Forget the refused size as soon as it would fit. *)
Settle(q) == IF q.pending # 0 /\ Fits(q, q.pending) THEN [q EXCEPT !.pending = 0] ELSE q

SetMaxmem(q, n) == Settle([q EXCEPT !.maxmem = n])

CanPush(q) == Fits(q, IF q.pending # 0 THEN q.pending ELSE 1)

Pushed(q, sz) == Settle([q EXCEPT !.msgs = Append(@, sz)])

Refused(q, sz) == [q EXCEPT !.pending = CheckSz(sz)]

Popped(q) == Settle([q EXCEPT !.msgs = Tail(@)])
=============================================================================
