------------------------------ MODULE MsgFifo ------------------------------
(***************************************************************************)
(* The queue of an inproc pipe as its users see it: each function of       *)
(* msgqueue.h as one step on the record of FifoOps.                        *)
(***************************************************************************)
EXTENDS FifoOps

VARIABLE q

Init == \E n \in Limits : q = EmptyQueue(n)

Push(sz) == Fits(q, CheckSz(sz)) /\ q' = Pushed(q, sz)

Refuse(sz) == ~Fits(q, CheckSz(sz)) /\ q' = Refused(q, sz)

Pop == q.msgs # <<>> /\ q' = Popped(q)

Resize(n) == q' = SetMaxmem(q, n)

Term == q' = EmptyQueue(q.maxmem)

Next == \/ \E sz \in Sizes : Push(sz) \/ Refuse(sz)
        \/ Pop
        \/ \E n \in Limits : Resize(n)
        \/ Term

Spec == Init /\ [][Next]_q
=============================================================================
