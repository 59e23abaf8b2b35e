------------------------------- MODULE PubSub -------------------------------
(***************************************************************************)
(* The publish/subscribe sockets: src/protocol/pubsub/{pub,sub,xpub,       *)
(* xsub}.c.  A message has a body (the word subscriptions are matched      *)
(* with) and an sphdr: empty, or the priority given with mb_sendmsg.       *)
(***************************************************************************)
EXTENDS Integers, Balancers, Trie

MB_PUB_PRIO_LEVELS == 8
MB_PUB_PRIO_NORMAL == 4

(* PUB: bucket[i] holds the messages retained at priority i. *)

mb_pub_create == [pipes |-> <<>>, bucket |-> [i \in 0..MB_PUB_PRIO_LEVELS - 1 |-> <<>>]]

Retained(st) == {i \in DOMAIN st.bucket : st.bucket[i] # <<>>}

mb_pub_prio_decode(m) ==
  IF m.sphdr = <<>> THEN MB_PUB_PRIO_NORMAL
  ELSE IF m.sphdr[1] \in 0..MB_PUB_PRIO_LEVELS - 1 THEN m.sphdr[1] ELSE -1

mb_pub_add(st, p) == Added([st EXCEPT !.pipes = Append(@, p)])

mb_pub_rm(st, p) == [st EXCEPT !.pipes = Without(@, p)]

mb_pub_events(st, io) == Events(st, io, Ready(st.pipes, io, FALSE, TRUE))

\* One retained message of a level to every peer that takes it; it is
\* removed when somebody did.
mb_pub_try_drain_one(st, io, level) ==
  LET m == Head(st.bucket[level])
      sent == Takers(io, st.pipes, m) # {}
  IN [sent |-> sent, io |-> FanOut(io, st.pipes, m),
      st |-> IF sent THEN [st EXCEPT !.bucket[level] = Tail(@)] ELSE st]

(* Mutant: the lowest level is drained first. *)
mb_pub_drain_buckets_Lowest(st, io) ==
  IF Retained(st) = {} THEN [sent |-> FALSE, io |-> io, st |-> st]
  ELSE mb_pub_try_drain_one(st, io, Min(Retained(st)))

\* One turn of the loop: the highest level that holds something.
mb_pub_drain_buckets(st, io) ==
  IF Retained(st) = {} THEN [sent |-> FALSE, io |-> io, st |-> st]
  ELSE mb_pub_try_drain_one(st, io, Max(Retained(st)))

\* The drain only starts when some peer accepts.
DrainStarts(st, io) == Retained(st) # {} /\ mb_lb_can_send(st.pipes, io)

\* The part of mb_pub_send after the drain: a copy to every peer, one copy
\* retained for every peer that refused.
mb_pub_send(st, io, m) ==
  LET prio == mb_pub_prio_decode(m)
      refused == Cardinality(Range(st.pipes) \ Takers(io, st.pipes, m))
      kept == [i \in 1..refused |-> m]
      rc == IF st.pipes = <<>> \/ Takers(io, st.pipes, m) # {} THEN "OK" ELSE "EAGAIN"
  IN IF prio < 0 THEN Sent("EINVAL", st, io)
     ELSE Sent(rc, [st EXCEPT !.bucket[prio] = @ \o kept], FanOut(io, st.pipes, m))

\* What is left of the caller's message after the send.
Stripped(m) == IF mb_pub_prio_decode(m) < 0 THEN m ELSE [m EXCEPT !.sphdr = <<>>]

-----------------------------------------------------------------------------
(* SUB: pending holds at most one message that passed the filter. *)

mb_sub_create ==
  [pipes |-> <<>>, trie |-> mb_trie_init, pending |-> <<>>, nsubs |-> 0,
   has_subscriptions |-> FALSE]

mb_sub_msg_matches(st, m) == st.has_subscriptions /\ mb_trie_match(st.trie, m.body)

\* Messages that match nothing are dropped; the first that matches is kept.
RECURSIVE mb_sub_pull_deliverable(_, _)
mb_sub_pull_deliverable(st, io) ==
  LET r == mb_fq_recv(st.pipes, io)
  IN IF st.pending # <<>> \/ r.rc # "OK" THEN [st |-> st, io |-> io]
     ELSE mb_sub_pull_deliverable(
            [st EXCEPT !.pipes = r.list,
                       !.pending = IF mb_sub_msg_matches(st, r.msg[1]) THEN r.msg ELSE <<>>],
            r.io)

mb_sub_add(st, p) == Added([st EXCEPT !.pipes = mb_fq_activate(mb_fq_add(@, p), p)])

mb_sub_rm(st, p) == [st EXCEPT !.pipes = mb_fq_rm(@, p)]

mb_sub_events(st, io) ==
  LET d == mb_sub_pull_deliverable(st, io)
  IN Events(d.st, d.io, IF d.st.pending # <<>> THEN {"IN"} ELSE {})

mb_sub_recv(st, io) ==
  LET d == mb_sub_pull_deliverable(st, io)
  IN Received(IF d.st.pending = <<>> THEN "EAGAIN" ELSE "OK",
              [d.st EXCEPT !.pending = <<>>], d.io, d.st.pending)

\* mb_sub_setopt (MB_SUB_SUBSCRIBE)
mb_sub_subscribe(st, word, allocs) ==
  LET r == mb_trie_add(st.trie, word, allocs)
  IN IF r.rc # "NEW" THEN [st EXCEPT !.trie = r.trie]
     ELSE [st EXCEPT !.trie = r.trie, !.nsubs = @ + 1, !.has_subscriptions = TRUE]

\* mb_sub_setopt (MB_SUB_UNSUBSCRIBE); what is pending stays
mb_sub_unsubscribe(st, word) ==
  LET r == mb_trie_rm(st.trie, word)
      n == Minus1(st.nsubs)
  IN IF r.rc # "GONE" THEN st
     ELSE [st EXCEPT !.trie = r.trie, !.nsubs = n, !.has_subscriptions = n > 0]

-----------------------------------------------------------------------------
(* XPUB and XSUB: fan-out without retention, queueing without a filter. *)

mb_xpub_create == [pipes |-> <<>>]

mb_xpub_add(st, p) == Added([pipes |-> Append(st.pipes, p)])

mb_xpub_rm(st, p) == [pipes |-> Without(st.pipes, p)]

mb_xpub_events(st, io) == Events(st, io, Ready(st.pipes, io, TRUE, TRUE))

\* With no peer at all the message is dropped and the call succeeds.
mb_xpub_send(st, io, m) ==
  IF st.pipes = <<>> THEN Sent("OK", st, io) ELSE SendToAll(st, io, m)

mb_xpub_recv(st, io) == RecvFromAny(st, io)

mb_xsub_create == [pipes |-> <<>>]

mb_xsub_add(st, p) == Added([pipes |-> mb_fq_activate(mb_fq_add(st.pipes, p), p)])

mb_xsub_rm(st, p) == [pipes |-> mb_fq_rm(st.pipes, p)]

mb_xsub_events(st, io) == Events(st, io, Ready(st.pipes, io, TRUE, TRUE))

mb_xsub_send(st, io, m) == SendToAll(st, io, m)

mb_xsub_recv(st, io) == RecvFromAny(st, io)
=============================================================================
