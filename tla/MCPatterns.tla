----------------------------- MODULE MCPatterns -----------------------------
(***************************************************************************)
(* Small networks, at least one for every protocol.  Base gives what a     *)
(* network leaves out: all messages alike and each as large as MB_RCVBUF,  *)
(* pipes that break, connections that never run out of memory.  Where      *)
(* sizes differ a queue may have room for one message and refuse another.  *)
(***************************************************************************)
EXTENDS Patterns

Base(type, links) ==
  [type |-> type, links |-> links, maxsize |-> [s \in DOMAIN type |-> 2],
   sends |-> 2, wraps |-> FALSE, sizes |-> {2}, bodies |-> {<<>>}, sphdrs |-> {<<>>}, tries |-> 1,
   oom |-> FALSE, breaks |-> TRUE, deadlines |-> {}, words |-> {},
   allocs |-> {9}, device |-> <<>>]

Two(t1, t2) == [a |-> t1, b |-> t2]
Three(t1, t2, t3) == [a |-> t1, b |-> t2, c |-> t3]
Fork == {<<"a", "b">>, <<"a", "c">>}     \* a connects to b and c
Join == {<<"a", "c">>, <<"b", "c">>}     \* a and b connect to c

TwoClients == [Base(Three("REQ", "REQ", "REP"), Join) EXCEPT !.oom = TRUE]
TwoServers == [Base(Three("REQ", "REP", "REP"), Fork) EXCEPT !.sizes = {2, 3}, !.maxsize["b"] = 3,
                                                            !.maxsize["c"] = 3]
Surveys == Base(Three("SURVEYOR", "RESPONDENT", "RESPONDENT"), Fork)
Deadlines == [Base(Two("SURVEYOR", "RESPONDENT"), {<<"a", "b">>}) EXCEPT !.deadlines = {0, 1, 2, -1}]
TwoSurveyors == [Base(Three("SURVEYOR", "SURVEYOR", "RESPONDENT"), Join) EXCEPT !.sends = 1]

\* Words over two letters; the empty word subscribes to everything.
Words == {<<>>, <<1>>, <<1, 2>>}
Publishing == [Base(Three("PUB", "SUB", "SUB"), Fork) EXCEPT
                 !.sphdrs = {<<>>, <<6>>, <<8>>}, !.tries = 2, !.words = {<<>>}, !.breaks = FALSE]
Priorities == [Base(Two("PUB", "SUB"), {<<"b", "a">>}) EXCEPT
                 !.sphdrs = {<<>>, <<6>>, <<8>>}, !.sends = 4, !.words = {<<>>}, !.breaks = FALSE]
Filtering == [Base(Two("PUB", "SUB"), {<<"b", "a">>}) EXCEPT
                !.words = {<<>>, <<1>>}, !.bodies = {<<1>>, <<2>>}]
Subscribing == [Base([a |-> "SUB"], {}) EXCEPT
                  !.words = Words \cup {<<1, 1>>, <<2>>}, !.bodies = Words \cup {<<2, 1>>},
                  !.allocs = {0, 1, 9}]

Bus == [Base(Three("BUS", "BUS", "XBUS"), {<<"a", "b">>, <<"b", "c">>, <<"a", "c">>})
          EXCEPT !.sends = 1]
Line == [Base(Three("XBUS", "BUS", "BUS"), Join) EXCEPT !.breaks = FALSE]
Pairs == [Base(Three("PAIR", "PAIR", "PAIR"), Fork) EXCEPT !.oom = TRUE, !.sizes = {1, 2}]
Pushing == [Base(Three("PUSH", "PULL", "PULL"), Fork) EXCEPT !.breaks = FALSE, !.sends = 4, !.sizes = {1, 2}]
Pulling == [Base(Three("PUSH", "PUSH", "PULL"), Join) EXCEPT !.sizes = {1, 2}]

RawRequests == Base(Three("XREQ", "XREP", "XREP"), Fork)
RawSurveys == [Base(Three("XSURVEYOR", "XRESPONDENT", "XRESPONDENT"), Fork) EXCEPT !.sends = 1]
RawPublishing == [Base(Three("XPUB", "XSUB", "XSUB"), Fork) EXCEPT !.breaks = FALSE]
RawPairs == [Base(Two("XPAIR", "XPAIR"), {<<"a", "b">>}) EXCEPT !.sizes = {1, 2}]
RawPipeline == Base(Three("XPUSH", "XPULL", "XPULL"), Fork)

\* a - b = device = c - d
Device == [Base([a |-> "PAIR", b |-> "PAIR", c |-> "PAIR", d |-> "PAIR"],
                {<<"a", "b">>, <<"d", "c">>}) EXCEPT !.device = <<"b", "c">>]
SteadyDevice == [Device EXCEPT !.breaks = FALSE]

AllNets == <<TwoClients, TwoServers, Surveys, Deadlines, TwoSurveyors, Publishing, Priorities, Filtering, Subscribing,
             Bus, Line, Pairs, Pushing, Pulling, RawRequests, RawSurveys, RawPublishing, RawPairs,
             RawPipeline, Device, SteadyDevice>>

\* For liveness the sockets that ask go on for ever.  The clients of the busy
\* server stay connected: mb_fq_activate puts a new pipe in front, so one that
\* asks, leaves and comes back for ever would keep the other waiting.
BusyServer == [TwoClients EXCEPT !.wraps = TRUE, !.oom = FALSE, !.breaks = FALSE]
BusySurveyor == [Base(Two("SURVEYOR", "RESPONDENT"), {<<"a", "b">>}) EXCEPT !.wraps = TRUE]

LiveNets == <<BusyServer, BusySurveyor, [Pushing EXCEPT !.sends = 2], SteadyDevice>>
=============================================================================
