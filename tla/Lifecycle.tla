----------------------------- MODULE Lifecycle -----------------------------
(***************************************************************************)
(* The socket table of core/global.c and the life of a struct mb_sock:     *)
(* mb_socket, mb_close, mb_term, mb_shutdown, the hold/rele pair every     *)
(* other call is wrapped in, the EAGAIN loops of mb_send/mb_recv and       *)
(* mb_coro_send/mb_coro_recv, and the creation of endpoints.               *)
(*                                                                         *)
(* Threads interleave at the points where the code releases g_self.lock or *)
(* sock->ctx, or touches an atomic: a section under one of these locks is  *)
(* one action.  `pc' is the next such section of a thread, `sk' its local  *)
(* variable `sock', `osk' the one of an enclosing mb_coro_* frame.         *)
(***************************************************************************)
EXTENDS Integers, FiniteSets

CONSTANTS
  Threads,      \* application threads
  MAX_SOCKETS,  \* MB_MAX_SOCKETS
  Socks,        \* allocations of struct mb_sock, each used once
  Eps,          \* allocations of struct mb_ep, each used once
  Ops,          \* the API calls the threads make
  Timeouts,     \* values of sndtimeo / rcvtimeo in 1 ms rounds; -1 is infinite
  NULL

AllOps == {"socket", "close", "term", "shutdown", "io", "coro", "ep", "opt"}

ASSUME LifecycleAssumption ==
  /\ IsFiniteSet(Threads)
  /\ MAX_SOCKETS \in Nat \ {0}
  /\ NULL \notin Socks \cup Eps
  /\ Ops \subseteq AllOps
  /\ Timeouts \subseteq Nat \cup {-1}

Fds == 0 .. MAX_SOCKETS - 1

VARIABLES
  ready,     \* g_self.socks # NULL: the table is allocated
  socks,     \* g_self.socks
  unused,    \* g_self.unused, the stack of free descriptors
  nsocks,    \* g_self.nsocks
  flags,     \* g_self.flags
  inited,    \* g_self.inited
  alloc,     \* per sock: "none", "live" or "freed"
  stopping,  \* per sock: MB_SOCK_FLAG_STOPPING
  holds,     \* per sock: holds
  state,     \* per sock: MB_SOCK_STATE_*
  epst,      \* per endpoint: where its memory is
  epsock,    \* per endpoint: ep->sock
  pc, op, sk, osk, fd, tmo, myep,  \* per thread: its frames
  crashed    \* a thread has dereferenced a NULL table

gvars == <<ready, socks, unused, nsocks, flags, inited>>
svars == <<alloc, stopping, holds, state>>
evars == <<epst, epsock>>
tvars == <<pc, op, sk, osk, fd, tmo, myep>>
vars == <<gvars, svars, evars, tvars, crashed>>

(* Program counters at which a thread owns one reference on sk[t]. *)
HoldPcs == {"io_try", "io_again", "ep_check", "ep_insert", "ep_discard",
            "ep_start", "opt_use", "sd_flag", "sd_wait", "rele", "rele_again"}
(* mb_close between the unpublishing of sk[t] and mb_free. *)
ClosePcs == {"cl_flag", "cl_rele1", "cl_rele2", "cl_wait", "cl_free"}
(* mb_sock_stop, called by mb_close or by mb_shutdown (see op). *)
StopPcs == {"st_begin", "st_eps", "st_base"}
CoroPcs == {"coro_call", "coro_again", "coro_rele"}
TermPcs == {"tm_slot", "tm_close"}
Pcs == {"idle", "cl_term"} \cup HoldPcs \cup ClosePcs \cup StopPcs
         \cup CoroPcs \cup TermPcs

InClose(t) == pc[t] \in ClosePcs \/ (pc[t] \in StopPcs /\ op[t] # "shutdown")
Holding(t) == pc[t] \in HoldPcs \/ (pc[t] \in StopPcs /\ op[t] = "shutdown")

(* The references calls in flight own on o: one per frame. *)
Holders(o) == {x \in Threads \X {"sk", "osk"} :
                 \/ x[2] = "sk" /\ Holding(x[1]) /\ sk[x[1]] = o
                 \/ x[2] = "osk" /\ osk[x[1]] = o}

Published(o) == \E f \in Fds : socks[f] = o

Init ==
  /\ ready = FALSE
  /\ socks = [f \in Fds |-> NULL]
  /\ unused = [i \in Fds |-> MAX_SOCKETS - i - 1]
  /\ nsocks = 0
  /\ flags = {}
  /\ inited = FALSE
  /\ alloc = [o \in Socks |-> "none"]
  /\ stopping = [o \in Socks |-> FALSE]
  /\ holds = [o \in Socks |-> 0]
  /\ state = [o \in Socks |-> "INIT"]
  /\ epst = [e \in Eps |-> "none"]
  /\ epsock = [e \in Eps |-> NULL]
  /\ pc = [t \in Threads |-> "idle"]
  /\ op = [t \in Threads |-> "none"]
  /\ sk = [t \in Threads |-> NULL]
  /\ osk = [t \in Threads |-> NULL]
  /\ fd = [t \in Threads |-> 0]
  /\ tmo = [t \in Threads |-> 0]
  /\ myep = [t \in Threads |-> NULL]
  /\ crashed = FALSE

Goto(t, l) == pc' = [pc EXCEPT ![t] = l]

(* The end of a call: its locals go out of scope. *)
Return(t) ==
  /\ pc' = [pc EXCEPT ![t] = "idle"]
  /\ op' = [op EXCEPT ![t] = "none"]
  /\ sk' = [sk EXCEPT ![t] = NULL]
  /\ osk' = [osk EXCEPT ![t] = NULL]
  /\ fd' = [fd EXCEPT ![t] = 0]
  /\ tmo' = [tmo EXCEPT ![t] = 0]
  /\ myep' = [myep EXCEPT ![t] = NULL]

-----------------------------------------------------------------------------
(* mb_socket and mb_term *)

(* mb_global_init under g_self.lock: what the table holds afterwards. *)
GlobalInit ==
  IF ready THEN [unused |-> unused, nsocks |-> nsocks]
  ELSE [unused |-> [i \in Fds |-> MAX_SOCKETS - i - 1], nsocks |-> 0]

(* mb_global_create_socket, reached with the table g of GlobalInit. *)
CreateSocket(g, o) ==
  LET s == g.unused[MAX_SOCKETS - g.nsocks - 1] IN
  /\ g.nsocks < MAX_SOCKETS
  /\ alloc[o] = "none"
  /\ socks' = [socks EXCEPT ![s] = o]
  /\ nsocks' = g.nsocks + 1
  /\ alloc' = [alloc EXCEPT ![o] = "live"]
  /\ stopping' = [stopping EXCEPT ![o] = FALSE]
  /\ holds' = [holds EXCEPT ![o] = 2]
  /\ state' = [state EXCEPT ![o] = "ACTIVE"]

(* Mutant: mb_socket tests MB_CTX_FLAG_TERMED only. *)
MbSocketWhileTerming(t, o) ==
  /\ pc[t] = "idle" /\ "socket" \in Ops
  /\ "TERMED" \notin flags
  /\ inited' = TRUE
  /\ ready' = TRUE
  /\ unused' = GlobalInit.unused
  /\ CreateSocket(GlobalInit, o)
  /\ UNCHANGED <<flags, evars, tvars, crashed>>

(* With either MB_CTX_FLAG_TERM bit set mb_socket only reports ETERM. *)
MbSocket(t, o) ==
  /\ pc[t] = "idle" /\ "socket" \in Ops
  /\ flags = {}
  /\ inited' = TRUE
  /\ ready' = TRUE
  /\ unused' = GlobalInit.unused
  /\ CreateSocket(GlobalInit, o)
  /\ UNCHANGED <<flags, evars, tvars, crashed>>

(* EAFNOSUPPORT, EPROTONOSUPPORT, ENOMEM, EMFILE: mb_global_term frees the *)
(* table again when it holds no socket.                                    *)
MbSocketFails(t) ==
  /\ pc[t] = "idle" /\ "socket" \in Ops
  /\ flags = {}
  /\ inited' = TRUE
  /\ ready' = (GlobalInit.nsocks > 0)
  /\ unused' = GlobalInit.unused
  /\ nsocks' = GlobalInit.nsocks
  /\ UNCHANGED <<socks, flags, svars, evars, tvars, crashed>>

MbTerm(t) ==
  /\ pc[t] = "idle" /\ "term" \in Ops
  /\ inited /\ "TERMED" \notin flags
  /\ flags' = flags \cup {"TERMING"}
  /\ pc' = [pc EXCEPT ![t] = "tm_slot"]
  /\ op' = [op EXCEPT ![t] = "term"]
  /\ UNCHANGED <<ready, socks, unused, nsocks, inited, svars, evars,
                 sk, osk, fd, tmo, myep, crashed>>

(* One turn of the loop: the slot is read under the lock, which is dropped *)
(* before mb_close is called on its index.                                 *)
TermSlot(t) ==
  /\ pc[t] = "tm_slot" /\ fd[t] < MAX_SOCKETS
  /\ IF ready /\ socks[fd[t]] # NULL
     THEN Goto(t, "tm_close") /\ UNCHANGED fd
     ELSE fd' = [fd EXCEPT ![t] = fd[t] + 1] /\ UNCHANGED pc
  /\ UNCHANGED <<gvars, svars, evars, op, sk, osk, tmo, myep, crashed>>

TermCloseFails(t) ==
  /\ pc[t] = "tm_close"
  /\ ~ready \/ socks[fd[t]] = NULL
  /\ Goto(t, "tm_slot")
  /\ fd' = [fd EXCEPT ![t] = fd[t] + 1]
  /\ UNCHANGED <<gvars, svars, evars, op, sk, osk, tmo, myep, crashed>>

TermEnd(t) ==
  /\ pc[t] = "tm_slot" /\ fd[t] = MAX_SOCKETS
  /\ flags' = {"TERMED"}
  /\ Return(t)
  /\ UNCHANGED <<ready, socks, unused, nsocks, inited, svars, evars, crashed>>

-----------------------------------------------------------------------------
(* mb_close *)

(* Mutant: the descriptor is not pushed; the stack shows a stale entry. *)
UnpublishWithoutPush(t, s) ==
  /\ ready /\ socks[s] # NULL
  /\ socks' = [socks EXCEPT ![s] = NULL]
  /\ nsocks' = nsocks - 1
  /\ sk' = [sk EXCEPT ![t] = socks[s]]
  /\ Goto(t, "cl_flag")
  /\ UNCHANGED <<ready, unused, flags, inited, svars, evars, osk, tmo, myep, crashed>>

(* The slot is cleared and the descriptor pushed back on the free stack. *)
Unpublish(t, s) ==
  /\ ready /\ socks[s] # NULL
  /\ socks' = [socks EXCEPT ![s] = NULL]
  /\ unused' = [unused EXCEPT ![MAX_SOCKETS - nsocks] = s]
  /\ nsocks' = nsocks - 1
  /\ sk' = [sk EXCEPT ![t] = socks[s]]
  /\ Goto(t, "cl_flag")
  /\ UNCHANGED <<ready, flags, inited, svars, evars, osk, tmo, myep, crashed>>

MbClose(t, s) ==
  /\ pc[t] = "idle" /\ "close" \in Ops
  /\ Unpublish(t, s)
  /\ op' = [op EXCEPT ![t] = "close"]
  /\ fd' = [fd EXCEPT ![t] = s]

TermClose(t) ==
  /\ pc[t] = "tm_close"
  /\ Unpublish(t, fd[t])
  /\ UNCHANGED <<op, fd>>

CloseFlag(t) ==
  /\ pc[t] = "cl_flag"
  /\ stopping' = [stopping EXCEPT ![sk[t]] = TRUE]
  /\ Goto(t, "cl_rele1")
  /\ UNCHANGED <<gvars, alloc, holds, state, evars,
                 op, sk, osk, fd, tmo, myep, crashed>>

(* Mutant: mb_close drops one of the two permanent references. *)
CloseReleOnce(t) ==
  /\ pc[t] \in {"cl_rele1", "cl_rele2"}
  /\ holds' = [holds EXCEPT ![sk[t]] = @ - 1]
  /\ Goto(t, "cl_wait")
  /\ UNCHANGED <<gvars, alloc, stopping, state, evars,
                 op, sk, osk, fd, tmo, myep, crashed>>

(* The two permanent references. *)
CloseRele(t) ==
  /\ pc[t] \in {"cl_rele1", "cl_rele2"}
  /\ holds' = [holds EXCEPT ![sk[t]] = @ - 1]
  /\ Goto(t, IF pc[t] = "cl_rele1" THEN "cl_rele2" ELSE "cl_wait")
  /\ UNCHANGED <<gvars, alloc, stopping, state, evars,
                 op, sk, osk, fd, tmo, myep, crashed>>

(* Mutant: mb_close waits while holds > 1. *)
CloseWaitOffByOne(t) ==
  /\ pc[t] = "cl_wait" /\ ~(holds[sk[t]] > 1)
  /\ Goto(t, "st_begin")
  /\ UNCHANGED <<gvars, svars, evars, op, sk, osk, fd, tmo, myep, crashed>>

CloseWait(t) ==
  /\ pc[t] = "cl_wait" /\ ~(holds[sk[t]] > 0)
  /\ Goto(t, "st_begin")
  /\ UNCHANGED <<gvars, svars, evars, op, sk, osk, fd, tmo, myep, crashed>>

CloseFree(t) ==
  /\ pc[t] = "cl_free"
  /\ alloc' = [alloc EXCEPT ![sk[t]] = "freed"]
  /\ sk' = [sk EXCEPT ![t] = NULL]
  /\ Goto(t, "cl_term")
  /\ UNCHANGED <<gvars, stopping, holds, state, evars,
                 op, osk, fd, tmo, myep, crashed>>

(* mb_global_term under g_self.lock; mb_term then goes on to its next slot. *)
CloseTerm(t) ==
  /\ pc[t] = "cl_term"
  /\ ready' = (ready /\ nsocks > 0)
  /\ IF op[t] = "term"
     THEN /\ Goto(t, "tm_slot")
          /\ fd' = [fd EXCEPT ![t] = fd[t] + 1]
          /\ UNCHANGED <<op, sk, osk, tmo, myep>>
     ELSE Return(t)
  /\ UNCHANGED <<socks, unused, nsocks, flags, inited, svars, evars, crashed>>

-----------------------------------------------------------------------------
(* mb_sock_stop *)

StopBegin(t) ==
  /\ pc[t] = "st_begin"
  /\ IF state[sk[t]] # "ACTIVE"
     THEN /\ Goto(t, IF op[t] = "shutdown" THEN "rele" ELSE "cl_free")
          /\ UNCHANGED <<state, epst>>
     ELSE /\ Goto(t, "st_eps")
          /\ state' = [state EXCEPT ![sk[t]] = "STOPPING_EPS"]
          /\ epst' = [e \in Eps |->
                        IF epst[e] = "listed" /\ epsock[e] = sk[t]
                        THEN "spliced" ELSE epst[e]]
  /\ UNCHANGED <<gvars, alloc, stopping, holds, epsock,
                 op, sk, osk, fd, tmo, myep, crashed>>

Spliced(o) == {e \in Eps : epst[e] = "spliced" /\ epsock[e] = o}

(* mb_ep_stop, mb_ep_term, mb_free of one endpoint, without ctx. *)
StopEp(t, e) ==
  /\ pc[t] = "st_eps" /\ e \in Spliced(sk[t])
  /\ epst' = [epst EXCEPT ![e] = "freed"]
  /\ UNCHANGED <<gvars, svars, epsock, tvars, crashed>>

StopEpsDone(t) ==
  /\ pc[t] = "st_eps" /\ Spliced(sk[t]) = {}
  /\ Goto(t, "st_base")
  /\ UNCHANGED <<gvars, svars, evars, op, sk, osk, fd, tmo, myep, crashed>>

(* The protocol object is destroyed and sockbase cleared under ctx. *)
StopBase(t) ==
  /\ pc[t] = "st_base"
  /\ state' = [state EXCEPT ![sk[t]] = "INIT"]
  /\ Goto(t, IF op[t] = "shutdown" THEN "rele" ELSE "cl_free")
  /\ UNCHANGED <<gvars, alloc, stopping, holds, evars,
                 op, sk, osk, fd, tmo, myep, crashed>>

-----------------------------------------------------------------------------
(* mb_global_hold_socket, mb_global_rele_socket and the calls between them *)

CanHold(s) == socks[s] # NULL /\ ~stopping[socks[s]]

Hold(o) == holds' = [holds EXCEPT ![o] = @ + 1]

(* The label at which each call goes on once it holds the socket. *)
Entry(c) == CASE c = "io" -> "io_try"
              [] c = "coro" -> "coro_call"
              [] c = "ep" -> "ep_check"
              [] c = "opt" -> "opt_use"
              [] c = "shutdown" -> "sd_flag"

(* A call that fails with EBADF changes nothing and is not a step. *)
StartCall(t, c, s, n) ==
  /\ pc[t] = "idle" /\ c \in Ops
  /\ ready /\ CanHold(s)
  /\ Hold(socks[s])
  /\ Goto(t, Entry(c))
  /\ op' = [op EXCEPT ![t] = c]
  /\ IF c = "coro"
     THEN osk' = [osk EXCEPT ![t] = socks[s]] /\ UNCHANGED sk
     ELSE sk' = [sk EXCEPT ![t] = socks[s]] /\ UNCHANGED osk
  /\ fd' = [fd EXCEPT ![t] = s]
  /\ tmo' = [tmo EXCEPT ![t] = IF c \in {"io", "coro"} THEN n ELSE 0]
  /\ UNCHANGED <<gvars, alloc, stopping, state, evars, myep, crashed>>

(* mb_global_hold_socket reads g_self.socks[s] without a test of the table, *)
(* which mb_global_term has freed.                                          *)
Crash ==
  /\ ~ready
  /\ crashed' = TRUE
  /\ UNCHANGED <<gvars, svars, evars, tvars>>

StartCrashes(t) ==
  /\ pc[t] = "idle" /\ Ops \cap {"io", "coro", "ep", "opt", "shutdown"} # {}
  /\ Crash

CoroCrashes(t) == pc[t] = "coro_call" /\ Crash

(* mb_sock_send / mb_sock_recv under ctx: EBADF once sockbase is gone, else *)
(* what the protocol answers.  EFAULT, EMSGSIZE and ENOMEM end the call too. *)
IoTry(t) ==
  /\ pc[t] = "io_try"
  /\ \/ Goto(t, "rele")
     \/ state[sk[t]] # "INIT" /\ Goto(t, "io_again")
  /\ UNCHANGED <<gvars, svars, evars, op, sk, osk, fd, tmo, myep, crashed>>

(* After EAGAIN.  A call made by mb_coro_* passes MB_DONTWAIT. *)
IoAgain(t) ==
  /\ pc[t] = "io_again"
  /\ IF op[t] = "coro"
     THEN Goto(t, "rele_again") /\ UNCHANGED tmo
     ELSE IF tmo[t] = 0 \/ stopping[sk[t]] \/ tmo[t] = 1
     THEN Goto(t, "rele") /\ UNCHANGED tmo
     ELSE /\ Goto(t, "io_try")
          /\ tmo' = [tmo EXCEPT ![t] = IF tmo[t] > 0 THEN tmo[t] - 1 ELSE tmo[t]]
  /\ UNCHANGED <<gvars, svars, evars, op, sk, osk, fd, myep, crashed>>

(* mb_getsockopt, mb_setsockopt, mb_get_statistic: one access. *)
OptUse(t) ==
  /\ pc[t] = "opt_use"
  /\ Goto(t, "rele")
  /\ UNCHANGED <<gvars, svars, evars, op, sk, osk, fd, tmo, myep, crashed>>

(* mb_global_rele_socket by the frame that holds sk[t]. *)
Rele(t) ==
  /\ pc[t] \in {"rele", "rele_again"}
  /\ holds' = [holds EXCEPT ![sk[t]] = @ - 1]
  /\ IF op[t] = "coro"
     THEN /\ Goto(t, IF pc[t] = "rele" THEN "coro_rele" ELSE "coro_again")
          /\ sk' = [sk EXCEPT ![t] = NULL]
          /\ UNCHANGED <<op, osk, fd, tmo, myep>>
     ELSE Return(t)
  /\ UNCHANGED <<gvars, alloc, stopping, state, evars, crashed>>

(* Mutant: the inner call takes the sock held outside, without a lookup. *)
CoroCallByPointer(t) ==
  /\ pc[t] = "coro_call" /\ ready
  /\ Hold(osk[t])
  /\ sk' = [sk EXCEPT ![t] = osk[t]]
  /\ Goto(t, "io_try")
  /\ UNCHANGED <<gvars, alloc, stopping, state, evars,
                 op, osk, fd, tmo, myep, crashed>>

(* mb_coro_send / mb_coro_recv call mb_send / mb_recv on the descriptor, *)
(* which looks the socket up again.                                      *)
CoroCall(t) ==
  /\ pc[t] = "coro_call" /\ ready
  /\ IF CanHold(fd[t])
     THEN /\ Hold(socks[fd[t]])
          /\ sk' = [sk EXCEPT ![t] = socks[fd[t]]]
          /\ Goto(t, "io_try")
     ELSE Goto(t, "coro_rele") /\ UNCHANGED <<holds, sk>>
  /\ UNCHANGED <<gvars, alloc, stopping, state, evars,
                 op, osk, fd, tmo, myep, crashed>>

(* The inner call answered EAGAIN: give up, or yield and try again. *)
CoroAgain(t) ==
  /\ pc[t] = "coro_again"
  /\ IF stopping[osk[t]] \/ tmo[t] \in {0, 1}
     THEN Goto(t, "coro_rele") /\ UNCHANGED tmo
     ELSE /\ Goto(t, "coro_call")
          /\ tmo' = [tmo EXCEPT ![t] = IF tmo[t] > 0 THEN tmo[t] - 1 ELSE tmo[t]]
  /\ UNCHANGED <<gvars, svars, evars, op, sk, osk, fd, myep, crashed>>

CoroRele(t) ==
  /\ pc[t] = "coro_rele"
  /\ holds' = [holds EXCEPT ![osk[t]] = @ - 1]
  /\ Return(t)
  /\ UNCHANGED <<gvars, alloc, stopping, state, evars, crashed>>

-----------------------------------------------------------------------------
(* mb_shutdown *)

(* fetch_or: the caller that finds STOPPING already set only releases. *)
ShutdownFlag(t) ==
  /\ pc[t] = "sd_flag"
  /\ stopping' = [stopping EXCEPT ![sk[t]] = TRUE]
  /\ Goto(t, IF stopping[sk[t]] THEN "rele" ELSE "sd_wait")
  /\ UNCHANGED <<gvars, alloc, holds, state, evars,
                 op, sk, osk, fd, tmo, myep, crashed>>

(* Mutants: the permanent references are counted wrongly. *)
ShutdownWaitTooFew(t) ==
  /\ pc[t] = "sd_wait" /\ ~(holds[sk[t]] > 4)
  /\ Goto(t, "st_begin")
  /\ UNCHANGED <<gvars, svars, evars, op, sk, osk, fd, tmo, myep, crashed>>
ShutdownWait(t) ==
  /\ pc[t] = "sd_wait" /\ ~(holds[sk[t]] > 3)
  /\ Goto(t, "st_begin")
  /\ UNCHANGED <<gvars, svars, evars, op, sk, osk, fd, tmo, myep, crashed>>

-----------------------------------------------------------------------------
(* mb_bind / mb_connect: mb_global_create_ep *)

(* Refused because the socket stops, or no transport, memory or address. *)
EpFails(t) ==
  /\ pc[t] = "ep_check"
  /\ Goto(t, "rele")
  /\ UNCHANGED <<gvars, svars, evars, op, sk, osk, fd, tmo, myep, crashed>>

EpInit(t, e) ==
  /\ pc[t] = "ep_check" /\ ~stopping[sk[t]]
  /\ epst[e] = "none"
  /\ epst' = [epst EXCEPT ![e] = "private"]
  /\ epsock' = [epsock EXCEPT ![e] = sk[t]]
  /\ myep' = [myep EXCEPT ![t] = e]
  /\ Goto(t, "ep_insert")
  /\ UNCHANGED <<gvars, svars, op, sk, osk, fd, tmo, crashed>>

(* Mutant: the endpoint is inserted without the second check. *)
EpInsertUnchecked(t) ==
  /\ pc[t] = "ep_insert"
  /\ Goto(t, "ep_start")
  /\ epst' = [epst EXCEPT ![myep[t]] = "listed"]
  /\ UNCHANGED <<gvars, svars, epsock, op, sk, osk, fd, tmo, myep, crashed>>

(* STOPPING and the state are checked again under ctx before the insertion. *)
EpInsert(t) ==
  /\ pc[t] = "ep_insert"
  /\ IF stopping[sk[t]] \/ state[sk[t]] # "ACTIVE"
     THEN Goto(t, "ep_discard") /\ UNCHANGED epst
     ELSE Goto(t, "ep_start") /\ epst' = [epst EXCEPT ![myep[t]] = "listed"]
  /\ UNCHANGED <<gvars, svars, epsock, op, sk, osk, fd, tmo, myep, crashed>>

EpDiscard(t) ==
  /\ pc[t] = "ep_discard"
  /\ epst' = [epst EXCEPT ![myep[t]] = "freed"]
  /\ Goto(t, "rele")
  /\ UNCHANGED <<gvars, svars, epsock, op, sk, osk, fd, tmo, myep, crashed>>

(* mb_ep_start (ep) and the read of ep->eid, outside ctx. *)
EpStart(t) ==
  /\ pc[t] = "ep_start"
  /\ Goto(t, "rele")
  /\ UNCHANGED <<gvars, svars, evars, op, sk, osk, fd, tmo, myep, crashed>>

-----------------------------------------------------------------------------
(* Calls an application begins, and the steps of calls that have begun. *)
Begin(t) ==
  \/ \E o \in Socks : MbSocket(t, o)
  \/ MbSocketFails(t)
  \/ MbTerm(t)
  \/ \E s \in Fds : MbClose(t, s)
  \/ \E c \in {"io", "coro", "ep", "opt", "shutdown"}, s \in Fds, n \in Timeouts :
       StartCall(t, c, s, n)
  \/ StartCrashes(t)

Step(t) ==
  \/ TermSlot(t) \/ TermCloseFails(t) \/ TermClose(t) \/ TermEnd(t)
  \/ CloseFlag(t) \/ CloseRele(t) \/ CloseWait(t) \/ CloseFree(t) \/ CloseTerm(t)
  \/ StopBegin(t) \/ (\E e \in Eps : StopEp(t, e)) \/ StopEpsDone(t) \/ StopBase(t)
  \/ IoTry(t) \/ IoAgain(t) \/ OptUse(t) \/ Rele(t)
  \/ CoroCall(t) \/ CoroCrashes(t) \/ CoroAgain(t) \/ CoroRele(t)
  \/ ShutdownFlag(t) \/ ShutdownWait(t)
  \/ EpFails(t) \/ (\E e \in Eps : EpInit(t, e))
  \/ EpInsert(t) \/ EpDiscard(t) \/ EpStart(t)

Next == ~crashed /\ \E t \in Threads : Begin(t) \/ Step(t)

Spec == Init /\ [][Next]_vars

(* A thread inside a call is scheduled; nobody is obliged to begin a call,   *)
(* nor to resume a coroutine that has yielded (coro_call): mb_coro_resume is *)
(* called by the application.                                                *)
Fairness == \A t \in Threads : WF_vars(~crashed /\ pc[t] # "coro_call" /\ Step(t))

FairSpec == Spec /\ Fairness

-----------------------------------------------------------------------------
(* Properties *)

(* Every variable stays within the values its C declaration allows; holds   *)
(* never becomes negative.                                                  *)
TypeOK ==
  /\ ready \in BOOLEAN
  /\ socks \in [Fds -> Socks \cup {NULL}]
  /\ unused \in [Fds -> Fds]
  /\ nsocks \in 0 .. MAX_SOCKETS
  /\ flags \subseteq {"TERMING", "TERMED"}
  /\ inited \in BOOLEAN
  /\ alloc \in [Socks -> {"none", "live", "freed"}]
  /\ stopping \in [Socks -> BOOLEAN]
  /\ holds \in [Socks -> Nat]
  /\ state \in [Socks -> {"INIT", "ACTIVE", "STOPPING_EPS"}]
  /\ epst \in [Eps -> {"none", "private", "listed", "spliced", "freed"}]
  /\ epsock \in [Eps -> Socks \cup {NULL}]
  /\ pc \in [Threads -> Pcs]
  /\ op \in [Threads -> AllOps \cup {"none"}]
  /\ sk \in [Threads -> Socks \cup {NULL}]
  /\ osk \in [Threads -> Socks \cup {NULL}]
  /\ fd \in [Threads -> 0 .. MAX_SOCKETS]
  /\ tmo \in [Threads -> Nat \cup {-1}]
  /\ myep \in [Threads -> Eps \cup {NULL}]
  /\ crashed \in BOOLEAN

(* The stack part of `unused' lists every free descriptor exactly once, and *)
(* nsocks counts the published sockets: mb_socket can neither hand out a    *)
(* descriptor that is in use nor lose one (mb_global_create_socket,         *)
(* mb_close).                                                               *)
FreeStack ==
  ready =>
    LET Stack == 0 .. MAX_SOCKETS - nsocks - 1 IN
    /\ \A i \in Stack : socks[unused[i]] = NULL
    /\ \A i, j \in Stack : unused[i] = unused[j] => i = j
    /\ \A f \in Fds : socks[f] = NULL => \E i \in Stack : unused[i] = f

(* How many of the two permanent references the mb_close of t has dropped. *)
Dropped(t) == CASE pc[t] \in {"cl_flag", "cl_rele1"} -> 0
                [] pc[t] = "cl_rele2" -> 1
                [] OTHER -> 2

(* holds is exact: it counts the permanent references mb_close has not yet  *)
(* dropped plus one reference per frame in flight.  A published sock is     *)
(* live and in one slot, a sock is closed by one thread only, and once      *)
(* mb_close has seen holds = 0 no frame can come to own a reference.        *)
RefCount ==
  /\ \A f \in Fds : socks[f] # NULL =>
       /\ alloc[socks[f]] = "live"
       /\ \A g \in Fds : socks[g] = socks[f] => g = f
       /\ \A t \in Threads : InClose(t) => sk[t] # socks[f]
  /\ \A t \in Threads, o \in Socks : InClose(t) /\ sk[t] = o =>
       /\ alloc[o] = "live"
       /\ holds[o] = 2 - Dropped(t) + Cardinality(Holders(o))
       /\ pc[t] \in StopPcs \cup {"cl_free"} => Holders(o) = {}
       /\ \A u \in Threads : InClose(u) /\ sk[u] = o => u = t
  /\ \A o \in Socks :
       /\ Holders(o) # {} => alloc[o] = "live"
       /\ (alloc[o] = "live" /\ \A t \in Threads : InClose(t) => sk[t] # o)
            => holds[o] = 2 + Cardinality(Holders(o))

(* A sock is freed by mb_close only when no call in flight can still reach  *)
(* it: every frame that uses its local `sock' points to live memory.        *)
NoUseAfterFree ==
  \A t \in Threads :
    /\ Holding(t) \/ InClose(t) => alloc[sk[t]] = "live"
    /\ osk[t] # NULL => alloc[osk[t]] = "live"

(* "Only one shutdown/close path may tear down the socket": at most one     *)
(* thread runs the body of mb_sock_stop on a sock, and a sock is freed only *)
(* after its protocol object and all its endpoints are gone.                *)
TeardownOnce ==
  /\ \A t, u \in Threads :
       /\ pc[t] \in {"st_eps", "st_base"} /\ pc[u] \in {"st_eps", "st_base"}
       /\ sk[t] = sk[u]
       => t = u
  /\ \A o \in Socks : alloc[o] = "freed" =>
       /\ state[o] = "INIT"
       /\ \A e \in Eps : epsock[e] = o => epst[e] = "freed"

(* mb_global_create_ep calls mb_ep_start and reads ep->eid after it has left *)
(* ctx: while the socket is not closed, no mb_shutdown has freed the        *)
(* endpoint in between.                                                     *)
EpAlive ==
  \A t \in Threads :
    pc[t] \in {"ep_insert", "ep_discard", "ep_start"} /\ Published(sk[t]) =>
      epst[myep[t]] # "freed"

(* The promise of SocketHandle: a sock is open while published, closing     *)
(* until mb_free, and its users are the frames that own a reference.        *)
Phase(o) == CASE alloc[o] = "none" -> "none"
              [] alloc[o] = "freed" -> "freed"
              [] alloc[o] = "live" /\ Published(o) -> "open"
              [] OTHER -> "closing"

Handle == INSTANCE SocketHandle
            WITH Users <- Threads \X {"sk", "osk"},
                 phase <- [o \in Socks |-> Phase(o)],
                 users <- [o \in Socks |-> Holders(o)]

(* Every step of the table is a step of SocketHandle or changes nothing it  *)
(* speaks of: mb_global_hold_socket admits calls on open sockets only, and  *)
(* mb_close frees a sock only when its last user has released it.           *)
ImplementsHandle == Handle!Spec

(* Once an mb_term has marked the library TERMED no descriptor is in use: a  *)
(* socket published after the loop passed its slot would be leaked.          *)
TermClosesAll == "TERMED" \in flags => \A f \in Fds : socks[f] = NULL

(* The application resumes every coroutine that has yielded in a call. *)
Resumed == \A t \in Threads : []<>(pc[t] # "coro_call")

(* "mb_close sets STOPPING then waits for holds - must exit or deadlock": a  *)
(* call that waits for others returns, whatever calls are blocked on the     *)
(* sockets it closes.  mb_close waits for every reference, mb_shutdown for   *)
(* the calls in flight, mb_term for each mb_close in turn.  A yielded        *)
(* coroutine keeps its reference, so this needs its application to resume it.*)
CallsReturn ==
  Resumed =>
    \A t \in Threads, c \in {"close", "shutdown", "term"} :
      op[t] = c ~> (op[t] # c \/ crashed)

(* Comment at global.c:526: mb_shutdown waits "for other in-flight send/recv *)
(* before tearing down endpoints/sockbase".                                  *)
ShutdownWaitsForCalls ==
  \A t \in Threads :
    pc[t] \in {"st_eps", "st_base"} /\ op[t] = "shutdown" =>
      Holders(sk[t]) = {<<t, "sk">>}

(* Comment at global.c:311: after the unpublishing a "concurrent hold_socket *)
(* fails with EBADF": a call on a descriptor that was closed does not        *)
(* dereference the table mb_global_term has freed.                           *)
HoldFailsCleanly == ~(crashed /\ \E o \in Socks : alloc[o] = "freed")
=============================================================================
