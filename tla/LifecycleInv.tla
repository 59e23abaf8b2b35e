---------------------------- MODULE LifecycleInv ----------------------------
(***************************************************************************)
(* The inductive invariant of the socket table, and what its proofs share. *)
(***************************************************************************)
EXTENDS Lifecycle, TLAPS

(* TypeOK without the claim that holds is never negative, which needs the  *)
(* reference count.                                                        *)
Typing ==
  /\ ready \in BOOLEAN
  /\ socks \in [Fds -> Socks \cup {NULL}]
  /\ unused \in [Fds -> Fds]
  /\ nsocks \in 0 .. MAX_SOCKETS
  /\ flags \subseteq {"TERMING", "TERMED"}
  /\ inited \in BOOLEAN
  /\ alloc \in [Socks -> {"none", "live", "freed"}]
  /\ stopping \in [Socks -> BOOLEAN]
  /\ holds \in [Socks -> Int]
  /\ state \in [Socks -> {"INIT", "ACTIVE", "STOPPING_EPS"}]
  /\ epst \in [Eps -> {"none", "private", "listed", "spliced", "freed"}]
  /\ epsock \in [Eps -> Socks \cup {NULL}]
  /\ pc \in [Threads -> Pcs]
  /\ op \in [Threads -> AllOps \cup {"none"}]
  /\ sk \in [Threads -> Socks \cup {NULL}]
  /\ osk \in [Threads -> Socks \cup {NULL}]
  /\ fd \in [Threads -> 0 .. MAX_SOCKETS]
  /\ tmo \in [Threads -> Nat \cup {-1}]
  /\ myep \in [Threads -> Eps \cup {NULL}]
  /\ crashed \in BOOLEAN

(* What the frames of a thread look like at each program counter. *)
Frames ==
  \A t \in Threads :
    /\ pc[t] = "idle" => osk[t] = NULL /\ op[t] = "none"
    /\ Holding(t) \/ InClose(t) => sk[t] \in Socks
    /\ pc[t] \in CoroPcs => op[t] = "coro"
    /\ op[t] = "coro" <=> osk[t] # NULL
    /\ pc[t] \in ClosePcs \cup {"cl_term"} => op[t] \in {"close", "term"}
    /\ pc[t] \in StopPcs => op[t] \in {"close", "term", "shutdown"}
    /\ pc[t] \in {"sd_flag", "sd_wait"} => op[t] = "shutdown"
    /\ pc[t] # "tm_slot" => fd[t] \in Fds
    /\ pc[t] \in TermPcs => op[t] = "term"
    /\ pc[t] \in {"ep_insert", "ep_discard", "ep_start"} => myep[t] \in Eps

Used == {f \in Fds : socks[f] # NULL}

(* nsocks counts the slots in use; without a table there is none. *)
Table ==
  /\ nsocks = Cardinality(Used)
  /\ ~ready => nsocks = 0
  /\ FreeStack

(* A sock nobody may touch keeps the count it was freed with. *)
Dead == \A o \in Socks : alloc[o] # "live" => holds[o] = 0

IInv == Typing /\ Frames /\ Table /\ RefCount /\ Dead

(* The frames of a call that may own a reference. *)
CallFrames == Threads \X {"sk", "osk"}

(* What the count of a sock and of the table tells the other steps: who is  *)
(* refered to is live, without a table no slot is in use, and a published   *)
(* sock with three references has one user.                                 *)
CountFacts ==
  /\ NoUseAfterFree
  /\ ~ready => \A f \in Fds : socks[f] = NULL
  /\ \A o \in Socks, x \in CallFrames :
       x \in Holders(o) /\ Published(o) /\ ~(holds[o] > 3) => Holders(o) = {x}

(* What a step does to the table, as far as the types go: mb_socket fills a *)
(* slot that was empty.                                                     *)
TableMoves(t) ==
  /\ nsocks' \in 0 .. MAX_SOCKETS /\ unused' \in [Fds -> Fds]
  /\ \A o \in Socks : MbSocket(t, o) =>
       \E s \in Fds : socks[s] = NULL /\ socks' = [socks EXCEPT ![s] = o]
=============================================================================
