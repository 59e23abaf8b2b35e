-------------------------------- MODULE Trie --------------------------------
(***************************************************************************)
(* The prefix tree of subscriptions, src/utils/trie.c.  A tree is a        *)
(* function from the words its nodes spell to the node's reference count   *)
(* and subscribed flag; the root spells the empty word.                    *)
(***************************************************************************)
EXTENDS Naturals, FiniteSets, SequencesExt

mb_trie_node_alloc == [refcount |-> 0, subscribed |-> FALSE]

mb_trie_init == [w \in {<<>>} |-> mb_trie_node_alloc]

\* New nodes are allocated from the root down; allocs of them succeed.  A
\* path that could not be completed stays in the tree.
mb_trie_add(t, word, allocs) ==
  LET new == Prefixes(word) \ DOMAIN t
      short == Cardinality(new) - allocs
      made == IF short <= 0 THEN new ELSE {w \in new : Len(w) <= Len(word) - short}
      u == [w \in DOMAIN t \cup made |-> IF w \in DOMAIN t THEN t[w] ELSE mb_trie_node_alloc]
  IN IF short > 0 THEN [rc |-> "ENOMEM", trie |-> u]
     ELSE IF u[word].subscribed THEN [rc |-> "SAME", trie |-> u]
     ELSE [rc |-> "NEW",
           trie |-> [w \in DOMAIN u |->
             [refcount |-> u[w].refcount + (IF w \in Prefixes(word) THEN 1 ELSE 0),
              subscribed |-> u[w].subscribed \/ w = word]]]

Minus1(n) == IF n > 0 THEN n - 1 ELSE 0

(* Mutant: a node is freed when it is no longer subscribed, whoever needs it. *)
mb_trie_rm_rec_Eager(t, word) ==
  LET u == [w \in DOMAIN t |->
             [refcount |-> IF w \in Prefixes(word) THEN Minus1(t[w].refcount)
                           ELSE t[w].refcount,
              subscribed |-> t[w].subscribed /\ w # word]]
      freed == {w \in Prefixes(word) \ {<<>>} : ~u[w].subscribed}
  IN [w \in {x \in DOMAIN u : \A f \in freed : ~IsPrefix(f, x)} |-> u[w]]

\* Every node of the path loses a reference; one left with none, and not
\* subscribed itself, is freed with all that hangs below it.
mb_trie_rm_rec(t, word) ==
  LET u == [w \in DOMAIN t |->
             [refcount |-> IF w \in Prefixes(word) THEN Minus1(t[w].refcount)
                           ELSE t[w].refcount,
              subscribed |-> t[w].subscribed /\ w # word]]
      freed == {w \in Prefixes(word) \ {<<>>} : u[w].refcount = 0 /\ ~u[w].subscribed}
  IN [w \in {x \in DOMAIN u : \A f \in freed : ~IsPrefix(f, x)} |-> u[w]]

mb_trie_rm(t, word) ==
  IF word \in DOMAIN t /\ t[word].subscribed
  THEN [rc |-> "GONE", trie |-> mb_trie_rm_rec(t, word)]
  ELSE [rc |-> "ENOENT", trie |-> t]

\* The walk down the tree meets a subscribed node before it falls off.
mb_trie_match(t, body) ==
  \E w \in Prefixes(body) : Prefixes(w) \subseteq DOMAIN t /\ t[w].subscribed
=============================================================================
