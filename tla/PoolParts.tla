----------------------------- MODULE PoolParts -----------------------------
(***************************************************************************)
(* Three structures the node's transaction pool calls: the conflict graph, *)
(* the orphan pool and the memory limiter (klomang-node/src/mempool).  A   *)
(* call of theirs is one operator: it works under the locks of its own     *)
(* structure.                                                              *)
(***************************************************************************)
EXTENDS Integers, SequencesExt

Without(f, S) == [x \in DOMAIN f \ S |-> f[x]]
With(f, x, v) == [y \in DOMAIN f \cup {x} |-> IF y = x THEN v ELSE f[y]]

----------------------------------------------------------------------------
(* The conflict graph (graph_conflict_ordering.rs and its integration):    *)
(* which known transactions claim the same key, and the canonical order a  *)
(* block candidate is built from.                                          *)
(*                                                                         *)
(* A graph is [nodes, claims, conflicts]: nodes[x] = [rate, time], claims  *)
(* the pairs <<key, x>> of utxo_index, conflicts the pairs <<x, y>> with y *)
(* in the list conflict_map[x].  add_dependency is never called by the     *)
(* pool: the dependency map is empty and a removal cascades to nothing.    *)

NewGraph == [nodes |-> <<>>, claims |-> {}, conflicts |-> {}]

(* The key of an input: the index of the outpoint is always written as 0.  *)
OutpointKey(op) == op[1]
KeysOf(spends) == {OutpointKey(op) : op \in spends}

Claimants(g, keys) == {c[2] : c \in {d \in g.claims : d[1] \in keys}}

(* What register_transaction reports: the earlier claimants of its keys.   *)
DetectedConflicts(g, x, keys) == Claimants(g, keys) \ {x}

(* register_transaction, and a mutant that links the new transaction to    *)
(* the claimants and not the claimants to it.                              *)
MutRegister(g, x, keys, node) ==
    [nodes |-> With(g.nodes, x, node),
     claims |-> g.claims \cup (keys \X {x}),
     conflicts |-> g.conflicts \cup ({x} \X DetectedConflicts(g, x, keys))]
RegisterTransaction(g, x, keys, node) ==
    LET found == DetectedConflicts(g, x, keys)
    IN  [nodes |-> With(g.nodes, x, node),
         claims |-> g.claims \cup (keys \X {x}),
         conflicts |-> g.conflicts \cup ({x} \X found) \cup (found \X {x})]

(* detect_double_spend: also conflicts of an earlier registration count.   *)
DetectDoubleSpend(g, x) == \E p \in g.conflicts : p[1] = x

(* remove_transaction_cascade: the lists of others keep naming x. *)
RemoveTransactionCascade(g, x) ==
    [nodes |-> Without(g.nodes, {x}),
     claims |-> {c \in g.claims : c[2] # x},
     conflicts |-> {p \in g.conflicts : p[1] # x}]

(* priority_score, ten times: 0.7 of the fee density and 0.3 a second. *)
PriorityScore(node, now) == 7 * node.rate + 3 * 3600 * (now - node.time)

(* compute_canonical_order: the queue is sorted by falling score and hash  *)
(* and popped from its end.                                                *)
Precedes(g, now, x, y) ==
    LET score(z) == PriorityScore(g.nodes[z], now)
    IN  score(x) < score(y) \/ (score(x) = score(y) /\ x < y)
CanonicalOrder(g, now) ==
    CHOOSE q \in SetToSeqs(DOMAIN g.nodes) :
        \A i, j \in DOMAIN q : i < j => Precedes(g, now, q[i], q[j])

(* build_block_canonical: along the canonical order, every transaction     *)
(* that fits and conflicts with no selected one.  The mutant forgets the   *)
(* conflicts.                                                              *)
MutMayJoin(g, chosen, x) == TRUE
MayJoin(g, chosen, x) == \A y \in ToSet(chosen) : <<x, y>> \notin g.conflicts

SelectNext(g, s, x, w, maxWeight) ==
    IF MayJoin(g, s.txs, x) /\ s.weight + w <= maxWeight
    THEN [txs |-> Append(s.txs, x), weight |-> s.weight + w] ELSE s
BuildBlockCanonical(g, now, size, maxWeight) ==
    LET order == CanonicalOrder(g, now)
        chosen[i \in 0 .. Len(order)] ==
            IF i = 0 THEN [txs |-> <<>>, weight |-> 0]
            ELSE SelectNext(g, chosen[i - 1], order[i], size[order[i]], maxWeight)
    IN  chosen[Len(order)].txs

----------------------------------------------------------------------------
(* The orphan pool (orphan_manager.rs) and the linker that walks it        *)
(* (advanced_orphan_management.rs).                                        *)
(*                                                                         *)
(* A pool is [entries, index]: entries[x] = [missing, rate, time] and the  *)
(* pairs <<outpoint, x>> of missing_input_index.                           *)

NewOrphans == [entries |-> <<>>, index |-> {}]

(* remove_orphan of each of S: the index loses what the entry says it      *)
(* misses.                                                                 *)
RemoveOrphans(o, S) ==
    LET gone == S \cap DOMAIN o.entries
    IN  [entries |-> Without(o.entries, gone),
         index |-> {p \in o.index : ~(p[2] \in gone /\ p[1] \in o.entries[p[2]].missing)}]

(* _evict_one under the fee policy: any orphan of the lowest fee rate. *)
FeeVictims(o) ==
    {x \in DOMAIN o.entries : \A y \in DOMAIN o.entries : o.entries[x].rate <= o.entries[y].rate}

(* add_orphan: the set of pools it may leave.  The mutant files an orphan  *)
(* under one of its missing inputs.                                        *)
MutAddOrphan(o, x, entry, maxOrphans) ==
    {[entries |-> With(o.entries, x, entry),
      index |-> o.index \cup {<<CHOOSE op \in entry.missing : TRUE, x>>}]}
AddOrphan(o, x, entry, maxOrphans) ==
    LET room == IF Cardinality(DOMAIN o.entries) >= maxOrphans
                THEN {RemoveOrphans(o, {v}) : v \in FeeVictims(o)} ELSE {o}
    IN  {[entries |-> With(r.entries, x, entry),
          index |-> r.index \cup (entry.missing \X {x})] : r \in room}

(* The orphans process_orphans_for_parent takes out for these outpoints,   *)
(* and the pool it leaves: their entries under other missing inputs stay   *)
(* in the index.                                                           *)
Waiting(o, ops) == {x \in DOMAIN o.entries : \E op \in ops : <<op, x>> \in o.index}

ProcessOrphans(o, ops) ==
    [entries |-> Without(o.entries, Waiting(o, ops)),
     index |-> {p \in o.index : p[1] \notin ops}]

(* link_orphan_chain: level by level, the orphans that wait for an output  *)
(* of the level before are taken out of the shared pool.                   *)
LinkLevel(outputs, s) ==
    [orphans |-> ProcessOrphans(s.orphans, s.level),
     level |-> UNION {outputs[x] : x \in Waiting(s.orphans, s.level)}]

LinkOrphanChain(o, x, outputs, maxDepth) ==
    LET linked[d \in 0 .. maxDepth] ==
            IF d = 0 THEN [orphans |-> o, level |-> outputs[x]]
            ELSE LinkLevel(outputs, linked[d - 1])
    IN  linked[maxDepth].orphans

(* cleanup_expired. *)
CleanupExpiredOrphans(o, now) ==
    RemoveOrphans(o, {x \in DOMAIN o.entries : o.entries[x].time < now})

----------------------------------------------------------------------------
(* The memory limiter (memory_limiter.rs): the weight of every tracked     *)
(* transaction and their running total.  register_dependency is never      *)
(* called by the pool, so an eviction cascades to nothing.                 *)
(*                                                                         *)
(* A limiter is [weights, current].                                        *)

NewLimiter == [weights |-> <<>>, current |-> 0]

WeightOf(l, S) == MapThenSumSet(LAMBDA x : l.weights[x], S)

(* add_tx_weight: a second registration of x counts it twice. *)
AddTxWeight(l, x, w) == [weights |-> With(l.weights, x, w), current |-> l.current + w]

(* remove_tx_weight of each of S, and a mutant that subtracts and keeps    *)
(* the entries.                                                            *)
MutRemoveTxWeight(l, S) == [l EXCEPT !.current = @ - WeightOf(l, S \cap DOMAIN l.weights)]
RemoveTxWeight(l, S) ==
    [weights |-> Without(l.weights, S),
     current |-> l.current - WeightOf(l, S \cap DOMAIN l.weights)]

WouldExceedLimit(l, w, maxSize) == l.current + w > maxSize

(* get_eviction_candidates: lowest score first, then lowest hash; a        *)
(* transaction the scheduler does not know scores 0.  EvictedBefore are    *)
(* the candidates ahead of x.                                              *)
EvictedBefore(l, score, x) ==
    LET of(y) == IF y \in DOMAIN score THEN score[y] ELSE 0
    IN  {y \in DOMAIN l.weights : of(y) < of(x) \/ (of(y) = of(x) /\ y < x)}

(* make_space_for: a candidate is evicted unless those ahead of it have    *)
(* brought the total down to half of the limit.                            *)
MakeSpaceFor(l, need, score, maxSize) ==
    LET evicted == {x \in DOMAIN l.weights :
            l.current + need - WeightOf(l, EvictedBefore(l, score, x)) > maxSize \div 2}
    IN  [limiter |-> RemoveTxWeight(l, evicted), freed |-> WeightOf(l, evicted),
         evicted |-> evicted]
============================================================================
