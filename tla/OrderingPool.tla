---------------------------- MODULE OrderingPool ----------------------------
(***************************************************************************)
(* PriorityPool (mempool/priority_pool.rs) and the ordering engine over it *)
(* (ordering_engine.rs): a map of priorities, a heap that is cleaned       *)
(* lazily, and the cache of the engine.  One thread inserts and one asks   *)
(* for an order; both take their locks one after the other.                *)
(***************************************************************************)
EXTENDS Naturals, FiniteSets, SequencesExt

CONSTANTS Hash,         \* hashes of transactions
          Anc,          \* [Hash -> SUBSET Hash]: get_ancestors of the dependency manager
          FeeRates,     \* fee rates
          OnChain,      \* transactions whose outputs are on the chain
          MinRate,      \* min_fee_rate of the engine
          Counts,       \* numbers of transactions that callers ask for
          MaxHeap       \* bound on the heap

ASSUME OrderingAssumption ==
  /\ IsFiniteSet(Hash) /\ Hash \subseteq Nat /\ IsFiniteSet(FeeRates) /\ FeeRates \subseteq Nat \ {0} /\ Counts \subseteq Nat /\ MaxHeap \in Nat

VARIABLE prio   \* map: priorities; heap: how often it holds <<hash, rate>>; cache; ins, ord: where
              \* the two threads are; result of the last order; raced is history: an order worked
              \* on a map older than the heap, or a clear emptied the heap under an insert

None == 0
HeapKeys == Hash \X FeeRates
Unranked == [t \in Hash |-> None]
NoEntry == [e \in HeapKeys |-> 0]
AtRest == [at |-> "idle"]
OpInit == prio = [map |-> Unranked, heap |-> NoEntry, cache |-> Unranked,
                ins |-> AtRest, ord |-> AtRest, result |-> <<>>, clearing |-> FALSE, raced |-> FALSE]

InHeap(heap) == {e \in HeapKeys : heap[e] > 0}
HeapSize(heap) == MapThenSumSet(LAMBDA e : heap[e], HeapKeys)

\* score: a higher rate is better, then the smaller hash (age, depth and descendants, which
\* rank between the two, are equal here)
Better(a, b) == a[2] > b[2] \/ (a[2] = b[2] /\ a[1] < b[1])
\* the orders in which the heap may give its entries, each as often as it holds it
Copies(heap) == {c \in HeapKeys \X (1 .. MaxHeap) : c[2] <= heap[c[1]]}
HeapOrders(heap) ==
  {seq \in SetToSeqs(Copies(heap)) : \A i, j \in DOMAIN seq : i < j => ~Better(seq[j][1], seq[i][1])}

\* the pool keeps the heap's order but the rate of its copy of the map, and takes an entry once all
\* its ancestors are in; ask is [map, limit, min]
TakeEntry(ask, sel, t) ==
  IF ask.map[t] # None /\ ask.map[t] >= ask.min /\ Len(sel) < ask.limit /\ Anc[t] \subseteq ToSet(sel)
    THEN Append(sel, t) ELSE sel
PoolOrder(ask, seq) == FoldLeft(LAMBDA sel, c : TakeEntry(ask, sel, c[1][1]), <<>>, seq)

\* get_topological_order keeps the first copy of each, ancestors come first already
TakeOnce(sel, t) == IF t \in ToSet(sel) THEN sel ELSE Append(sel, t)
TopologicalOrder(map, seq, limit) ==
  LET once == FoldLeft(TakeOnce, <<>>, PoolOrder([map |-> map, limit |-> 2 * limit, min |-> 0], seq))
  IN SubSeq(once, 1, IF limit < Len(once) THEN limit ELSE Len(once))

\* the engine's filter: known, dear enough, its ancestors before it, its inputs on the chain
\* or cached
EngineTakes(cache, sel, t) ==
  /\ cache[t] # None
  /\ cache[t] >= MinRate
  /\ Anc[t] \subseteq ToSet(sel)
  /\ \A p \in Anc[t] : p \in OnChain \/ cache[p] # None
EngineStep(cache, sel, t) == IF EngineTakes(cache, sel, t) THEN Append(sel, t) ELSE sel
EngineOrder(cache, order) == FoldLeft(LAMBDA sel, t : EngineStep(cache, sel, t), <<>>, order)

\* mutant: what was popped is not pushed back
LeftPopped(map, heap) == NoEntry
\* entries the map does not know leave the heap
Cleaned(map, heap) == [e \in HeapKeys |-> IF map[e[1]] # None THEN heap[e] ELSE 0]

-----------------------------------------------------------------------------
HeapFree == prio.ord.at # "heap"
StatsFree == prio.ins.at # "stats"
CacheFree == prio.ord = AtRest     \* an order holds the engine's cache from start to end

\* register_transaction: the cache, the map, the heap, and the statistics, under which the
\* length of the heap is read
RegisterCache(t, r) ==
  /\ prio.ins = AtRest /\ CacheFree
  /\ HeapSize(prio.heap) < MaxHeap
  /\ prio' = [prio EXCEPT !.cache[t] = r, !.ins = [at |-> "cache", tx |-> t, rate |-> r]]
RegisterMap ==
  /\ prio.ins.at = "cache"
  /\ prio' = [prio EXCEPT !.map[prio.ins.tx] = prio.ins.rate, !.ins.at = "map"]
RegisterHeap ==
  /\ prio.ins.at = "map"
  /\ HeapFree
  /\ prio' = [prio EXCEPT !.heap[<<prio.ins.tx, prio.ins.rate>>] = @ + 1, !.ins = [at |-> "push"],
                      !.raced = @ \/ (prio.ord.at = "cloned" /\ prio.ord.map[prio.ins.tx] = None)]
RegisterStats == prio.ins.at = "push" /\ prio' = [prio EXCEPT !.ins = [at |-> "stats"]]
RegisterPeak == prio.ins.at = "stats" /\ HeapFree /\ prio' = [prio EXCEPT !.ins = AtRest]

\* an order clones the map, works with the heap locked, and reports with the heap still locked
OrderClone == prio.ord = AtRest /\ prio' = [prio EXCEPT !.ord = [at |-> "cloned", map |-> prio.map]]
OrderHeap(limit) ==
  /\ prio.ord.at = "cloned"
  /\ \E seq \in HeapOrders(prio.heap) :
       prio' = [prio EXCEPT !.heap = Cleaned(prio.ord.map, prio.heap), !.ord = [at |-> "heap"],
                        !.result = EngineOrder(prio.cache, TopologicalOrder(prio.ord.map, seq, limit))]
OrderStats == prio.ord.at = "heap" /\ StatsFree /\ prio' = [prio EXCEPT !.ord = AtRest]

\* peek_highest pops what is better than all that the map knows; get_high_priority is an order
\* without the filter
Popped(map, heap) == {e \in InHeap(heap) : \A x \in InHeap(heap) : map[x[1]] # None => Better(e, x)}
PeekHighest ==
  /\ HeapFree
  /\ prio' = [prio EXCEPT !.heap = [e \in HeapKeys |-> IF e \in Popped(prio.map, prio.heap) THEN 0 ELSE prio.heap[e]]]

\* the map only; the heap follows at the next order
RemoveTransaction(t) == CacheFree /\ prio' = [prio EXCEPT !.cache[t] = None, !.map[t] = None]
UpdateTransaction(t, r) == prio.map[t] # None /\ prio' = [prio EXCEPT !.map[t] = r]
\* clear empties the map and then the heap
ClearPriorities == /\ CacheFree /\ ~prio.clearing
            /\ prio' = [prio EXCEPT !.cache = Unranked, !.map = Unranked, !.clearing = TRUE]
ClearHeap == /\ HeapFree /\ prio.clearing
             /\ prio' = [prio EXCEPT !.heap = NoEntry, !.clearing = FALSE,
                                 !.raced = @ \/ \E t \in Hash : prio.map[t] # None]

OpNext == \/ \E t \in Hash : RemoveTransaction(t) \/ \E r \in FeeRates : RegisterCache(t, r) \/ UpdateTransaction(t, r)
          \/ RegisterMap \/ RegisterHeap \/ RegisterStats \/ RegisterPeak
          \/ OrderClone \/ \E limit \in Counts : OrderHeap(limit)
          \/ OrderStats \/ PeekHighest \/ ClearPriorities \/ ClearHeap

-----------------------------------------------------------------------------
\* Every prioritised transaction can be ordered: the heap has an entry for it, or the insert
\* is about to push one.
HeapCoversMap ==
  ~prio.raced => \A t \in Hash : prio.map[t] # None =>
                 \/ \E e \in InHeap(prio.heap) : e[1] = t
                 \/ prio.ins.at = "map" /\ prio.ins.tx = t

\* An order lists each transaction once and after all its ancestors.
OrderTopological ==
  \A i \in DOMAIN prio.result : /\ Anc[prio.result[i]] \subseteq ToSet(SubSeq(prio.result, 1, i - 1))
                              /\ prio.result[i] \notin ToSet(SubSeq(prio.result, 1, i - 1))

\* What the priority pool and the engine promise: a prioritised transaction is never lost from the heap
\* by the lazy cleaning, and an order is topological and without repetition, whatever the inserting
\* thread does meanwhile.
OrdersComplete == HeapCoversMap /\ OrderTopological
=============================================================================
