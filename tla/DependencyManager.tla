-------------------------- MODULE DependencyManager --------------------------
(***************************************************************************)
(* TxDependencyManager (mempool/advanced_dependency_manager.rs) with the   *)
(* ordering engine and the eviction system that work on it: direct parents *)
(* and children, the depth of each transaction and the index by depth.     *)
(* Hash sets are iterated in any order, so an operation that depends on    *)
(* the order is a set of outcomes.  A call is one step.                    *)
(***************************************************************************)
EXTENDS Naturals, FiniteSets, SequencesExt

CONSTANTS Tx, Inputs

VARIABLE dm

Depths == 0..(Cardinality(Tx) + 1)

\* tracked: keys of child_to_parents and execution_depth; gone is history
NewManager ==
  [tracked |-> {}, pars |-> [t \in Tx |-> {}], kids |-> [t \in Tx |-> {}],
   depth |-> [t \in Tx |-> 0], level |-> [d \in Depths |-> {}], gone |-> {}]

Closure(f, S) ==
  LET up[n \in 0..Cardinality(Tx)] ==
        IF n = 0 THEN UNION {f[x] : x \in S}
        ELSE LET u == up[n-1] IN u \union UNION {f[x] : x \in u}
  IN up[Cardinality(Tx)]

\* _collect_all_ancestors (what _get_execution_sequence orders), and
\* get_all_transitive_dependents
Ancestors(g, t) == Closure(g.pars, {t})
Dependents(g, t) == Closure(g.kids, {t})

DepthOver(g, direct) ==
  IF direct = {} THEN 0
  ELSE 1 + Max({0} \union {g.depth[p] : p \in direct \intersect g.tracked})

\* _detect_cycles: the new transaction is met above its parents
CreatesCycle(g, t, direct) == t \in direct \union Closure(g.pars, direct)

RegisterIn(g, t, direct) ==
  LET d == DepthOver(g, direct)
  IN IF t \in g.tracked \/ CreatesCycle(g, t, direct) THEN g
     ELSE [g EXCEPT !.tracked = @ \union {t}, !.pars[t] = direct, !.depth[t] = d,
                    !.kids = [p \in Tx |-> IF p \in direct THEN @[p] \union {t} ELSE @[p]],
                    !.level[d] = @ \union {t}]

\* mutant: the old level keeps the child
RecalculatedTwice(g, t) ==
  LET d == DepthOver(g, g.pars[t])
  IN [g EXCEPT !.depth[t] = d, !.level[d] = @ \union {t}]

\* _recalculate_depth of one child
Recalculated(g, t) ==
  LET d == DepthOver(g, g.pars[t])
  IN [g EXCEPT !.depth[t] = d,
               !.level = [l \in Depths |-> IF l = d THEN @[l] \union {t} ELSE @[l] \ {t}]]

Dropped(g, t) ==
  [g EXCEPT !.tracked = @ \ {t}, !.pars[t] = {}, !.kids[t] = {}, !.depth[t] = 0,
            !.level[g.depth[t]] = IF t \in g.tracked THEN @ \ {t} ELSE @,
            !.gone = @ \union {t}]

\* remove_transaction: children keep the removed parent; one without parents goes too
RECURSIVE Remove_(_, _)
Remove_(g, stack) ==
  IF stack = <<>> THEN {g}
  ELSE LET cur == Last(stack)
           Child(acc, c) == IF c \notin acc.g.tracked THEN acc
                            ELSE IF acc.g.pars[c] = {} THEN [acc EXCEPT !.push = Append(@, c)]
                            ELSE [acc EXCEPT !.g = Recalculated(@, c)]
           After(kids) == FoldLeft(Child, [g |-> Dropped(g, cur), push |-> <<>>], kids)
       IN UNION {Remove_(After(k).g, Front(stack) \o After(k).push) : k \in SetToSeqs(g.kids[cur])}
RemoveOutcomes(g, t) == Remove_(g, <<t>>)

\* evict_transaction_cascade: a dependent follows when all its ancestors were visited
RECURSIVE Evict_(_, _, _)
Evict_(g, queue, visited) ==
  IF queue = <<>> THEN {g}
  ELSE IF Head(queue) \in visited THEN Evict_(g, Tail(queue), visited)
  ELSE LET cur  == Head(queue)
           seen == visited \union {cur}
           lost == {d \in Dependents(g, cur) : Ancestors(g, d) \subseteq seen}
       IN UNION {Evict_(h, Tail(queue) \o q, seen) : q \in SetToSeqs(lost), h \in RemoveOutcomes(g, cur)}
EvictOutcomes(g, t) == Evict_(g, <<t>>, {})

\* evict_by_criteria: those of depth 0 that meet the criterion, one after the other
RECURSIVE RemoveEach(_, _)
RemoveEach(gs, seq) ==
  IF seq = <<>> THEN gs
  ELSE RemoveEach(UNION {RemoveOutcomes(g, Head(seq)) : g \in gs}, Tail(seq))

-----------------------------------------------------------------------------
\* The ordering engine.  _build_adjacency_structures looks at the depths from 0 up to
\* the first that is empty, and counts every ancestor, tracked or not, as an edge.
Collected(g) ==
  UNION {g.level[d] : d \in {d \in Depths : \A e \in 0..d : g.level[e] # {}}}
\* mutant: only the direct parents count
DirectInDegree(g) == [t \in Collected(g) |-> Cardinality(g.pars[t])]
InDegree(g) == [t \in Collected(g) |-> Cardinality(Ancestors(g, t))]
Successors(g) == [p \in Collected(g) |-> {t \in Collected(g) : p \in Ancestors(g, t)}]

\* get_topological_sort_kahn: every order the queue can produce
RECURSIVE Kahn(_, _, _, _)
Kahn(adj, deg, queue, sorted) ==
  IF queue = <<>> THEN {sorted}
  ELSE LET cur   == Head(queue)
           left  == [t \in DOMAIN deg |-> IF t \in adj[cur] THEN deg[t] - 1 ELSE deg[t]]
           fresh == {t \in adj[cur] : left[t] = 0}
       IN UNION {Kahn(adj, left, Tail(queue) \o q, Append(sorted, cur)) : q \in SetToSeqs(fresh)}
TopologicalSorts(g) ==
  UNION {Kahn(Successors(g), InDegree(g), q, <<>>) :
           q \in SetToSeqs({t \in Collected(g) : InDegree(g)[t] = 0})}

-----------------------------------------------------------------------------
DmInit == dm = NewManager

RegisterTransaction(t) ==
  \E onChain \in SUBSET Inputs[t] : dm' = RegisterIn(dm, t, Inputs[t] \ onChain)
RemoveTransaction(t) == dm' \in RemoveOutcomes(dm, t)
EvictTransactionCascade(t) == dm' \in EvictOutcomes(dm, t)
EvictByCriteria ==
  \E S \in SUBSET dm.level[0] : \E q \in SetToSeqs(S) : dm' \in RemoveEach({dm}, q)
Clear == dm' = NewManager

DmNext == \/ \E t \in Tx : \/ RegisterTransaction(t) \/ RemoveTransaction(t)
                           \/ EvictTransactionCascade(t)
          \/ EvictByCriteria
          \/ Clear

-----------------------------------------------------------------------------
DepthIndexExact ==
  \A t \in Tx, d \in Depths : t \in dm.level[d] <=> t \in dm.tracked /\ dm.depth[t] = d

NoCycle == \A t \in Tx : t \notin Ancestors(dm, t)

ChildrenLinked ==
  \A c \in dm.tracked : \A p \in dm.pars[c] : c \in dm.kids[p] \/ p \in dm.gone

\* What any sort returns is topological, and it leaves out only what has an ancestor that
\* it has not collected.
SortsTopologically ==
  \A s \in TopologicalSorts(dm) :
    /\ \A i, j \in DOMAIN s : i <= j => s[j] \notin Ancestors(dm, s[i])
    /\ ToSet(s) = {t \in Collected(dm) : Ancestors(dm, t) \subseteq Collected(dm)}
    /\ Len(s) = Cardinality(ToSet(s))
=============================================================================
