--------------------------- MODULE DependencyGraph ---------------------------
(***************************************************************************)
(* The dependency graph of mempool/dependency_graph.rs: parents and        *)
(* children of each transaction, and a partition of the transactions into  *)
(* groups that fall into conflict together.  A call is one step.           *)
(***************************************************************************)
EXTENDS Transactions, FiniteSets

CONSTANT MaxPartition     \* bound on the partition ids that are handed out

ASSUME GraphAssumption == IsFiniteSet(Tx) /\ MaxPartition \in Nat

VARIABLE dg  \* the fields of the struct; 0 is "no partition"

\* known: keys of dependencies; conflict: those with in_conflict; partition: the
\* assignments; members, marked: partition_data.  gone and again are history:
\* the removed ids, and whether a removed id was registered again.
NewDependencyGraph ==
  [known |-> {}, parents |-> [t \in Tx |-> {}], children |-> [t \in Tx |-> {}],
   conflict |-> {}, partition |-> [t \in Tx |-> 0],
   members |-> [i \in 1..MaxPartition |-> {}], marked |-> {}, next |-> 1,
   gone |-> {}, again |-> FALSE]

\* register_transaction: a partition of its own for a new transaction
RegisterIn(g, t) ==
  IF t \in g.known THEN g
  ELSE [g EXCEPT !.known = @ \union {t}, !.conflict = @ \ {t},
                 !.partition[t] = g.next, !.members[g.next] = {t},
                 !.next = @ + 1, !.again = @ \/ t \in g.gone]

\* mutant: only the child itself moves to the parent's partition
MergeChildOnly(g, child, parent) ==
  LET to == g.partition[parent]
  IN [g EXCEPT !.members[to] = @ \union {child}, !.partition[child] = to]

\* merge_partitions: the whole partition of the child joins the parent's
MergePartitions(g, child, parent) ==
  LET from == g.partition[child]
      to   == g.partition[parent]
  IN IF from = to THEN g
     ELSE [g EXCEPT !.members[to] = @ \union g.members[from],
                    !.marked = IF from \in @ THEN @ \union {to} ELSE @,
                    !.partition = [t \in Tx |-> IF t \in g.members[from] THEN to ELSE @[t]]]

Linked(g, child, parent) ==
  [g EXCEPT !.parents[child] = @ \union {parent}, !.children[parent] = @ \union {child}]

AddDependencyIn(g, child, parent) ==
  MergePartitions(Linked(RegisterIn(RegisterIn(g, child), parent), child, parent), child, parent)

GetDependents(g, t) == g.children[t]
GetPartitionMembers(g, t) == IF g.partition[t] = 0 THEN {} ELSE g.members[g.partition[t]]

\* find_affected_downstream: breadth first over the children
FindAffectedDownstream(g, t) ==
  LET down[n \in 0..Cardinality(Tx)] ==
        IF n = 0 THEN {t}
        ELSE LET d == down[n-1] IN d \union UNION {GetDependents(g, x) : x \in d}
  IN down[Cardinality(Tx)]

\* mark_conflict: everything in the partition, descendants and all others
MarkConflictIn(g, t) ==
  [g EXCEPT !.marked = @ \union {g.partition[t]},
            !.conflict = @ \union (GetPartitionMembers(g, t) \intersect g.known)]

\* remove_transaction leaves the id in the members of its partition
WithoutNode(g, t) ==
  [g EXCEPT !.known = @ \ {t}, !.conflict = @ \ {t}, !.partition[t] = 0,
            !.parents = [x \in Tx |-> IF x = t THEN {} ELSE @[x] \ {t}],
            !.children = [x \in Tx |-> IF x = t THEN {} ELSE @[x] \ {t}],
            !.gone = @ \union ({t} \intersect g.known)]

-----------------------------------------------------------------------------
DgInit == dg = NewDependencyGraph

RegisterTransaction(t) == /\ dg.next <= MaxPartition
                          /\ dg' = RegisterIn(dg, t)
AddDependency(c, p) == /\ dg.next + Cardinality({c, p} \ dg.known) <= MaxPartition + 1
                       /\ dg' = AddDependencyIn(dg, c, p)
MarkConflict(t) == /\ dg.partition[t] # 0
                   /\ dg' = MarkConflictIn(dg, t)
RemoveFromGraph(t) == dg' = WithoutNode(dg, t)
Clear == dg' = NewDependencyGraph

DgNext == \/ \E t \in Tx : RegisterTransaction(t) \/ MarkConflict(t) \/ RemoveFromGraph(t)
          \/ \E c, p \in Tx : AddDependency(c, p)
          \/ Clear

-----------------------------------------------------------------------------
LinksMirrored ==
  \A c, p \in Tx : /\ p \in dg.parents[c] <=> c \in dg.children[p]
                   /\ p \in dg.parents[c] => {c, p} \subseteq dg.known

ConflictReaches ==
  ~dg.again => \A t \in dg.known : FindAffectedDownstream(dg, t) \subseteq GetPartitionMembers(dg, t)

\* What mark_conflict relies on: links run both ways and, as long as no removed id comes back, a
\* partition holds every descendant of its members.
GraphConsistent == LinksMirrored /\ ConflictReaches
=============================================================================
