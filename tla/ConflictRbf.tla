---------------------------- MODULE ConflictRbf -----------------------------
(***************************************************************************)
(* Two conflict structures and the pools they drive.  Replacement by fee:  *)
(* the conflict graph of mempool/conflict_graph.rs, the decision of        *)
(* rbf_manager.rs and conflict_rbf_integration.rs; the graph knows an      *)
(* input by its position in the transaction, not by the index of the       *)
(* output it spends.  The conflict map of advanced_conflicts.rs and        *)
(* advanced_transaction_manager.rs, which drives it together with the      *)
(* dependency graph (links only to itself here, so that a removal marks    *)
(* nothing else).  A call is one step.                                     *)
(***************************************************************************)
EXTENDS Transactions, Integers, FiniteSets, SequencesExt

CONSTANTS TotalFee, ByteSize   \* [Tx -> Nat], total_fee and size_bytes of the pool's entries

VARIABLE cr   \* the graph, and the hashes of the pool; strayed is history: a cascade has
              \* taken a transaction out of the graph that the pool keeps or goes on to take

Key(t, i) == <<Spends[t][i][1], i>>
KeysOf(t) == {Key(t, i) : i \in DOMAIN Spends[t]}
Keys == UNION {KeysOf(t) : t \in Tx}

NewConflictGraph ==
  [nodes |-> {}, conf |-> [t \in Tx |-> {}], pars |-> [t \in Tx |-> {}], kids |-> [t \in Tx |-> {}],
   risk |-> {}, index |-> [k \in Keys |-> <<>>], cached |-> [t \in Tx |-> {}], pool |-> {},
   strayed |-> FALSE]

FindDescendants(g, t) ==
  LET down[n \in 0..Cardinality(Tx)] ==
        IF n = 0 THEN {t}
        ELSE LET d == down[n-1] IN d \union UNION {g.kids[x] : x \in d \intersect g.nodes}
  IN down[Cardinality(Tx)] \ {t}

\* register_transaction: a fresh node, a conflict with everything already filed under one
\* of its keys, and the list of these in the order of the inputs
DetectedConflicts(g, t) ==
  FoldLeft(LAMBDA found, k : found \o g.index[k], <<>>, [i \in DOMAIN Spends[t] |-> Key(t, i)])
RegisterNode(g, t) ==
  LET found == ToSet(DetectedConflicts(g, t))
      conf0 == [g.conf EXCEPT ![t] = {}]
  IN [g EXCEPT !.nodes = @ \union {t}, !.pars[t] = {}, !.kids[t] = {}, !.risk = @ \ {t},
               !.conf = [x \in Tx |-> conf0[x] \union (IF x = t THEN found ELSE {})
                                      \union (IF x \in found \intersect (g.nodes \union {t}) THEN {t} ELSE {})],
               !.index = [k \in Keys |-> IF k \in KeysOf(t) THEN Append(@[k], t) ELSE @[k]]]

\* mutant: the index by output keeps what a cascade removes
CascadeKeepsIndex(g, t) ==
  LET out == {t} \union FindDescendants(g, t)
  IN [g EXCEPT !.nodes = @ \ out, !.conf = [x \in Tx |-> IF x \in out THEN {} ELSE @[x]]]

\* Vec::retain
Without(list, out) == FoldLeft(LAMBDA kept, x : IF x \in out THEN kept ELSE Append(kept, x), <<>>, list)
\* remove_and_cascade: those that were in conflict with a removed transaction keep it
RemoveAndCascade(g, t) ==
  LET out == {t} \union FindDescendants(g, t)
  IN [g EXCEPT !.nodes = @ \ out, !.risk = @ \ out,
               !.conf = [x \in Tx |-> IF x \in out THEN {} ELSE @[x]],
               !.pars = [x \in Tx |-> IF x \in out THEN {} ELSE @[x] \ {y \in out : x \in g.kids[y]}],
               !.kids = [x \in Tx |-> IF x \in out THEN {} ELSE @[x] \ {y \in out : x \in g.pars[y]}],
               !.cached = [x \in Tx |-> IF x \in out THEN {} ELSE @[x]],
               !.strayed = @ \/ (out \ {t}) \intersect g.pool # {},
               !.index = [k \in Keys |-> Without(@[k], out)]]

\* out of the graph, then out of the pool
TakenOut(g, r) == [RemoveAndCascade(g, r) EXCEPT !.pool = @ \ {r}]

\* get_conflict_set answers from its cache once it has been asked
ConflictSet(g, t) ==
  IF g.cached[t] # {} THEN g.cached[t]
  ELSE {t} \union FindDescendants(g, t)
       \union UNION {g.conf[x] : x \in ({t} \union FindDescendants(g, t)) \intersect g.nodes}

\* evaluate_rbf_supremacy: pay for the bandwidth of the old one, then the better rate,
\* then (rates closer than 0.01) the smaller hash
Replaces(new, old) ==
  LET diff == TotalFee[new] * ByteSize[old] - TotalFee[old] * ByteSize[new]
      near == 100 * (IF diff < 0 THEN -diff ELSE diff) < ByteSize[new] * ByteSize[old]
  IN /\ TotalFee[new] >= TotalFee[old] + ByteSize[old]
     /\ IF near THEN new < old ELSE diff > 0

\* handle_rbf_conflicts: rival by rival; the ones beaten before a refusal stay out
BeatRival(t, acc, r) ==
  IF ~acc.ok \/ r \notin acc.g.pool \/ ~Replaces(t, r) THEN [acc EXCEPT !.ok = FALSE]
  ELSE [acc EXCEPT !.g = TakenOut(@, r)]
HandleRbf(g, t, rivals) == FoldLeft(LAMBDA acc, r : BeatRival(t, acc, r), [ok |-> TRUE, g |-> g], rivals)

-----------------------------------------------------------------------------
CrInit == cr = NewConflictGraph

\* add_transaction_with_rbf; the pool may refuse, and a refusal leaves the graph as it is
AddWithRbf(t) ==
  LET r == HandleRbf(RegisterNode(cr, t), t, DetectedConflicts(cr, t))
  IN \/ cr' = r.g
     \/ r.ok /\ cr' = [r.g EXCEPT !.pool = @ \union {t}, !.strayed = @ \/ t \notin r.g.nodes]

RemoveFromBoth(t) == cr' = TakenOut(cr, t)
GetConflictSet(t) == cr' = [cr EXCEPT !.cached[t] = ConflictSet(cr, t)]
MarkHighRisk(t) ==
  cr' = [cr EXCEPT !.risk = @ \union (({t} \union FindDescendants(cr, t)) \intersect cr.nodes)]
AddConflictDependency(c, p) ==
  /\ c \in cr.nodes
  /\ cr' = [cr EXCEPT !.pars[c] = @ \union {p},
                      !.kids[p] = IF p \in cr.nodes THEN @ \union {c} ELSE @]
\* the pool drops a transaction on its own
PoolDrops(t) == t \in cr.pool /\ cr' = [cr EXCEPT !.pool = @ \ {t}]

CrNext == \/ \E t \in Tx : \/ AddWithRbf(t) \/ RemoveFromBoth(t) \/ GetConflictSet(t)
                           \/ MarkHighRisk(t) \/ PoolDrops(t)
          \/ \E c, p \in Tx : AddConflictDependency(c, p)

-----------------------------------------------------------------------------
\* Every node is filed under each of its keys, and nothing else is filed.
IndexMatchesNodes ==
  \A k \in Keys : ToSet(cr.index[k]) = {t \in cr.nodes : k \in KeysOf(t)}

\* No two pooled transactions have a key in common, unless a pooled transaction has strayed.
PooledRivalFree ==
  ~cr.strayed => \A a, b \in cr.pool : a # b => KeysOf(a) \intersect KeysOf(b) = {}

ConflictsMutual ==
  \A a, b \in cr.nodes : a # b /\ KeysOf(a) \intersect KeysOf(b) # {} => a \in cr.conf[b]

\* What replacement by fee relies on: it finds the rivals of a transaction, and leaves one of them.
RivalsKnown == IndexMatchesNodes /\ ConflictsMutual /\ PooledRivalFree

-----------------------------------------------------------------------------
(* The conflict map *)
CONSTANT MaxArrival   \* bound on the clock of arrivals

VARIABLE am   \* claims: outpoint -> claimants; arrival; pool; now; cleared is history

Never == MaxArrival + 1      \* u64::MAX, the arrival of an unknown transaction

NewConflictMap == [claims |-> [o \in Outpoints |-> {}], arrival |-> [t \in Tx |-> Never],
                   pool |-> {}, now |-> 0, cleared |-> FALSE]

\* mutant: a claim never reports a rival
RegisterUnopposed(g, t) ==
  [g |-> [g EXCEPT !.claims = [o \in Outpoints |-> IF o \in ToSet(Spends[t]) THEN @[o] \union {t} ELSE @[o]]],
   rivals |-> {}]

\* register_transaction_internal ends at the first output that is already claimed; the
\* claim of the loser stays
ClaimOutput(t, acc, o) == IF acc.rivals # {} THEN acc
                          ELSE [g |-> [acc.g EXCEPT !.claims[o] = @ \union {t}], rivals |-> acc.g.claims[o]]
RegisterClaims(g, t) ==
  FoldLeft(LAMBDA acc, o : ClaimOutput(t, acc, o), [g |-> [g EXCEPT !.arrival[t] = g.now], rivals |-> {}], Spends[t])

\* resolve_conflict(a, b): rate, then arrival, then hash
Winner(g, a, b) ==
  LET diff == TotalFee[a] * ByteSize[b] - TotalFee[b] * ByteSize[a]
      far  == 100 * (IF diff < 0 THEN -diff ELSE diff) > ByteSize[a] * ByteSize[b]
  IN IF far THEN IF diff > 0 THEN a ELSE b
     ELSE IF g.arrival[a] # g.arrival[b] THEN IF g.arrival[a] < g.arrival[b] THEN a ELSE b
     ELSE IF a < b THEN a ELSE b
Loser(g, a, b) == IF a = b THEN a ELSE CHOOSE x \in {a, b} : x # Winner(g, a, b)

RemoveClaims(g, t) == [g EXCEPT !.claims = [o \in Outpoints |-> @[o] \ {t}], !.arrival[t] = Never]
Evicted(g, t) == [RemoveClaims(g, t) EXCEPT !.pool = @ \ {t}]

\* handle_direct_conflict looks for both parties in the pool, and one of them is the
\* transaction that is being added
HandleDirectConflict(g, t, rival) ==
  IF {t, rival} \subseteq g.pool /\ Loser(g, t, rival) # t
    THEN [ok |-> TRUE, g |-> Evicted(Evicted(g, rival), t)]
    ELSE [ok |-> FALSE, g |-> g]

-----------------------------------------------------------------------------
AmInit == am = NewConflictMap

ArrivalTick == am.now < MaxArrival /\ am' = [am EXCEPT !.now = @ + 1]

\* add_transaction; the pool may refuse
ManagerAdd(t) ==
  LET r == RegisterClaims(am, t)
      Enter(g) == {g, [g EXCEPT !.pool = @ \union {t}]}
  IN IF r.rivals = {} THEN am' \in Enter(r.g)
     ELSE \E rival \in r.rivals :
            LET h == HandleDirectConflict(r.g, t, rival)
            IN am' \in IF h.ok THEN Enter(h.g) ELSE {h.g}

ManagerRemove(t) == am' = Evicted(am, t)
\* clear leaves the pool
ClearMap == am' = [NewConflictMap EXCEPT !.pool = am.pool, !.now = am.now, !.cleared = TRUE]

AmNext == \/ \E t \in Tx : ManagerAdd(t) \/ ManagerRemove(t)
          \/ ArrivalTick \/ ClearMap

-----------------------------------------------------------------------------
\* A pooled transaction holds the claim on each of its inputs, and no other pooled one does, until
\* the map is cleared under the pool.
PooledHoldClaims ==
  ~am.cleared => \A t \in am.pool : \A o \in ToSet(Spends[t]) :
                   t \in am.claims[o] /\ am.claims[o] \intersect am.pool = {t}
=============================================================================
