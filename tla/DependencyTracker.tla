-------------------------- MODULE DependencyTracker --------------------------
(***************************************************************************)
(* The recursive tracker of mempool/recursive_dependency_tracker.rs and    *)
(* the manager around it: ancestors and descendants of each transaction in *)
(* full, its resolution status, and the set of invalid transactions.       *)
(* A call is one step.  One operation never returns: after its answer is   *)
(* known, resolve_dependency_chain asks for the map entry it still holds.  *)
(***************************************************************************)
EXTENDS Transactions, FiniteSets, FiniteSetsExt

CONSTANTS Inputs,       \* [Tx -> SUBSET Tx]: the transactions a transaction spends from
          MaxAncestry   \* max_ancestry_size

ASSUME TrackerAssumption == IsFiniteSet(Tx)

VARIABLE tr

\* keys, parents: immediate_parents; children: immediate_children; anc, desc: the two
\* transitive maps; status, vanc, depth: validations; cache: status_cache
NewTracker ==
  [keys |-> {}, parents |-> [t \in Tx |-> {}], children |-> [t \in Tx |-> {}],
   anc |-> [t \in Tx |-> {}], desc |-> [t \in Tx |-> {}],
   status |-> [t \in Tx |-> "none"], vanc |-> [t \in Tx |-> {}], depth |-> [t \in Tx |-> 0],
   invalid |-> {}, cache |-> [t \in Tx |-> "none"], stuck |-> FALSE]

Validated(g) == {t \in Tx : g.status[t] # "none"}

\* _build_ancestors_recursive: follows what earlier failures left in immediate_parents,
\* and takes the stored ancestors of what is validated
BuildAncestors(g, direct) ==
  LET reach[n \in 0..Cardinality(Tx)] ==
        IF n = 0 THEN direct
        ELSE LET r == reach[n-1]
             IN r \union UNION {g.parents[x] : x \in (r \intersect g.keys) \ Validated(g)}
      all == reach[Cardinality(Tx)]
  IN all \union UNION {g.vanc[x] : x \in all \intersect Validated(g)}

\* _validate_ancestors_recursive
ValidateAncestors(g, ancestors) ==
  IF \E a \in ancestors : g.status[a] = "invalid" THEN "invalid"
  ELSE IF ancestors \subseteq Validated(g) THEN "ready"
  ELSE "unresolved"

\* register_transaction with the inputs that are not on the chain; a failure leaves the
\* parents it has already stored
Registered(g, t, direct) ==
  LET stored == [g EXCEPT !.keys = @ \union {t}, !.parents[t] = direct]
      all    == BuildAncestors(stored, direct)
  IN IF t \in Validated(g) THEN g
     ELSE IF t \in all \/ Cardinality(all) > MaxAncestry THEN stored
     ELSE [stored EXCEPT
             !.anc[t] = all,
             !.desc = [a \in Tx |-> IF a \in all THEN @[a] \union {t} ELSE @[a]],
             !.children = [p \in Tx |-> IF p \in direct THEN @[p] \union {t} ELSE @[p]],
             !.status[t] = ValidateAncestors(stored, all),
             !.vanc[t] = all,
             !.depth[t] = 1 + Max({0} \union {g.depth[a] : a \in all \intersect Validated(g)})]

\* the closure cascade_invalidate walks
Affected(g, t) ==
  LET down[n \in 0..Cardinality(Tx)] ==
        IF n = 0 THEN {t} ELSE LET d == down[n-1] IN d \union UNION {g.desc[x] : x \in d}
  IN down[Cardinality(Tx)]

Invalidated(g, t) ==
  LET hit == Affected(g, t)
  IN [g EXCEPT !.invalid = @ \union hit,
               !.status = [x \in Tx |-> IF x \in hit \intersect Validated(g) THEN "invalid" ELSE @[x]]]

\* mutant: the ancestors keep the removed transaction as a descendant
RemovedOneSided(g, t) ==
  [g EXCEPT !.anc[t] = {}, !.keys = @ \ {t}, !.parents[t] = {}, !.status[t] = "none",
            !.vanc[t] = {}, !.invalid = @ \ {t}]

\* remove_transaction: the loop over the immediate parents comes after their removal and
\* finds nothing, so immediate_children keeps the transaction
RemovedFrom(g, t) ==
  [g EXCEPT !.anc = [x \in Tx |-> IF x = t THEN {} ELSE IF x \in g.desc[t] THEN @[x] \ {t} ELSE @[x]],
            !.desc = [x \in Tx |-> IF x = t THEN {} ELSE IF x \in g.anc[t] THEN @[x] \ {t} ELSE @[x]],
            !.keys = @ \ {t}, !.parents[t] = {}, !.children[t] = {},
            !.status[t] = "none", !.vanc[t] = {}, !.depth[t] = 0,
            !.invalid = @ \ {t}]

\* resolve_dependency_chain(t) returns for an invalid or an unknown transaction only; on
\* its way into the second lock it may have recorded that t, or an ancestor it has
\* descended to, has an invalid ancestor
Resolves(g, t) == t \in g.invalid \/ t \notin Validated(g)
ResolveHang(g, t) ==
  LET under == {x \in {t} \union g.anc[t] : (g.anc[x] \intersect Validated(g)) \intersect g.invalid # {}}
  IN {[g EXCEPT !.stuck = TRUE]}
     \union {[g EXCEPT !.stuck = TRUE, !.invalid = @ \union {x}] : x \in under \intersect Validated(g)}

-----------------------------------------------------------------------------
TrInit == tr = NewTracker

Running == ~tr.stuck

TrackTransaction(t) ==
  /\ Running
  /\ \E onChain \in SUBSET Inputs[t] : tr' = Registered(tr, t, Inputs[t] \ onChain)
CascadeInvalidate(t) == Running /\ tr' = Invalidated(tr, t)
UntrackTransaction(t) == Running /\ tr' = [RemovedFrom(tr, t) EXCEPT !.cache[t] = "none"]
Reset == Running /\ tr' = NewTracker

ResolveDependencyChain(t) ==
  /\ Running
  /\ ~Resolves(tr, t)
  /\ tr' \in ResolveHang(tr, t)

\* RecursiveDependencyManager::register_transaction: track, resolve, remember the status,
\* cascade when invalid
RegisterManaged(t, s) ==
  /\ Running
  /\ \E onChain \in SUBSET Inputs[t] :
       LET g == Registered(tr, t, Inputs[t] \ onChain)
       IN \/ t \notin Validated(g) /\ tr' = g
          \/ ~Resolves(g, t) /\ tr' \in ResolveHang(g, t)
          \/ /\ t \in g.invalid
             /\ t \in Validated(g)
             /\ tr' = Invalidated([g EXCEPT !.cache[t] = s], t)

UpdateTransactionStatus(t, s) == Running /\ tr' = [tr EXCEPT !.cache[t] = s]

TrNext ==
  \/ \E t \in Tx : \/ TrackTransaction(t) \/ CascadeInvalidate(t) \/ UntrackTransaction(t)
                   \/ ResolveDependencyChain(t)
                   \/ \E s \in {"Validated"} : RegisterManaged(t, s) \/ UpdateTransactionStatus(t, s)
  \/ Reset

-----------------------------------------------------------------------------
AncestryMirrored == \A a, t \in Tx : a \in tr.anc[t] <=> t \in tr.desc[a]

NotOwnAncestor == \A t \in Tx : t \notin tr.anc[t]

ReadyNotOverInvalid ==
  \A t \in Tx : tr.status[t] = "ready" => \A a \in tr.anc[t] : tr.status[a] # "invalid"

\* The ancestor and the descendant map are each other's inverse, nobody is its own ancestor, and
\* nothing is ready over an invalid ancestor.
AncestryConsistent == AncestryMirrored /\ NotOwnAncestor /\ ReadyNotOverInvalid
=============================================================================
