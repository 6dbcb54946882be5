--------------------------- MODULE PoolMaintenance ---------------------------
(***************************************************************************)
(* What works on the entries of the node pool from outside: the eviction   *)
(* engine (mempool/eviction.rs), the revalidation after a block            *)
(* (revalidation.rs, with the validator of validation.rs) and the          *)
(* selection for a block template (selection.rs).  A call is one step.     *)
(***************************************************************************)
EXTENDS Transactions, FiniteSets, SequencesExt

CONSTANTS EntrySpends, EntryFee, EntrySize,   \* of a transaction: the outputs it spends, its fee, its size
          Coins,               \* outputs on the chain at the start
          Creates,             \* [Tx -> SUBSET outputs]
          MaxCount, MaxBytes,  \* EvictionPolicy
          BatchSize,           \* batch_size of the policy
          Criteria,            \* limits of a selection: [count, bytes, fees]
          MaxPoolTime

ASSUME MaintenanceAssumption ==
  /\ IsFiniteSet(Tx) /\ BatchSize \in Nat /\ Criteria \subseteq [count : Nat, bytes : Nat, fees : Nat]
  /\ EntryFee \in [Tx -> Nat] /\ EntrySize \in [Tx -> Nat \ {0}]

VARIABLE pm   \* status of the pool's entries and their arrival; orphans: the orphan list;
              \* utxos: the UTXO store; now; misled is history: orphans that a block which
              \* spent their inputs turned into validated ones

EntryInputs(t) == ToSet(EntrySpends[t])
Pooled(g) == {t \in Tx : g.status[t] # "none"}

\* TransactionStatus::can_transition_to
CanBecome(s, to) ==
  \/ s = "Pending" /\ to \in {"Validated", "InOrphanPool", "Rejected"}
  \/ s = "InOrphanPool" /\ to \in {"Validated", "Rejected"}
  \/ s = "Validated" /\ to \in {"InBlock", "Rejected"}
  \/ s \in {"Pending", "InOrphanPool", "Validated"} /\ s = to
SetStatus(g, t, to) ==
  IF ~CanBecome(g.status[t], to) THEN g
  ELSE [g EXCEPT !.status[t] = to,
                 !.orphans = IF to = "InOrphanPool" THEN @ \union {t} ELSE @,
                 !.misled = @ \ {t}]
RemoveFrom(g, t) == [g EXCEPT !.status[t] = "none", !.orphans = @ \ {t}, !.misled = @ \ {t}]

\* PoolValidator: every input is an output of the store
Valid(g, t) == EntryInputs(t) \subseteq g.utxos

-----------------------------------------------------------------------------
\* Eviction.  A transaction gains score with its age.
EntryRate(t) == EntryFee[t] \div EntrySize[t]
EntryScore(g, t) == EntryRate(t) * Max({1, g.now - g.arrival[t]})
NeedEviction(g) == \/ Cardinality(Pooled(g)) >= MaxCount
                   \/ MapThenSumSet(LAMBDA t : EntrySize[t], Pooled(g)) >= MaxBytes
Candidates(g) == {t \in Tx : g.status[t] \in {"Rejected", "InOrphanPool"}}
\* the orders in which a heap gives the entries of a set, or a sort lists them
OrdersBy(S, Before(_, _)) ==
  {order \in SetToSeqs(S) : \A i, j \in DOMAIN order : i < j => ~Before(order[j], order[i])}
\* lowest score, then smallest hash
GoesBefore(g, a, b) == EntryScore(g, a) < EntryScore(g, b) \/ (EntryScore(g, a) = EntryScore(g, b) /\ a < b)
\* mutant: the heap gives the highest score first
BestFirst(g) == OrdersBy(Candidates(g), LAMBDA a, b : GoesBefore(g, b, a))
EvictionOrders(g) == OrdersBy(Candidates(g), LAMBDA a, b : GoesBefore(g, a, b))
AfterEviction(g, order, batch) ==
  IF NeedEviction(g) THEN FoldLeft(RemoveFrom, g, SubSeq(order, 1, Min({batch, Len(order)}))) ELSE g
\* a batch of evict_lowest_priority, and those of adaptive_eviction under pressure
Batches == {BatchSize, (3 * BatchSize) \div 2, 2 * BatchSize}

-----------------------------------------------------------------------------
\* Revalidation after a block that spends the outputs in spent.
\* mutant: an affected entry is left to the next validation
LeaveAffected(g, block, t) == IF t \in block THEN SetStatus(g, t, "InBlock") ELSE g
RevalidateOne(g, block, t) ==
  IF t \in block THEN SetStatus(g, t, "InBlock")
  ELSE IF Valid(g, t) THEN g
  ELSE IF g.status[t] = "InOrphanPool"
    THEN [SetStatus(g, t, "Validated") EXCEPT !.misled = @ \union {t}]
  ELSE RemoveFrom(g, t)
ResolveOrphan(g, t) == IF Valid(g, t) THEN SetStatus(g, t, "Validated") ELSE g
AffectedBy(g, spent) == {t \in Pooled(g) : EntryInputs(t) \intersect spent # {}}
RevalidateAll(g, block, order) == FoldLeft(LAMBDA acc, t : RevalidateOne(acc, block, t), g, order)
Revalidated(g, block, spent) ==
  LET first == RevalidateAll(g, block, SetToSeq(AffectedBy(g, spent)))
  IN FoldLeft(ResolveOrphan, first, SetToSeq(first.orphans))

-----------------------------------------------------------------------------
\* Selection: by fee rate, then the later arrival, then the larger hash; or by arrival.
\* The first entry that does not fit ends it.
ByFee(g, a, b) ==
  \/ EntryRate(a) > EntryRate(b)
  \/ EntryRate(a) = EntryRate(b) /\ g.arrival[a] > g.arrival[b]
  \/ EntryRate(a) = EntryRate(b) /\ g.arrival[a] = g.arrival[b] /\ a > b
ByArrival(g, a, b) == g.arrival[a] < g.arrival[b] \/ (g.arrival[a] = g.arrival[b] /\ a < b)
SumOf(f, seq) == FoldLeft(LAMBDA s, t : s + f[t], 0, seq)
\* mutant: an entry that does not fit is passed over
PassOver(acc, t, c) ==
  IF Len(acc.sel) < c.count /\ SumOf(EntrySize, acc.sel) + EntrySize[t] <= c.bytes /\ SumOf(EntryFee, acc.sel) + EntryFee[t] <= c.fees
    THEN [acc EXCEPT !.sel = Append(@, t)] ELSE acc
Take(acc, t, c) ==
  IF \/ acc.full
     \/ Len(acc.sel) >= c.count
     \/ SumOf(EntrySize, acc.sel) + EntrySize[t] > c.bytes
     \/ SumOf(EntryFee, acc.sel) + EntryFee[t] > c.fees
    THEN [acc EXCEPT !.full = TRUE]
    ELSE [acc EXCEPT !.sel = Append(@, t)]
SelectEntries(order, c) == FoldLeft(LAMBDA acc, t : Take(acc, t, c), [sel |-> <<>>, full |-> FALSE], order).sel

-----------------------------------------------------------------------------
PmInit == pm = [status |-> [t \in Tx |-> "none"], arrival |-> [t \in Tx |-> 0], orphans |-> {},
                utxos |-> Coins, now |-> 0, misled |-> {}]

Arrive(t) == /\ pm.status[t] = "none"
             /\ pm' = [pm EXCEPT !.status[t] = "Pending", !.arrival[t] = pm.now]
\* the pool's own validation of a pending entry, and a rejection by whoever
Validate(t) == /\ pm.status[t] = "Pending"
               /\ pm' = SetStatus(pm, t, IF Valid(pm, t) THEN "Validated" ELSE "InOrphanPool")
Reject(t) == t \in Pooled(pm) /\ pm' = SetStatus(pm, t, "Rejected")
\* evict_lowest_priority, and adaptive_eviction under pressure
EvictLowestPriority(batch) == \E order \in EvictionOrders(pm) : pm' = AfterEviction(pm, order, batch)
RevalidateOnBlock(block) ==
  LET spent == UNION {EntryInputs(t) : t \in block}
      store == [pm EXCEPT !.utxos = (@ \ spent) \union UNION {Creates[t] : t \in block}]
  IN /\ \A t \in block : Valid(pm, t)
     /\ \A a, b \in block : a # b => EntryInputs(a) \intersect EntryInputs(b) = {}
     /\ pm' = Revalidated(store, block, spent)
PmTick == pm.now < MaxPoolTime /\ pm' = [pm EXCEPT !.now = @ + 1]

PmNext == \/ \E t \in Tx : Arrive(t) \/ Validate(t) \/ Reject(t)
          \/ \E b \in Batches : EvictLowestPriority(b)
          \/ \E block \in SUBSET Tx \ {{}} : RevalidateOnBlock(block)
          \/ PmTick

-----------------------------------------------------------------------------
\* What is ready for a block can be spent on the chain, except for the misled orphans.
ReadyIsSpendable ==
  \A t \in Tx : pm.status[t] = "Validated" /\ t \notin pm.misled => Valid(pm, t)

\* An eviction takes the entries of lowest score among those that may go: whatever may go
\* and stays has a score that is no lower.
LowestGoFirst ==
  \A order \in EvictionOrders(pm), batch \in Batches :
    LET gone == Pooled(pm) \ Pooled(AfterEviction(pm, order, batch))
    IN \A t \in gone, s \in Candidates(pm) \ gone :
         t \in Candidates(pm) /\ EntryScore(pm, t) <= EntryScore(pm, s)

\* A selection is the longest run of the first entries that respects every limit, and nothing it leaves
\* out comes before what it takes.
WithinLimits(c, s) == Len(s) <= c.count /\ SumOf(EntrySize, s) <= c.bytes /\ SumOf(EntryFee, s) <= c.fees
LongestFit(order, c) == SubSeq(order, 1, Max({k \in 0 .. Len(order) : WithinLimits(c, SubSeq(order, 1, k))}))
SelectsBest(Before(_, _)) ==
  \A order \in OrdersBy(Pooled(pm), Before), c \in Criteria :
    LET sel == SelectEntries(order, c)
    IN /\ sel = LongestFit(order, c)
       /\ \A t \in ToSet(sel), s \in Pooled(pm) \ ToSet(sel) : ~Before(s, t)
SelectionIsLongest == /\ SelectsBest(LAMBDA a, b : ByFee(pm, a, b))
                      /\ SelectsBest(LAMBDA a, b : ByArrival(pm, a, b))

\* What eviction and selection promise of the order they work in: the entries of lowest score go first,
\* and a template is filled from the best entry on until the first that exceeds a limit.
EvictsAndSelectsInOrder == LowestGoFirst /\ SelectionIsLongest
=============================================================================
