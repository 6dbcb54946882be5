----------------------------- MODULE ShardedPool -----------------------------
(***************************************************************************)
(* ParallelMempool (mempool/parallel_mempool.rs) with its partitioner      *)
(* (parallel_partitioning.rs) and validator (parallel_validator.rs): every *)
(* shard has its own lock; a thread adds a batch transaction by            *)
(* transaction, one validates what was pending when it looked, one clears. *)
(* LockFreeReadLayer (lock_free_snapshot.rs), through which readers see    *)
(* the pool: a pointer to the current snapshot that writers swap, and a    *)
(* history, behind a lock of its own, of the snapshots they replaced.      *)
(***************************************************************************)
EXTENDS Transactions, FiniteSets, SequencesExt, Functions

CONSTANTS Shard,
          HashToShard,  \* [outpoints and Tx -> Shard]
          WellFormed,   \* transactions with inputs and outputs
          MaxPerShard, MaxBatches

VARIABLE sp   \* entries: [Shard -> [transactions -> status]]; used: [Shard -> SUBSET outpoints];
              \* batch: <<shard, tx>> pairs still to add; results: <<tx, status>> pairs still to
              \* apply; clearing: the shard whose entries are cleared and whose outpoints are not;
              \* batches; history: leaked: [Shard -> outpoints marked by an add that failed];
              \* torn: shards with an entry that a clear left unmarked

NoEntries == [t \in {} |-> "Pending"]
SpInit == sp = [entries |-> [s \in Shard |-> NoEntries], used |-> [s \in Shard |-> {}], batch |-> <<>>,
                results |-> <<>>, clearing |-> {}, batches |-> 0, leaked |-> [s \in Shard |-> {}], torn |-> {}]

WithStatus(f, t, status) == [x \in DOMAIN f \union {t} |-> IF x = t THEN status ELSE f[x]]

ExtractOutpoints(t) == Range(Spends[t])
\* the shard of the first input
ShardOf(t) == HashToShard[IF Spends[t] # <<>> THEN Spends[t][1] ELSE t]

ASSUME ShardsAssumption == IsFiniteSet(Tx) /\ IsFiniteSet(Shard) /\ \A t \in Tx : ShardOf(t) \in Shard

\* partition: the places in the batch of the transactions of each shard
Part(txs, s) == {k \in DOMAIN txs : ShardOf(txs[k]) = s}
WithinCapacity(txs) == \A s \in Shard : Cardinality(Part(txs, s)) <= MaxPerShard
VerifyPartitionSafety(txs) ==
  \A s \in Shard : \A i, j \in Part(txs, s) : i # j => ExtractOutpoints(txs[i]) \intersect ExtractOutpoints(txs[j]) = {}
\* shard by shard, and in each in the order of the batch
Partition(txs) ==
  {order \in SetToSeqs({<<ShardOf(txs[k]), txs[k]>> : k \in DOMAIN txs}) :
     \A i, j \in DOMAIN order : i < j =>
       \/ order[i][1] < order[j][1]
       \/ order[i][1] = order[j][1] /\ \E k, l \in DOMAIN txs : k < l /\ txs[k] = order[i][2] /\ txs[l] = order[j][2]}

\* one conflict in a shard refuses the whole batch; conflicts between shards are only counted
StartBatch(txs) ==
  /\ sp.batch = <<>> /\ sp.batches < MaxBatches
  /\ \E order \in Partition(txs) :
       sp' = [sp EXCEPT !.batches = @ + 1,
                        !.batch = IF WithinCapacity(txs) /\ VerifyPartitionSafety(txs) THEN order ELSE <<>>]

\* SubPool::add_transaction marks the outpoints up to the first that is taken
MarkedBefore(s, t) ==
  LET taken == {i \in DOMAIN Spends[t] : Spends[t][i] \in sp.used[s]}
  IN {Spends[t][i] : i \in {j \in DOMAIN Spends[t] : \A k \in taken : j < k}}
AddToShard(s, t) ==
  LET marks == MarkedBefore(s, t)
      fits == marks = ExtractOutpoints(t)
  IN IF t \in DOMAIN sp.entries[s] THEN sp
     ELSE [sp EXCEPT !.used[s] = @ \union marks,
                     !.entries[s] = IF fits THEN WithStatus(@, t, "Pending") ELSE @,
                     !.leaked[s] = IF fits THEN @ ELSE @ \union marks,
                     !.torn = IF fits /\ s \in sp.clearing THEN @ \union {s} ELSE @]
AddNext == /\ sp.batch # <<>>
           /\ sp' = [AddToShard(sp.batch[1][1], sp.batch[1][2]) EXCEPT !.batch = Tail(@)]

\* mutant: the outpoints stay marked
RemoveMarked(s, t) == [sp EXCEPT !.entries[s] = Restrict(@, DOMAIN @ \ {t})]
RemoveFromShard(s, t) == [sp EXCEPT !.entries[s] = Restrict(@, DOMAIN @ \ {t}), !.used[s] = @ \ ExtractOutpoints(t)]
Homes(t) == {s \in Shard : t \in DOMAIN sp.entries[s]}
RemoveTransaction(t) == \E s \in Homes(t) : sp' = RemoveFromShard(s, t)

UpdatedIn(s, t, status) == [sp EXCEPT !.entries[s] = WithStatus(@, t, status)]
UpdateStatus(t, status) == \E s \in Homes(t) : sp' = UpdatedIn(s, t, status)

\* validate_parallel reads what is pending and judges the copies
ValidateSingle(t) == IF t \in WellFormed THEN "Validated" ELSE "Invalid"
ValidateParallel ==
  /\ sp.results = <<>>
  /\ \E order \in SetToSeqs({t \in Tx : \E s \in Homes(t) : sp.entries[s][t] = "Pending"}) :
       /\ order # <<>>
       /\ sp' = [sp EXCEPT !.results = [i \in DOMAIN order |-> <<order[i], ValidateSingle(order[i])>>]]
\* apply_results goes on if the transaction has left
ApplyResult ==
  /\ sp.results # <<>>
  /\ LET r == Head(sp.results)
         rest == Tail(sp.results)
     IN IF Homes(r[1]) = {} THEN sp' = [sp EXCEPT !.results = rest]
        ELSE \E s \in Homes(r[1]) : sp' = [UpdatedIn(s, r[1], r[2]) EXCEPT !.results = rest]

\* SubPool::clear takes the two locks one after the other
ClearEntries(s) == /\ sp.clearing = {}
                   /\ sp' = [sp EXCEPT !.entries[s] = NoEntries, !.clearing = {s}, !.torn = @ \ {s}]
ClearOutpoints == \E s \in sp.clearing :
  sp' = [sp EXCEPT !.used[s] = {}, !.leaked[s] = {}, !.clearing = {}]

SpNext == \/ \E txs \in UNION {SetToSeqs(S) : S \in SUBSET Tx} : StartBatch(txs)
          \/ AddNext \/ ValidateParallel \/ ApplyResult \/ ClearOutpoints
          \/ \E t \in Tx : RemoveTransaction(t) \/ UpdateStatus(t, "Conflicted")
          \/ \E s \in Shard : ClearEntries(s)

-----------------------------------------------------------------------------
\* What verify_consistency checks and more: in a shard no output is spent twice, and the marked
\* outputs are those of the entries and those an add that failed has left behind, which no
\* later transaction can spend.  A clear that an add slips into breaks both.
OutputsMarked ==
  \A s \in Shard \ (sp.clearing \union sp.torn) :
    LET here == DOMAIN sp.entries[s]
    IN /\ \A t, u \in here : t # u => ExtractOutpoints(t) \intersect ExtractOutpoints(u) = {}
       /\ sp.used[s] = (UNION {ExtractOutpoints(t) : t \in here}) \union sp.leaked[s]
       /\ \A t \in here : ExtractOutpoints(t) \intersect sp.leaked[s] = {}

\* The validator judges copies: what it marks valid is well formed all the same.
OnlyWellFormedValidated ==
  \A s \in Shard : \A t \in DOMAIN sp.entries[s] : sp.entries[s][t] = "Validated" => t \in WellFormed

-----------------------------------------------------------------------------
(* Snapshots for readers *)
CONSTANTS Thread,
          Contents,   \* what a writer may publish: sets of [tx, status, fee]
          MaxHistory, MaxUpdates, MaxRollbacks

VARIABLE ls   \* current: a snapshot [id, data, counts, total]; history; call: what each thread is at:
              \* [op, old]; updates: snapshots made; back: rollbacks made; cleared: clear_history was called;
              \* pushed, lost: ids that were pushed to the history, that a rollback replaced

CountOf(data, status) == Cardinality({e \in data : e.status = status})
\* the counts of a snapshot; a confirmed entry is in none of them
Counted == {"pending", "validated", "invalid"}
ASSUME SnapshotsAssumption ==
  /\ MaxHistory \in Nat
  /\ \A data \in Contents : IsFiniteSet(data) /\ \A e \in data : e.status \in Counted \union {"confirmed"} /\ e.fee \in Nat
Snap(id, data) ==
  LET counts == [s \in Counted |-> CountOf(data, s)]
  IN [id |-> id, data |-> data, counts |-> counts,
      total |-> counts["pending"] + counts["validated"] + counts["invalid"]]

LsInit == ls = [current |-> Snap(0, {}), history |-> <<>>, call |-> [p \in Thread |-> [op |-> "none", old |-> Snap(0, {})]],
                updates |-> 0, back |-> 0, cleared |-> FALSE, pushed |-> <<>>, lost |-> {}]
At(p, op) == ls.call[p].op = op

\* the swap gives the writer the snapshot that it replaces
UpdateSwap(p, data) ==
  /\ At(p, "none") /\ ls.updates < MaxUpdates
  /\ ls' = [ls EXCEPT !.current = Snap(ls.updates + 1, data), !.updates = @ + 1, !.call[p] = [op |-> "push", old |-> ls.current]]
\* mutant: the snapshot kept is the one current now
KeepCurrent(p) == ls.current
Kept(p) == ls.call[p].old
Trimmed(history) == IF Len(history) > MaxHistory THEN SubSeq(history, Len(history) - MaxHistory + 1, Len(history)) ELSE history
UpdateHistory(p) ==
  /\ At(p, "push")
  /\ ls' = [ls EXCEPT !.history = Trimmed(Append(@, Kept(p))), !.pushed = Append(@, Kept(p).id), !.call[p].op = "none"]

\* the entry is read under the lock, the swap follows it and drops what was current
RollbackRead(p, index) ==
  /\ At(p, "none") /\ ls.back < MaxRollbacks /\ index \in DOMAIN ls.history
  /\ ls' = [ls EXCEPT !.call[p] = [op |-> "roll", old |-> ls.history[index]], !.back = @ + 1]
RollbackSwap(p) ==
  /\ At(p, "roll")
  /\ ls' = [ls EXCEPT !.current = ls.call[p].old, !.call[p].op = "none", !.lost = @ \union {ls.current.id}]
ClearHistory(p) == At(p, "none") /\ ls.history # <<>> /\ ls' = [ls EXCEPT !.history = <<>>, !.cleared = TRUE]

LsNext == \E p \in Thread : \/ \E data \in Contents : UpdateSwap(p, data)
                            \/ \E index \in 1 .. MaxHistory : RollbackRead(p, index)
                            \/ UpdateHistory(p) \/ RollbackSwap(p) \/ ClearHistory(p)

-----------------------------------------------------------------------------
\* the sort by fee leaves entries of one fee in the order it finds them in
FeeOrders(snap) == {q \in SetToSeqs(snap.data) : \A i, j \in DOMAIN q : i < j => q[i].fee >= q[j].fee}
GetTopByFee(order, n) == {order[i] : i \in 1 .. n}
FilterByStatus(snap, status) == {e \in snap.data : e.status = status}
VerifySnapshotConsistency(snap) == snap.counts["pending"] + snap.counts["validated"] + snap.counts["invalid"] = snap.total

\* No snapshot is lost between the pointer and the history: every one that was published is current, in
\* a writer's hands, was pushed to the history or was replaced by a rollback, and until a rollback puts
\* one back none is pushed twice, in whatever order the writers reach the history; the history is the
\* last of what was pushed, within its bound, unless it was cleared.
SnapshotsKept ==
  LET inHands == {ls.call[p].old.id : p \in {q \in Thread : At(q, "push")}}
      n == Len(ls.history)
  IN /\ 0 .. ls.updates = {ls.current.id} \union inHands \union Range(ls.pushed) \union ls.lost
     /\ ls.back = 0 => /\ IsInjective(ls.pushed)
                       /\ {ls.current.id} \union inHands \subseteq (0 .. ls.updates) \ Range(ls.pushed)
     /\ n <= MaxHistory
     /\ [i \in 1 .. n |-> ls.history[i].id] = SubSeq(ls.pushed, Len(ls.pushed) - n + 1, Len(ls.pushed))
     /\ ls.cleared \/ n = MaxHistory \/ n = Len(ls.pushed)

\* Whatever snapshot a reader gets hold of, its counts are those of its entries: verify_snapshot_consistency
\* holds, the filter by status finds as many as were counted, and the total leaves out only what is confirmed.
SnapshotsCounted ==
  \A snap \in Range(ls.history) \union {ls.current} :
    /\ VerifySnapshotConsistency(snap)
    /\ \A s \in Counted : Cardinality(FilterByStatus(snap, s)) = snap.counts[s]
    /\ snap.total + CountOf(snap.data, "confirmed") = Cardinality(snap.data)

\* get_top_by_fee leaves out of a snapshot nothing that pays more than what it takes.
TopsPayMost ==
  \A snap \in Range(ls.history) \union {ls.current} : \A order \in FeeOrders(snap), n \in 0 .. Cardinality(snap.data) :
    LET top == GetTopByFee(order, n) IN \A a \in top, b \in snap.data \ top : a.fee >= b.fee

\* What the sharded pool promises: its writers, that outputs are marked as they are spent and nothing
\* malformed is validated; its readers, that no snapshot is lost, each is counted right and the top of each pays most.
ShardsConsistent == OutputsMarked /\ OnlyWellFormedValidated /\ SnapshotsKept /\ SnapshotsCounted /\ TopsPayMost
=============================================================================
