------------------------------ MODULE NodePool ------------------------------
(***************************************************************************)
(* TransactionPool of klomang-node (src/mempool/pool.rs): the pool that is *)
(* shared, behind an Arc, by the network, the block builder and the        *)
(* maintenance tasks of a node.                                            *)
(*                                                                         *)
(* add_transaction is not atomic: it takes and releases the lock of one    *)
(* structure after the other, and threads interleave between them.  Every  *)
(* thread has a stack of frames, one per call of add_transaction (adopting *)
(* an orphan calls it again); a step of a frame is the part of the call    *)
(* between two points where another thread can change what the rest of the *)
(* call relies on.  The other operations of the pool are one step.         *)
(*                                                                         *)
(* A transaction is known by its hash, a number, and offered with a fee    *)
(* rate (total_fee / size_bytes are arguments of the call, not of the      *)
(* transaction).                                                           *)
(***************************************************************************)
EXTENDS PoolParts

CONSTANTS
    Tx,                    \* hashes, numbers
    Threads,
    Spends,                \* Spends[x]: the outpoints <<transaction, index>> of its inputs
    Outputs,               \* Outputs[x]: the outpoints it creates
    Rates,                 \* Rates[x]: the fee rates it may be offered with
    Weight,                \* Weight[x]: calculate_tx_weight
    MinDensity,            \* MinDensity[x]: 1, 2 or 5, the fee density its size asks for
    Source,                \* Source[x]: derive_source_key
    InitialUtxo,           \* the outpoints in the UTXO store at first
    MAX_POOL_SIZE, MAX_ORPHANS, MAX_SIZE_BYTES, MIN_FEE_RATE, FEE_BUMP_PERCENT,
    MAX_PER_SOURCE, HOT_TIER_MAX, MAX_CHAIN_DEPTH,
    MaxAdds, MaxOther, MaxHours    \* bounds of the exploration

ASSUME NodePoolAssumption ==
    /\ Tx \subseteq Nat /\ IsFiniteSet(Tx)
    /\ \A x \in Tx :
        /\ Weight[x] \in Nat /\ MinDensity[x] \in Nat /\ Rates[x] \subseteq Nat
        /\ IsFiniteSet(Spends[x]) /\ IsFiniteSet(Outputs[x])
        /\ \A op \in Outputs[x] : op[2] \in Nat
    /\ {MAX_POOL_SIZE, MAX_ORPHANS, MAX_SIZE_BYTES, MAX_CHAIN_DEPTH} \subseteq Nat \ {0}
    /\ {MIN_FEE_RATE, FEE_BUMP_PERCENT} \subseteq Nat

VARIABLES
    pool,                  \* by_hash: x -> [rate, time, status]
    marked,                \* orphans: hashes set to InOrphanPool
    sched,                 \* priority_scheduler.priorities: x -> fee rate
    index,                 \* multi_dimensional_index: [byHash, economic]
    ordering,              \* deterministic_ordering: x -> entries in the buckets; hash_index
    limiter, graph, orphans,
    hot,                   \* the hot tier of the resource optimizer
    txdb,                  \* column family Transactions of the store
    cache,                 \* the store's mempool cache
    utxo,                  \* the UTXO store
    minFee, tokens,        \* fee_filter.current_min_fee; source_rate_buckets
    now,                   \* hours
    stack,                 \* stack[t]: the calls of add_transaction thread t is in
    alone,                 \* no two operations have overlapped so far
    adds, others           \* operations left to start (upkeep is not counted)

parts == <<sched, index, ordering>>
env == <<utxo, now, adds, others>>
vars == <<pool, marked, parts, limiter, graph, orphans, hot, txdb, cache, minFee, tokens,
          stack, alone, env>>

Statuses == {"Pending", "Validated", "InOrphanPool", "InBlock", "Rejected"}

PoolInit ==
    /\ pool = <<>> /\ marked = {} /\ sched = <<>>
    /\ index = [byHash |-> <<>>, economic |-> {}]
    /\ ordering = [entries |-> [x \in Tx |-> 0], indexed |-> {}]
    /\ limiter = NewLimiter /\ graph = NewGraph /\ orphans = NewOrphans
    /\ hot = {} /\ txdb = {} /\ cache = {} /\ utxo = InitialUtxo
    /\ minFee = MIN_FEE_RATE /\ tokens = [s \in {Source[x] : x \in Tx} |-> MAX_PER_SOURCE]
    /\ now = 0 /\ stack = [t \in Threads |-> <<>>]
    /\ alone = TRUE /\ adds = MaxAdds /\ others = MaxOther

----------------------------------------------------------------------------
(* Frames. *)

(* A call: what it adds, at which rate and density threshold, and what it  *)
(* has left: rivals to remove, outputs to look at, orphans to offer.       *)
Frame(x, rate, density) ==
    [tx |-> x, rate |-> rate, density |-> density, pc |-> "admit", rivals |-> {}, outs |-> {},
     todo |-> {}]
Top(t) == Last(stack[t])
At(t, pc) == stack[t] # <<>> /\ Top(t).pc = pc
SetTop(t, f) == stack' = [stack EXCEPT ![t] = Front(@) \o <<f>>]
Goto(t, pc) == SetTop(t, [Top(t) EXCEPT !.pc = pc])
Return(t) == stack' = [stack EXCEPT ![t] = Front(@)]
Idle == \A t \in Threads : stack[t] = <<>>

(* A thread calls add_transaction. *)
Call(t) ==
    /\ adds > 0 /\ stack[t] = <<>>
    /\ \E x \in Tx : \E rate \in Rates[x] :
            stack' = [stack EXCEPT ![t] = <<Frame(x, rate, MinDensity[x])>>]
    /\ alone' = (alone /\ Idle)
    /\ adds' = adds - 1
    /\ UNCHANGED <<pool, marked, parts, limiter, graph, orphans, hot, txdb, cache, minFee, tokens,
                   utxo, now, others>>

----------------------------------------------------------------------------
(* Admission. *)

(* FeeFilter::update_threshold for n of MAX_POOL_SIZE transactions; it does*)
(* nothing within ten seconds of the last update (due is FALSE).  The      *)
(* mutant lowers the fee below its base.                                   *)
MutUpdateThreshold(fee, n, due) ==
    IF ~due THEN fee ELSE IF 4 * n < MAX_POOL_SIZE THEN fee - 1 ELSE fee
UpdateThreshold(fee, n, due) ==
    LET bump == (MIN_FEE_RATE * n * FEE_BUMP_PERCENT + MAX_POOL_SIZE * 100 - 1)
                    \div (MAX_POOL_SIZE * 100)
    IN  IF ~due THEN fee
        ELSE IF 4 * n > 3 * MAX_POOL_SIZE THEN MIN_FEE_RATE + bump
        ELSE IF 4 * n < MAX_POOL_SIZE THEN fee - ((fee - MIN_FEE_RATE) \div 2)
        ELSE fee

(* The size check, and a mutant that is off by one. *)
MutPoolFull == Cardinality(DOMAIN pool) > MAX_POOL_SIZE
PoolFull == Cardinality(DOMAIN pool) >= MAX_POOL_SIZE

(* add_transaction to the size check.  In strict mode, which depends on    *)
(* the load of the machine, the rate offered is doubled before its density *)
(* is checked.                                                             *)
Admit(t) ==
    /\ At(t, "admit")
    /\ \E multiplier \in {1, 2}, due \in BOOLEAN :
        LET f == Top(t)
            s == Source[f.tx]
            dense == f.rate * multiplier >= f.density
            fee == UpdateThreshold(minFee, Cardinality(DOMAIN pool), due)
            paid == dense /\ f.rate >= fee
        IN  /\ minFee' = IF dense THEN fee ELSE minFee
            /\ tokens' = IF paid /\ tokens[s] > 0 THEN [tokens EXCEPT ![s] = @ - 1] ELSE tokens
            /\ IF paid /\ tokens[s] > 0 /\ ~PoolFull THEN Goto(t, "space") ELSE Return(t)
    /\ UNCHANGED <<pool, marked, parts, limiter, graph, orphans, hot, txdb, cache, alone, env>>

(* The memory limit: when not enough can be freed the call fails, and the  *)
(* limiter has dropped the weights of transactions that stay in the pool.  *)
MakeSpace(t) ==
    /\ At(t, "space")
    /\ LET w == Weight[Top(t).tx]
           freed == MakeSpaceFor(limiter, w, sched, MAX_SIZE_BYTES)
       IN  IF ~WouldExceedLimit(limiter, w, MAX_SIZE_BYTES)
           THEN /\ Goto(t, "register")
                /\ UNCHANGED <<pool, sched, limiter, cache>>
           ELSE /\ limiter' = freed.limiter
                /\ IF freed.freed < w
                   THEN Return(t) /\ UNCHANGED <<pool, sched, cache>>
                   ELSE /\ Goto(t, "register")
                        /\ pool' = Without(pool, freed.evicted)
                        /\ sched' = Without(sched, freed.evicted)
                        /\ cache' = cache \ freed.evicted
    /\ UNCHANGED <<marked, index, ordering, graph, orphans, hot, txdb, minFee, tokens, alone, env>>

----------------------------------------------------------------------------
(* Conflicts. *)

(* get_effective_fee_rate: ten percent an hour, at most tripled; 0 for a   *)
(* transaction that is not in the pool.                                    *)
StarvationBoost(rate, hours) == (rate * (10 + IF hours < 20 THEN hours ELSE 20)) \div 10
EffectiveFeeRate(x) ==
    IF x \in DOMAIN pool THEN StarvationBoost(pool[x].rate, now - pool[x].time) ELSE 0

(* Whether x offered at this rate beats y. *)
Beats(x, rate, y) ==
    rate > EffectiveFeeRate(y) \/ (rate = EffectiveFeeRate(y) /\ x < y)

(* _apply_deterministic_supremacy: it has to beat the strongest of them;   *)
(* in the mutant, one of them.                                             *)
MutSupremacy(x, rate, rivals) == rivals = {} \/ \E c \in rivals : Beats(x, rate, c)
Supremacy(x, rate, rivals) ==
    LET strongest == CHOOSE c \in rivals : \A d \in rivals :
            EffectiveFeeRate(d) < EffectiveFeeRate(c)
                \/ (EffectiveFeeRate(d) = EffectiveFeeRate(c) /\ c <= d)
    IN  rivals = {} \/ Beats(x, rate, strongest)

(* register_transaction of the graph: the rivals it reports. *)
Register(t) ==
    /\ At(t, "register")
    /\ LET f == Top(t)
           keys == KeysOf(Spends[f.tx])
       IN  /\ graph' = RegisterTransaction(graph, f.tx, keys, [rate |-> f.rate, time |-> now])
           /\ SetTop(t, [f EXCEPT !.pc = "resolve",
                                  !.rivals = DetectedConflicts(graph, f.tx, keys)])
    /\ UNCHANGED <<pool, marked, parts, limiter, orphans, hot, txdb, cache, minFee, tokens, alone,
                   env>>

(* detect_double_spend and the verdict on the rivals. *)
Resolve(t) ==
    /\ At(t, "resolve")
    /\ LET f == Top(t)
       IN  IF ~DetectDoubleSpend(graph, f.tx)
           THEN SetTop(t, [f EXCEPT !.pc = "replace", !.rivals = {}])
           ELSE IF Supremacy(f.tx, f.rate, f.rivals) THEN Goto(t, "replace") ELSE Return(t)
    /\ UNCHANGED <<pool, marked, parts, limiter, graph, orphans, hot, txdb, cache, minFee, tokens,
                   alone, env>>

(* remove of transactions that are in the pool: everything but the graph   *)
(* and the hot tier.                                                       *)
Economic(x) == <<index.byHash[x].rate, x>>
RemoveAll(S) ==
    /\ pool' = Without(pool, S)
    /\ marked' = marked \ S
    /\ sched' = Without(sched, S)
    /\ index' = [byHash |-> Without(index.byHash, S),
                 economic |-> index.economic \ {Economic(x) : x \in S \cap DOMAIN index.byHash}]
    /\ ordering' = [entries |-> [x \in Tx |-> IF x \in S \cap ordering.indexed
                                               THEN ordering.entries[x] - 1
                                               ELSE ordering.entries[x]],
                    indexed |-> ordering.indexed \ S]
    /\ limiter' = RemoveTxWeight(limiter, S)
    /\ cache' = cache \ S

(* The pooled rivals leave, one after the other; the others stay in the    *)
(* graph.  The mutant leaves the pool as it is.                            *)
MutUnpool(c) == UNCHANGED <<pool, marked, parts, limiter, cache>>
Unpool(c) == RemoveAll({c})

Replace(t) ==
    /\ At(t, "replace")
    /\ IF Top(t).rivals = {}
       THEN Goto(t, "validate") /\ UNCHANGED <<pool, marked, parts, limiter, cache, graph>>
       ELSE \E c \in Top(t).rivals :
                /\ SetTop(t, [Top(t) EXCEPT !.rivals = @ \ {c}])
                /\ IF c \in DOMAIN pool
                   THEN Unpool(c) /\ graph' = RemoveTransactionCascade(graph, c)
                   ELSE UNCHANGED <<pool, marked, parts, limiter, cache, graph>>
    /\ UNCHANGED <<orphans, hot, txdb, minFee, tokens, alone, env>>

----------------------------------------------------------------------------
(* Validation against the UTXO store, and the orphan pool. *)

Missing(x) == Spends[x] \ utxo

Validate(t) ==
    /\ At(t, "validate")
    /\ LET f == Top(t)
           entry == [missing |-> Missing(f.tx), rate |-> f.rate, time |-> now]
       IN  IF Missing(f.tx) = {}
           THEN Goto(t, "enter") /\ UNCHANGED orphans
           ELSE /\ orphans' \in AddOrphan(orphans, f.tx, entry, MAX_ORPHANS)
                /\ Return(t)
    /\ UNCHANGED <<pool, marked, parts, limiter, graph, hot, txdb, cache, minFee, tokens, alone,
                   env>>

(* _add_to_main_pool: the second check of the memory limit and the tiers.  *)
(* What the hot tier has no room for is written to the transactions of the *)
(* chain.                                                                  *)
Enter(t) ==
    /\ At(t, "enter")
    /\ LET x == Top(t).tx
       IN  IF WouldExceedLimit(limiter, Weight[x], MAX_SIZE_BYTES)
           THEN Return(t) /\ UNCHANGED <<hot, txdb>>
           ELSE /\ Goto(t, "track")
                /\ IF Cardinality(hot) < HOT_TIER_MAX
                   THEN hot' = hot \cup {x} /\ UNCHANGED txdb
                   ELSE txdb' = txdb \cup {x} /\ UNCHANGED hot
    /\ UNCHANGED <<pool, marked, parts, limiter, graph, orphans, cache, minFee, tokens, alone, env>>

(* The secondary structures; a mutant leaves out the scheduler. *)
MutScheduled(x, rate) == sched
Scheduled(x, rate) == With(sched, x, rate)

Track(t) ==
    /\ At(t, "track")
    /\ LET x == Top(t).tx
           rate == Top(t).rate
       IN  /\ sched' = Scheduled(x, rate)
           /\ index' = [byHash |-> With(index.byHash, x, [rate |-> rate, time |-> now]),
                        economic |-> index.economic \cup {<<rate, x>>}]
           /\ ordering' = [entries |-> [ordering.entries EXCEPT ![x] = @ + 1],
                           indexed |-> ordering.indexed \cup {x}]
           /\ limiter' = AddTxWeight(limiter, x, Weight[x])
    /\ Goto(t, "link")
    /\ UNCHANGED <<pool, marked, graph, orphans, hot, txdb, cache, minFee, tokens, alone, env>>

(* _adopt_waiting_orphans: the linker takes the whole chain of waiting     *)
(* orphans out of the orphan pool and keeps only their number.             *)
Link(t) ==
    /\ At(t, "link")
    /\ orphans' = LinkOrphanChain(orphans, Top(t).tx, Outputs, MAX_CHAIN_DEPTH)
    /\ SetTop(t, [Top(t) EXCEPT !.pc = "adopt", !.outs = Outputs[Top(t).tx]])
    /\ UNCHANGED <<pool, marked, parts, limiter, graph, hot, txdb, cache, minFee, tokens, alone, env>>

(* _adopt_waiting_orphans_recursive, output after output: what waits for   *)
(* it now ...                                                              *)
Adopt(t) ==
    /\ At(t, "adopt") /\ Top(t).todo = {}
    /\ LET op == CHOOSE o \in Top(t).outs : \A p \in Top(t).outs : o[2] <= p[2]
       IN  IF Top(t).outs = {} THEN Goto(t, "insert") /\ UNCHANGED orphans
           ELSE /\ orphans' = ProcessOrphans(orphans, {op})
                /\ SetTop(t, [Top(t) EXCEPT !.outs = @ \ {op}, !.todo = Waiting(orphans, {op})])
    /\ UNCHANGED <<pool, marked, parts, limiter, graph, hot, txdb, cache, minFee, tokens, alone, env>>

(* ... is offered again with an estimated size and fee. *)
EstimatedRate(x) == 1000 \div (32 * Cardinality(Spends[x]))

Offer(t) ==
    /\ At(t, "adopt")
    /\ \E y \in Top(t).todo :
            stack' = [stack EXCEPT ![t] = Front(@) \o
                        <<[Top(t) EXCEPT !.todo = @ \ {y}], Frame(y, EstimatedRate(y), 1)>>]
    /\ UNCHANGED <<pool, marked, parts, limiter, graph, orphans, hot, txdb, cache, minFee, tokens,
                   alone, env>>

Insert(t) ==
    /\ At(t, "insert")
    /\ LET f == Top(t)
       IN  /\ pool' = With(pool, f.tx, [rate |-> f.rate, time |-> now, status |-> "Pending"])
           /\ cache' = cache \cup {f.tx}
    /\ Return(t)
    /\ UNCHANGED <<marked, parts, limiter, graph, orphans, hot, txdb, minFee, tokens, alone, env>>

Step(t) ==
    \/ Admit(t) \/ MakeSpace(t) \/ Register(t) \/ Resolve(t) \/ Replace(t) \/ Validate(t) \/ Enter(t)
    \/ Track(t) \/ Link(t) \/ Adopt(t) \/ Offer(t) \/ Insert(t)

----------------------------------------------------------------------------
(* The other operations of the pool, one step each. *)

Other == others > 0 /\ others' = others - 1 /\ alone' = (alone /\ Idle)
(* Upkeep that finds nothing to do is a stuttering step. *)
Upkeep == others' = others /\ alone' = (alone /\ Idle)

RemoveTx(x) ==
    /\ Other /\ x \in DOMAIN pool /\ RemoveAll({x})
    /\ UNCHANGED <<graph, orphans, hot, txdb, minFee, tokens, stack, utxo, now, adds>>

CanTransitionTo(from, to) ==
    \/ from = "Pending" /\ to \in {"Validated", "InOrphanPool", "Rejected"}
    \/ from = "InOrphanPool" /\ to \in {"Validated", "Rejected"}
    \/ from = "Validated" /\ to \in {"InBlock", "Rejected"}
    \/ from \notin {"InBlock", "Rejected"} /\ to = from

SetStatus(x, status) ==
    /\ Other /\ x \in DOMAIN pool /\ CanTransitionTo(pool[x].status, status)
    /\ pool' = [pool EXCEPT ![x].status = status]
    /\ marked' = IF status = "InOrphanPool" THEN marked \cup {x} ELSE marked
    /\ UNCHANGED <<parts, limiter, graph, orphans, hot, txdb, cache, minFee, tokens, stack, utxo,
                   now, adds>>

PoolExpired(x) == pool[x].status \in {"InOrphanPool", "Rejected"} /\ pool[x].time < now

(* cleanup_expired: by_hash alone. *)
CleanupExpired ==
    /\ Upkeep
    /\ \E x \in DOMAIN pool : PoolExpired(x)
    /\ pool' = Without(pool, {x \in DOMAIN pool : PoolExpired(x)})
    /\ UNCHANGED <<marked, parts, limiter, graph, orphans, hot, txdb, cache, minFee, tokens, stack,
                   utxo, now, adds>>

CleanupOrphans ==
    /\ Upkeep
    /\ orphans # CleanupExpiredOrphans(orphans, now)
    /\ orphans' = CleanupExpiredOrphans(orphans, now)
    /\ UNCHANGED <<pool, marked, parts, limiter, graph, hot, txdb, cache, minFee, tokens, stack,
                   utxo, now, adds>>

(* reconcile_with_blockchain: what is among the transactions of the chain. *)
Reconcile ==
    /\ Upkeep /\ DOMAIN pool \cap txdb # {} /\ RemoveAll(DOMAIN pool \cap txdb)
    /\ UNCHANGED <<graph, orphans, hot, txdb, minFee, tokens, stack, utxo, now, adds>>

Clear ==
    /\ Other
    /\ pool' = <<>> /\ marked' = {} /\ sched' = <<>>
    /\ index' = [byHash |-> <<>>, economic |-> {}]
    /\ ordering' = [entries |-> [x \in Tx |-> 0], indexed |-> {}]
    /\ tokens' = [s \in DOMAIN tokens |-> MAX_PER_SOURCE]
    /\ UNCHANGED <<limiter, graph, orphans, hot, txdb, cache, minFee, stack, utxo, now, adds>>

(* A block with transaction x is stored: the storage layer moves its       *)
(* outputs and files it among the transactions of the chain.               *)
BlockStored(x) ==
    /\ Other /\ Spends[x] \subseteq utxo
    /\ utxo' = (utxo \ Spends[x]) \cup Outputs[x]
    /\ txdb' = txdb \cup {x}
    /\ UNCHANGED <<pool, marked, parts, limiter, graph, orphans, hot, cache, minFee, tokens, stack,
                   now, adds>>

(* An hour passes between calls: the rate limit window is over. *)
Tick ==
    /\ Idle /\ now < MaxHours
    /\ now' = now + 1
    /\ tokens' = [s \in DOMAIN tokens |-> MAX_PER_SOURCE]
    /\ UNCHANGED <<pool, marked, parts, limiter, graph, orphans, hot, txdb, cache, minFee, stack,
                   alone, utxo, adds, others>>

PoolNext ==
    \/ \E t \in Threads : Call(t) \/ Step(t)
    \/ \E x \in Tx : RemoveTx(x) \/ BlockStored(x) \/ (\E s \in Statuses : SetStatus(x, s))
    \/ CleanupExpired \/ CleanupOrphans \/ Reconcile \/ Clear \/ Tick

PoolSpec == PoolInit /\ [][PoolNext]_vars

----------------------------------------------------------------------------
(* Every structure of the pool has its type. *)
PoolTypeOK ==
    /\ DOMAIN pool \subseteq Tx /\ \A x \in DOMAIN pool : pool[x].status \in Statuses
    /\ minFee >= MIN_FEE_RATE
    /\ \A x \in Tx : ordering.entries[x] \in Nat
    /\ limiter.current \in Nat
    /\ \A t \in Threads : \A i \in DOMAIN stack[t] : stack[t][i].tx \in Tx

(* One call at a time keeps max_pool_size and the memory limit, although   *)
(* each is checked long before it is used up.                              *)
SerialLimits ==
    alone => Cardinality(DOMAIN pool) <= MAX_POOL_SIZE /\ limiter.current <= MAX_SIZE_BYTES

(* The running total of the limiter never falls below the weights it       *)
(* tracks, so that fetch_sub cannot wrap around.                           *)
TotalCoversWeights ==
    limiter.current >= WeightOf(limiter, DOMAIN limiter.weights)

(* Whatever is registered, replaced and re-registered, in any interleaving,*)
(* two transactions of the graph that claim the same key know each other.  *)
ConflictsComplete ==
    \A a, b \in DOMAIN graph.nodes :
        (a # b /\ KeysOf(Spends[a]) \cap KeysOf(Spends[b]) # {}) => <<a, b>> \in graph.conflicts

(* prepare_block_candidate takes what the pool still holds of the canonical*)
(* block: no two transactions of it spend the same output.                 *)
Block == BuildBlockCanonical(graph, now, Weight, MAX_SIZE_BYTES)
CandidateConflictFree ==
    \A i, j \in DOMAIN Block :
        (i # j /\ {Block[i], Block[j]} \subseteq DOMAIN pool)
            => Spends[Block[i]] \cap Spends[Block[j]] = {}

(* Without overlapping calls the pool never holds two transactions that    *)
(* spend the same output.                                                  *)
SerialConflictFree ==
    alone => \A a, b \in DOMAIN pool : a # b => Spends[a] \cap Spends[b] = {}

(* Without overlapping calls every transaction of the pool is found by its *)
(* scheduler, its indexes, the ordering, the graph and the mempool cache.  *)
SerialIndexed ==
    alone => \A x \in DOMAIN pool :
        /\ x \in DOMAIN sched /\ x \in cache
        /\ x \in DOMAIN index.byHash /\ <<pool[x].rate, x>> \in index.economic
        /\ ordering.entries[x] > 0 /\ x \in ordering.indexed
        /\ KeysOf(Spends[x]) \X {x} \subseteq graph.claims

(* Every orphan is filed under each input it misses: no parent can arrive  *)
(* without finding it.                                                     *)
OrphansFiled ==
    \A x \in DOMAIN orphans.entries : orphans.entries[x].missing \X {x} \subseteq orphans.index

(* Without overlapping calls, a conflict takes a transaction out of the    *)
(* pool only for one with a better claim, also when it has been boosted    *)
(* for its age.                                                            *)
ReplacedByBetter ==
    [][alone => \A t \in Threads : (At(t, "replace") /\ stack'[t] # stack[t]) =>
            \A c \in DOMAIN pool \ DOMAIN pool' : Beats(Top(t).tx, Top(t).rate, c)]_vars

(* What overlapping calls cannot break (the weights, the orphans' index    *)
(* and block candidates), and what only they can (limits, rivals, indexes).*)
PoolSound ==
    /\ PoolTypeOK /\ TotalCoversWeights /\ CandidateConflictFree /\ OrphansFiled
    /\ SerialLimits /\ SerialConflictFree /\ SerialIndexed
============================================================================
