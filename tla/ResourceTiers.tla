---------------------------- MODULE ResourceTiers ----------------------------
(***************************************************************************)
(* ResourceOptimizer (mempool/resource_optimizer.rs): a hot tier in memory *)
(* and a cold tier in the store.  The hot tier is a concurrent map and a   *)
(* counter of bytes that is changed after the map; threads add, remove and *)
(* reclaim at the same time.  The cold tier only ever takes: what it holds *)
(* is not turned back into a transaction, so get_transaction and           *)
(* promote_transaction find nothing there and change neither tier.         *)
(***************************************************************************)
EXTENDS Integers, FiniteSets, FiniteSetsExt, Functions

CONSTANTS Item, Worker,           \* transactions and threads
          Size, FeeRate,          \* estimate_memory_size and the rate given, per transaction
          MaxHot, MaxHotBytes,    \* hot_tier_max_transactions, hot_tier_max_memory_bytes
          LruWeight, FeeWeight,   \* in tenths
          AgeLimit, MaxNow,       \* the age at which the score stops growing; bound on the clock
          MaxTierCalls, MaxFailures   \* bounds on calls and on failing writes of the store

ASSUME TiersAssumption == IsFiniteSet(Worker) /\ \A t \in Item : Size[t] \in Nat

VARIABLE rz   \* hot: [transactions -> arrival]; bytes; cold; now; calls; failures; call: what each
              \* thread is at: [op, tx, left]; history: wanted: added and not removed since;
              \* lost: taken from the hot tier and refused by the store; twice: bytes of entries
              \* that were overwritten; back: in the cold tier in spite of their removal

Idle == [op |-> "idle", tx |-> {}, left |-> {}]
RzInit == rz = [hot |-> [t \in {} |-> 0], bytes |-> 0, cold |-> {}, now |-> 0, calls |-> 0, failures |-> 0,
                call |-> [p \in Worker |-> Idle], wanted |-> {}, lost |-> {}, twice |-> 0, back |-> {}]

Doing(p, op) == rz.call[p].op = op
TheTx(p) == CHOOSE t \in rz.call[p].tx : TRUE
Begin(p) == Doing(p, "idle") /\ rz.calls < MaxTierCalls
MayFail == rz.failures < MaxFailures

\* add_transaction: the limits are looked at, then the entry is put in, then its bytes are counted;
\* what does not fit goes to the cold tier.  An entry removed before it is counted takes the counter
\* below zero for a while: it wraps, a negative number here stands for a huge one.
Fits(t) == Cardinality(DOMAIN rz.hot) < MaxHot /\ rz.bytes + Size[t] \in 0 .. MaxHotBytes
CheckLimits(p, t) ==
  /\ Begin(p)
  /\ rz' = [rz EXCEPT !.calls = @ + 1,
                      !.call[p] = [op |-> IF Fits(t) THEN "insert" ELSE "spill", tx |-> {t}, left |-> {}]]
Arrived(hot, t, now) == [x \in DOMAIN hot \union {t} |-> IF x = t THEN now ELSE hot[x]]
Insert(p) ==
  /\ Doing(p, "insert")
  /\ LET t == TheTx(p)
     IN rz' = [rz EXCEPT !.hot = Arrived(@, t, rz.now), !.call[p].op = "count", !.wanted = @ \union {t}, !.lost = @ \ {t},
                         !.twice = IF t \in DOMAIN rz.hot THEN @ + Size[t] ELSE @]
\* mutant: an entry that is in the cold tier as well is not counted, though its removal is
CountNew(t) == IF t \in rz.cold THEN 0 ELSE Size[t]
CountBytes(t) == Size[t]
Count(p) == /\ Doing(p, "count")
            /\ rz' = [rz EXCEPT !.bytes = @ + CountBytes(TheTx(p)), !.call[p] = Idle]
\* the store refuses: the caller gets the error
Spill(p) ==
  /\ Doing(p, "spill")
  /\ \/ rz' = [rz EXCEPT !.cold = @ \union {TheTx(p)}, !.wanted = @ \union {TheTx(p)}, !.lost = @ \ {TheTx(p)},
                         !.call[p] = Idle]
     \/ MayFail /\ rz' = [rz EXCEPT !.failures = @ + 1, !.call[p] = Idle]

\* remove_transaction: out of the hot tier, its bytes off, out of the cold tier
RemoveHot(p, t) ==
  /\ Begin(p)
  /\ rz' = [rz EXCEPT !.calls = @ + 1, !.hot = Restrict(@, DOMAIN @ \ {t}), !.wanted = @ \ {t},
                      !.call[p] = [op |-> IF t \in DOMAIN rz.hot THEN "discount" ELSE "thaw", tx |-> {t}, left |-> {}]]
Discount(p) == Doing(p, "discount") /\ rz' = [rz EXCEPT !.bytes = @ - Size[TheTx(p)], !.call[p].op = "thaw"]
RemoveCold(p) ==
  /\ Doing(p, "thaw")
  /\ LET t == TheTx(p)
     IN \/ rz' = [rz EXCEPT !.cold = @ \ {t}, !.back = @ \ {t}, !.call[p] = Idle,
                            !.wanted = IF t \in DOMAIN rz.hot THEN @ ELSE @ \ {t}]
        \/ MayFail /\ rz' = [rz EXCEPT !.failures = @ + 1, !.back = @ \union (rz.cold \intersect {t}), !.call[p] = Idle]

\* calculate_eviction_score and select_victim: the lowest score of the candidates gathered at the
\* start, with the metadata they had then
Aged(arrival) == LET age == rz.now - arrival IN IF age < AgeLimit THEN age ELSE AgeLimit
EvictionScore(t, arrival) == LruWeight * Aged(arrival) + FeeWeight * AgeLimit * FeeRate[t]
Victims(candidates) == {c \in candidates : \A d \in candidates : EvictionScore(c[1], c[2]) <= EvictionScore(d[1], d[2])}

\* reclaim_space; a victim that is gone is passed over
StartReclaim(p) ==
  /\ Begin(p) /\ rz.hot # <<>>
  /\ rz' = [rz EXCEPT !.calls = @ + 1, !.call[p] = [op |-> "select", tx |-> {}, left |-> {<<t, rz.hot[t]>> : t \in DOMAIN rz.hot}]]
BelowMark(bytes) == bytes >= 0 /\ bytes * 100 < 80 * MaxHotBytes
Select(p) ==
  /\ Doing(p, "select")
  /\ \/ rz.call[p].left = {} /\ rz' = [rz EXCEPT !.call[p] = Idle]
     \/ \E c \in Victims(rz.call[p].left) :
          LET there == c[1] \in DOMAIN rz.hot
          IN rz' = [rz EXCEPT !.hot = Restrict(@, DOMAIN @ \ {c[1]}),
                              !.call[p] = [op |-> IF there THEN "freed" ELSE "mark", tx |-> {c[1]}, left |-> @.left \ {c}]]
Freed(p) == Doing(p, "freed") /\ rz' = [rz EXCEPT !.bytes = @ - Size[TheTx(p)], !.call[p].op = "freeze"]
Freeze(p) ==
  /\ Doing(p, "freeze")
  /\ \/ rz' = [rz EXCEPT !.cold = @ \union {TheTx(p)}, !.call[p].op = "mark",
                         !.back = IF TheTx(p) \in rz.wanted THEN @ ELSE @ \union {TheTx(p)}]
     \/ MayFail /\ rz' = [rz EXCEPT !.failures = @ + 1, !.lost = @ \union {TheTx(p)}, !.call[p] = Idle]
Mark(p) == Doing(p, "mark") /\ rz' = [rz EXCEPT !.call[p] = IF BelowMark(rz.bytes) THEN Idle ELSE [@ EXCEPT !.op = "select"]]

Tick == rz.now < MaxNow /\ rz' = [rz EXCEPT !.now = @ + 1]

RzNext == \/ Tick
          \/ \E p \in Worker :
               \/ \E t \in Item : CheckLimits(p, t) \/ RemoveHot(p, t)
               \/ Insert(p) \/ Count(p) \/ Spill(p) \/ Discount(p) \/ RemoveCold(p)
               \/ StartReclaim(p) \/ Select(p) \/ Freed(p) \/ Freeze(p) \/ Mark(p)

-----------------------------------------------------------------------------
\* When no call is under way, the bytes counted are those of the entries and of entries that were
\* overwritten, whatever was added, removed and reclaimed at the same time.
BytesAccounted ==
  (\A p \in Worker : Doing(p, "idle")) => rz.bytes = MapThenSumSet(LAMBDA t : Size[t], DOMAIN rz.hot) + rz.twice

\* A transaction that was added and not removed is in a tier unless the store refused it when it was
\* evicted, and one that was removed is in none unless the store refused to delete it or a reclaim that
\* had taken it before stored it afterwards.
NothingLost ==
  (\A p \in Worker : Doing(p, "idle")) =>
     /\ rz.wanted \ rz.lost \subseteq DOMAIN rz.hot \union rz.cold
     /\ DOMAIN rz.hot \subseteq rz.wanted
     /\ rz.cold \ rz.wanted \subseteq rz.back

\* With adds, removals and reclaims interleaved, the bytes of the hot tier are counted to the entry and
\* nothing that was added and not removed is in neither tier, failures of the store aside.
TiersSound == BytesAccounted /\ NothingLost
=============================================================================
