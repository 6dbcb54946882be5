----------------------------- MODULE FeeQueues ------------------------------
(***************************************************************************)
(* Transactions sorted by fee rate.  MultiQueueAdmissionSystem             *)
(* (mempool/multi_queue.rs): three bounded queues, and a rebalance that    *)
(* moves what has waited too long from the low queue to the standard one.  *)
(* PriorityBuckets (mempool/priority_ordering.rs) and the deterministic    *)
(* ordering engine that wraps them: each bucket holds a range of fee       *)
(* rates, kept in order by a binary search.                                *)
(***************************************************************************)
EXTENDS Transactions, FiniteSets, SequencesExt

CONSTANTS Rate,                      \* [Tx -> Nat]: inputs and outputs times ten
          MaxHigh, MaxStd, MaxLow,   \* max_size of the queues
          MaxAge,                    \* max_age_ms of the low queue
          MaxTime,                   \* bound on the clock
          Averages                   \* market averages that callers set

ASSUME QueuesAssumption == MaxHigh \in Nat /\ MaxStd \in Nat /\ MaxLow \in Nat

VARIABLE mq   \* q: the three key sets; since: timestamps of the low queue; avg; now;
              \* history: admitted (ever accepted), lost (dropped by a failed promotion)

Queues == {"high", "std", "low"}
Cap == [high |-> MaxHigh, std |-> MaxStd, low |-> MaxLow]

MqInit == mq = [q |-> [x \in Queues |-> {}], since |-> [t \in Tx |-> 0], avg |-> 100,
                now |-> 0, admitted |-> {}, lost |-> {}]

\* mutant: one entry too many
HasRoomLate(g, x) == Cardinality(g.q[x]) <= Cap[x]
\* a queue that is full refuses, also a transaction it already holds
HasRoom(g, x) == Cardinality(g.q[x]) < Cap[x]
AddTo(g, x, t) == [g EXCEPT !.q[x] = @ \union {t}, !.since[t] = IF x = "low" THEN g.now ELSE @,
                            !.admitted = @ \union {t}, !.lost = @ \ {t}]

QueueFor(g, t) == IF Rate[t] > g.avg THEN "high"
                  ELSE IF Rate[t] >= g.avg \div 2 THEN "std" ELSE "low"

AdmitTransaction(t) == /\ HasRoom(mq, QueueFor(mq, t))
                       /\ mq' = AddTo(mq, QueueFor(mq, t), t)

PromotionCandidates(g) == {t \in g.q["low"] : g.now - g.since[t] >= MaxAge}

\* a candidate leaves the low queue before the standard queue is asked; the first refusal
\* ends the rebalance
Promote(acc, t) ==
  IF ~acc.ok THEN acc
  ELSE LET out == [acc.g EXCEPT !.q["low"] = @ \ {t}]
       IN IF HasRoom(out, "std") THEN [acc EXCEPT !.g = AddTo(out, "std", t)]
          ELSE [ok |-> FALSE, g |-> [out EXCEPT !.lost = @ \union ({t} \ (out.q["std"] \union out.q["high"]))]]
RebalanceQueues ==
  \E order \in SetToSeqs(PromotionCandidates(mq)) :
    mq' = FoldLeft(Promote, [ok |-> TRUE, g |-> mq], order).g

UpdateMarketAvg(a) == mq' = [mq EXCEPT !.avg = a]
MqTick == mq.now < MaxTime /\ mq' = [mq EXCEPT !.now = @ + 1]

MqNext == \/ \E t \in Tx : AdmitTransaction(t)
          \/ \E a \in Averages : UpdateMarketAvg(a)
          \/ RebalanceQueues \/ MqTick

-----------------------------------------------------------------------------
\* Whatever was admitted is in a queue or was dropped by a promotion into a full queue, and
\* no queue outgrows its bound.
QueuesConserve == /\ mq.admitted = (UNION {mq.q[x] : x \in Queues}) \union mq.lost
                  /\ \A x \in Queues : Cardinality(mq.q[x]) <= Cap[x]

-----------------------------------------------------------------------------
(* Buckets *)
CONSTANTS Thresholds,   \* fee_rate_thresholds, ascending
          Rates, Times  \* fee rates and arrival times that callers pass

ASSUME BucketsAssumption ==
  /\ IsFiniteSet(Tx) /\ Tx \subseteq Nat /\ Thresholds \in Seq(Nat) /\ Rates \subseteq Nat /\ Times \subseteq Nat

VARIABLE pb   \* bucket: the vectors; index: hash -> bucket or 0; dup is history: a hash was
              \* inserted while the index had it

BucketIds == 1..(Len(Thresholds) + 1)
\* position of the bucket whose range holds the rate
BucketOf(rate) == Cardinality({i \in DOMAIN Thresholds : Thresholds[i] <= rate}) + 1

\* priority_score in units of 0.001
Score(e) == 100000 * e.rate + e.arrival
\* compare_deterministic(a, b) = Less
Before(a, b) == Score(a) > Score(b) \/ (Score(a) = Score(b) /\ a.tx < b.tx)

PbInit == pb = [bucket |-> [i \in BucketIds |-> <<>>], index |-> [t \in Tx |-> 0], dup |-> FALSE]

\* mutant: the entry goes to the end of its bucket
InsertLast(seq, e) == Append(seq, e)
\* The search compares in reverse, so the best entry of a bucket comes last.
InsertSorted(seq, e) ==
  LET k == Cardinality({i \in DOMAIN seq : Before(e, seq[i])})
  IN SubSeq(seq, 1, k) \o <<e>> \o SubSeq(seq, k + 1, Len(seq))

InsertIn(g, e) ==
  LET b == BucketOf(e.rate)
  IN [g EXCEPT !.bucket[b] = InsertSorted(@, e), !.index[e.tx] = b, !.dup = @ \/ g.index[e.tx] # 0]

Entry(t, r, a) == [tx |-> t, rate |-> r, arrival |-> a]

\* only the first entry of the hash, in the bucket the index names
WithoutFirst(seq, t) ==
  LET hits == {i \in DOMAIN seq : seq[i].tx = t}
  IN IF hits = {} THEN seq ELSE RemoveAt(seq, Min(hits))
RemoveIn(g, t) ==
  IF g.index[t] = 0 THEN g
  ELSE [g EXCEPT !.bucket[g.index[t]] = WithoutFirst(@, t), !.index[t] = 0]

\* get_ordered_transactions: the highest bucket first, each from its first entry on; the limit is
\* looked at when an entry has been taken
ListBucket(all, bucket) == all \o bucket
AllOrdered(g) == FoldLeft(ListBucket, <<>>, Reverse(g.bucket))
OrderedTransactions(g, limit) ==
  LET all == AllOrdered(g) IN SubSeq(all, 1, Min({Max({1, limit}), Len(all)}))

\* validate_against_peer: the same hashes with the same scores
AgreesWithPeer(g, peer) ==
  LET ours == OrderedTransactions(g, Len(peer))
  IN /\ Len(ours) = Len(peer)
     /\ \A i \in DOMAIN peer : ours[i].tx = peer[i].tx /\ Score(ours[i]) = Score(peer[i])

-----------------------------------------------------------------------------
AddTransaction(t, r, a) == pb' = InsertIn(pb, Entry(t, r, a))
RemoveFromBuckets(t) == pb' = RemoveIn(pb, t)
\* import_ordered_batch into an engine that has been cleared
Rebuild(order) == pb' = FoldLeft(InsertIn, [bucket |-> [i \in BucketIds |-> <<>>],
                                            index |-> [t \in Tx |-> 0], dup |-> FALSE], order)
ClearAndImport == /\ ~pb.dup
                  /\ \E order \in SetToSeqs(ToSet(OrderedTransactions(pb, Cardinality(Tx)))) : Rebuild(order)
ClearBuckets == Rebuild(<<>>)

PbNext == \/ \E t \in Tx : \/ RemoveFromBuckets(t)
                           \/ \E r \in Rates, a \in Times : AddTransaction(t, r, a)
          \/ ClearAndImport
          \/ ClearBuckets

-----------------------------------------------------------------------------
\* the orders in which peers with these entries may list them: by bucket and within it by score
ListedBefore(a, b) == \/ BucketOf(a.rate) > BucketOf(b.rate)
                      \/ BucketOf(a.rate) = BucketOf(b.rate) /\ Before(b, a)
PeerOrders(all) == {peer \in SetToSeqs(all) : \A i, j \in DOMAIN peer : i < j => ListedBefore(peer[i], peer[j])}

\* As long as no hash is inserted twice, the order is a function of what was inserted: whatever
\* order the entries came in, they are listed in order, and a peer with the same entries agrees.
OrderDeterministic ==
  ~pb.dup => LET ours == OrderedTransactions(pb, Cardinality(Tx))
                 all == ToSet(ours)
             IN /\ {e.tx : e \in all} = {t \in Tx : pb.index[t] # 0}
                /\ ours \in PeerOrders(all)
                /\ \A peer \in PeerOrders(all) : AgreesWithPeer(pb, peer)
=============================================================================
