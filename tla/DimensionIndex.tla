--------------------------- MODULE DimensionIndex ---------------------------
(***************************************************************************)
(* MultiDimensionalIndex (mempool/multi_dimensional_index.rs): one map by  *)
(* hash and three ordered maps, by fee rate, by arrival and by dependency  *)
(* count.  Each has its own lock, and a call takes one after the other.    *)
(* Its callers are those of the parallel index.                            *)
(***************************************************************************)
EXTENDS ParallelIndex

CONSTANTS Records,      \* IndexedTransactions
          QueryBounds,  \* bounds that the queries are asked with
          MaxDimCalls

ASSUME DimensionAssumption ==
  Records \subseteq [tx : Nat, fee : Nat, time : Nat, deps : Nat] /\ QueryBounds \subseteq Nat

VARIABLE di   \* map: the four maps, as sets of records; total: total_transactions; calls;
              \* call: what each thread is at: [op, at, rec, next]; history: stale: an insert found the
              \* hash taken by another record; raced: calls on one hash, or a reset and a call, overlapped

Hash == 1
Eco == 2
Temp == 3
Deps == 4
Maps == 1 .. 4

Resting == [op |-> "none", at |-> 0, rec |-> {}, next |-> {}]
DiInit == di = [map |-> [m \in Maps |-> {}], total |-> 0, calls |-> 0,
                call |-> [p \in Client |-> Resting], stale |-> FALSE, raced |-> FALSE]

\* HashMap::insert and BTreeMap::insert replace the record under the same key
KeyIn(m, r) == CASE m = Hash -> <<r.tx>>
                 [] m = Eco -> <<r.fee, r.tx>>
                 [] m = Temp -> <<r.time, r.tx>>
                 [] m = Deps -> <<r.deps, r.tx>>
\* mutant: the map by arrival is not visited
CutButArrival(S, m, r) == IF m = Temp THEN S ELSE {s \in S : KeyIn(m, s) # KeyIn(m, r)}
CutFrom(S, m, r) == {s \in S : KeyIn(m, s) # KeyIn(m, r)}
PutIn(S, m, r) == {s \in S : KeyIn(m, s) # KeyIn(m, r)} \union {r}

\* update is a remove and then an insert; next is what it inserts
Overlaps(tx) == \E p \in Client : di.call[p].op # "none" /\
                  (di.call[p].op = "reset" \/ \E r \in di.call[p].rec \union di.call[p].next : r.tx = tx)
DiBegin(p, op, rec, next) ==
  /\ di.call[p].op = "none" /\ di.calls < MaxDimCalls
  /\ di' = [di EXCEPT !.calls = @ + 1, !.call[p] = [op |-> op, at |-> 1, rec |-> rec, next |-> next],
                      !.raced = @ \/ IF op = "reset" THEN \E q \in Client : di.call[q].op # "none"
                                     ELSE \E r \in rec \union next : Overlaps(r.tx)]

\* thread p is in the call, at a map or, after the last, at the statistics
AtMap(p, op, from) == di.call[p].op = op /\ di.call[p].at \in from .. 4
AtTotal(p, op) == di.call[p].op = op /\ di.call[p].at = 5

\* the insert, map by map, then the statistics
InsertInto(p) ==
  LET m == di.call[p].at
  IN /\ AtMap(p, "insert", 1)
     /\ \E r \in di.call[p].rec :
          di' = [di EXCEPT !.map[m] = PutIn(@, m, r), !.call[p].at = @ + 1,
                           !.stale = @ \/ (m = Hash /\ \E s \in di.map[Hash] : s.tx = r.tx)]
InsertTotal(p) == AtTotal(p, "insert") /\ di' = [di EXCEPT !.total = @ + 1, !.call[p] = Resting]

\* the remove takes the record that it found under the hash out of the other maps; without one
\* nothing is left to do
AfterRemove(p, g) == [g EXCEPT !.call[p] = IF @.next = {} THEN Resting ELSE [op |-> "insert", at |-> 1, rec |-> @.next, next |-> {}]]
RemoveByHash(p) ==
  /\ di.call[p].op = "remove" /\ di.call[p].at = 1
  /\ \E r \in di.call[p].rec :
       LET found == {s \in di.map[Hash] : s.tx = r.tx}
       IN di' = IF found = {} THEN AfterRemove(p, di)
                ELSE [di EXCEPT !.map[Hash] = CutFrom(@, Hash, r), !.call[p].at = 2, !.call[p].rec = found]
RemoveByKey(p) ==
  LET m == di.call[p].at
  IN /\ AtMap(p, "remove", 2)
     /\ \E r \in di.call[p].rec : di' = [di EXCEPT !.map[m] = CutFrom(@, m, r), !.call[p].at = @ + 1]
RemoveTotal(p) == AtTotal(p, "remove") /\ di' = AfterRemove(p, [di EXCEPT !.total = IF @ = 0 THEN 0 ELSE @ - 1])

ResetMap(p) == AtMap(p, "reset", 1) /\ di' = [di EXCEPT !.map[di.call[p].at] = {}, !.call[p].at = @ + 1]
ResetTotal(p) == AtTotal(p, "reset") /\ di' = [di EXCEPT !.total = 0, !.call[p] = Resting]

DiNext == \E p \in Client :
  \/ \E r \in Records : DiBegin(p, "insert", {r}, {}) \/ DiBegin(p, "remove", {r}, {}) \/ DiBegin(p, "remove", {r}, {r})
  \/ DiBegin(p, "reset", {}, {})
  \/ InsertInto(p) \/ InsertTotal(p) \/ RemoveByHash(p) \/ RemoveByKey(p) \/ RemoveTotal(p)
  \/ ResetMap(p) \/ ResetTotal(p)

-----------------------------------------------------------------------------
\* the order of each map, and what the queries take of it
HigherFee(a, b) == a.fee > b.fee \/ (a.fee = b.fee /\ a.tx < b.tx)
Earlier(a, b) == a.time < b.time \/ (a.time = b.time /\ a.tx < b.tx)
MoreDependents(a, b) == a.deps > b.deps \/ (a.deps = b.deps /\ a.tx < b.tx)
Economic == CHOOSE q \in SetToSeqs(di.map[Eco]) : \A i, j \in DOMAIN q : i < j => HigherFee(q[i], q[j])
Temporal == CHOOSE q \in SetToSeqs(di.map[Temp]) : \A i, j \in DOMAIN q : i < j => Earlier(q[i], q[j])
Structural == CHOOSE q \in SetToSeqs(di.map[Deps]) : \A i, j \in DOMAIN q : i < j => MoreDependents(q[i], q[j])

\* take_while and skip_while: up to the first record that fails the test, and from it on
While(q, fails) == {i \in DOMAIN q : \A j \in 1 .. i : j \notin fails}
QueryEconomicRange(low, high) == {r \in di.map[Eco] : r.fee >= low /\ r.fee <= high}
QueryEconomicTopN(n) == {Economic[i] : i \in 1 .. n}
QueryTemporalBefore(t) == {Temporal[i] : i \in While(Temporal, {j \in DOMAIN Temporal : Temporal[j].time > t})}
QueryTemporalAfter(t) ==
  {Temporal[i] : i \in DOMAIN Temporal \ While(Temporal, {j \in DOMAIN Temporal : Temporal[j].time > t})}
QueryTemporalRange(start, end) == {r \in di.map[Temp] : r.time >= start /\ r.time <= end}
QueryStructuralMinDependents(n) ==
  {Structural[i] : i \in While(Structural, {j \in DOMAIN Structural : Structural[j].deps < n})}
QueryStructuralTopHubs(n) == {Structural[i] : i \in 1 .. n}
QueryCombined(low, high, start, end, n) ==
  {r \in di.map[Hash] : r.fee >= low /\ r.fee <= high /\ r.time >= start /\ r.time <= end /\ r.deps >= n}

\* When no call is under way, what the query over all dimensions finds by hash is what the queries of
\* each dimension have in common, the two halves of the arrivals are the whole, the first of each order
\* are no worse than the rest, and the total is the number of entries.  A hash inserted twice with
\* different records breaks that, and so do calls on one hash, or a reset and a call, that overlap.
QueriesAgree ==
  (\A p \in Client : di.call[p].op = "none") /\ ~di.stale /\ ~di.raced =>
    LET all == di.map[Hash]
    IN /\ \A low, high, start, end, n \in QueryBounds :
            QueryCombined(low, high, start, end, n) =
              QueryEconomicRange(low, high) \intersect QueryTemporalRange(start, end) \intersect QueryStructuralMinDependents(n)
       /\ \A t \in QueryBounds : /\ QueryTemporalBefore(t) = {r \in all : r.time <= t}
                                 /\ QueryTemporalAfter(t) = {r \in all : r.time > t}
       /\ \A n \in 0 .. Cardinality(all) :
            LET top == QueryEconomicTopN(n) IN Cardinality(top) = n /\ top \subseteq all /\ \A a \in top, b \in all \ top : a.fee >= b.fee
       /\ \A n \in 0 .. Cardinality(all) :
            LET top == QueryStructuralTopHubs(n) IN Cardinality(top) = n /\ top \subseteq all /\ \A a \in top, b \in all \ top : a.deps >= b.deps
       /\ di.total = Cardinality(all)

\* The counts of the parallel index are those of its map and only a status update can wedge it, and the
\* queries of the multi-dimensional index agree with each other.
IndexesAgree == CountsSound /\ OnlyUpdatesWedge /\ QueriesAgree
=============================================================================
