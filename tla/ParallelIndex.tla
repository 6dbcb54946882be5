---------------------------- MODULE ParallelIndex ----------------------------
(***************************************************************************)
(* ParallelTransactionIndex (mempool/parallel_transaction_index.rs) and    *)
(* the threads that use it, StorageSyncManager (parallel_sync_storage.rs)  *)
(* among them: a sharded map of entries and, under a lock of its own, the  *)
(* counts by status.  Every transaction has a shard of its own.  What      *)
(* takes the lock of the counts and then walks the map waits for a shard   *)
(* that update_status holds while it waits for the counts.                 *)
(***************************************************************************)
EXTENDS Naturals, FiniteSets, SequencesExt

CONSTANTS Client,       \* threads
          Txid,
          Stored,       \* transactions that get_mempool_transaction finds
          MaxEntries,   \* max_transactions
          MaxCalls      \* bound on the calls

ASSUME IndexAssumption == IsFiniteSet(Client) /\ Client # {} /\ IsFiniteSet(Txid) /\ MaxEntries \in Nat

VARIABLE pi   \* entries: the status of each transaction, or "none"; count: [IndexStatus -> Nat];
              \* shard: the transactions whose shard update_status holds; stats: the threads
              \* that hold the counts; pc: [Client -> [at, tx, st, old, todo]]; calls;
              \* history: dirty: an entry was overwritten or a count stopped at 0;
              \* raced: a clear ran beside another call

IndexStatus == {"Pending", "Validated", "Invalid", "Confirmed"}
NotCalling == [at |-> "idle", tx |-> 0, st |-> "Pending", old |-> "Pending", todo |-> <<>>]
EmptyIndex == [t \in Txid |-> "none"]
NoCounts == [s \in IndexStatus |-> 0]
PiInit == pi = [entries |-> EmptyIndex, count |-> NoCounts, shard |-> {}, stats |-> {},
                pc |-> [h \in Client |-> NotCalling], calls |-> 0, dirty |-> FALSE, raced |-> FALSE]

Entered(g) == {t \in Txid : g.entries[t] # "none"}

\* the locks that the steps ask for: all shards, the shard of the transaction, the counts
AsksAllShards == {"insert", "counts_held", "uncount_held", "verify_held", "clear"}
AsksShard == {"put", "update", "remove"}
AsksStats == {"counts", "uncount", "verify", "recount", "reset"}
Waits(h) == LET c == pi.pc[h]
            IN \/ c.at \in AsksAllShards /\ pi.shard # {}
               \/ c.at \in AsksShard /\ c.tx \in pi.shard
               \/ c.at \in AsksStats /\ pi.stats # {}

\* thread h is about to take the step, and nothing keeps it from it
Reaches(h, step) == pi.pc[h].at = step /\ ~Waits(h)
MoveTo(g, h, step) == [g EXCEPT !.pc[h].at = step]
\* a call returns, or goes on with the next transaction that it has listed
Finish(g, h) == [g EXCEPT !.pc[h] = IF g.pc[h].todo = <<>> THEN NotCalling
                                    ELSE [NotCalling EXCEPT !.at = "remove", !.tx = Head(g.pc[h].todo),
                                                            !.todo = Tail(g.pc[h].todo)]]

\* a new call, and whether it overlaps with a clear
Clears(h) == pi.pc[h].at \in {"clear", "reset"}
Races(h, step) == \/ step = "clear" /\ \E k \in Client \ {h} : pi.pc[k].at # "idle"
                  \/ \E k \in Client : Clears(k)
StartCall(h, call) ==
  /\ pi.pc[h].at = "idle" /\ pi.calls < MaxCalls
  /\ pi' = [pi EXCEPT !.calls = @ + 1, !.pc[h] = call, !.raced = @ \/ Races(h, call.at)]
CallFor(step, t, st, todo) == [NotCalling EXCEPT !.at = step, !.tx = t, !.st = st, !.todo = todo]

-----------------------------------------------------------------------------
(* insert: the size check, the map, then the counts, which ask the map for its size *)
InsertCheck(h) ==
  /\ Reaches(h, "insert")
  /\ pi' = IF Cardinality(Entered(pi)) >= MaxEntries THEN Finish(pi, h) ELSE MoveTo(pi, h, "put")
InsertMap(h) ==
  /\ Reaches(h, "put")
  /\ LET t == pi.pc[h].tx
     IN pi' = MoveTo([pi EXCEPT !.entries[t] = "Pending", !.dirty = @ \/ t \in Entered(pi)], h, "counts")
\* insert, remove and verify_consistency take the counts and hold them while they wait for the shards
WithStats == [counts |-> "counts_held", uncount |-> "uncount_held", verify |-> "verify_held"]
TakeStats(h, step) ==
  /\ Reaches(h, step)
  /\ pi' = MoveTo([pi EXCEPT !.stats = {h}], h, WithStats[step])
InsertStats(h) ==
  /\ Reaches(h, "counts_held")
  /\ pi' = Finish([pi EXCEPT !.count["Pending"] = @ + 1, !.stats = {}], h)

\* saturating_sub
\* mutant: what leaves is taken for pending
DecrementPending(g, s) == [g EXCEPT !.count["Pending"] = IF @ = 0 THEN 0 ELSE @ - 1, !.dirty = @ \/ g.count["Pending"] = 0]
Decrement(g, s) == [g EXCEPT !.count[s] = IF @ = 0 THEN 0 ELSE @ - 1, !.dirty = @ \/ g.count[s] = 0]

(* update_status keeps the entry locked while it waits for the counts *)
UpdateEntry(h) ==
  /\ Reaches(h, "update")
  /\ LET t == pi.pc[h].tx
     IN pi' = IF t \in Entered(pi)
              THEN [pi EXCEPT !.entries[t] = pi.pc[h].st, !.shard = @ \union {t},
                              !.pc[h] = [@ EXCEPT !.at = "recount", !.old = pi.entries[t]]]
              ELSE [pi EXCEPT !.pc[h] = NotCalling]
UpdateStats(h) ==
  /\ Reaches(h, "recount")
  /\ pi' = Finish([Decrement(pi, pi.pc[h].old) EXCEPT !.count[pi.pc[h].st] = @ + 1,
                                                    !.shard = @ \ {pi.pc[h].tx}], h)

(* remove *)
RemoveMap(h) ==
  /\ Reaches(h, "remove")
  /\ LET t == pi.pc[h].tx
     IN pi' = IF t \notin Entered(pi) THEN Finish(pi, h)
              ELSE [pi EXCEPT !.entries[t] = "none", !.pc[h] = [@ EXCEPT !.at = "uncount", !.st = pi.entries[t]]]
RemoveStats(h) ==
  /\ Reaches(h, "uncount_held")
  /\ pi' = Finish([Decrement(pi, pi.pc[h].st) EXCEPT !.stats = {}], h)

\* sync_with_storage and cleanup_old_transactions list entries, then remove one by one
RemoveListed(h, S) ==
  /\ pi.shard = {} /\ S # {}
  /\ \E order \in SetToSeqs(S) : StartCall(h, CallFor("remove", Head(order), "Pending", Tail(order)))
SyncWithStorage(h) == RemoveListed(h, {t \in Entered(pi) \intersect Stored : pi.entries[t] = "Pending"})
CleanupOld(h) == \E S \in SUBSET Entered(pi) : RemoveListed(h, S)

(* clear, and verify_consistency, which only looks *)
ClearMap(h) == Reaches(h, "clear") /\ pi' = MoveTo([pi EXCEPT !.entries = EmptyIndex], h, "reset")
ClearCounts(h) == Reaches(h, "reset") /\ pi' = Finish([pi EXCEPT !.count = NoCounts], h)
VerifyConsistency(h) == Reaches(h, "verify_held") /\ pi' = Finish([pi EXCEPT !.stats = {}], h)

\* an update to Confirmed and, if the entry was there, a remove
NotifyConfirmed(h, t) == StartCall(h, CallFor("update", t, "Confirmed", <<t>>))

PiCall(h) == \/ \E t \in Txid : \/ StartCall(h, CallFor("insert", t, "Pending", <<>>))
                                \/ StartCall(h, CallFor("remove", t, "Pending", <<>>))
                                \/ \E st \in IndexStatus \ {"Pending"} : StartCall(h, CallFor("update", t, st, <<>>))
                                \/ NotifyConfirmed(h, t)
             \/ \E step \in {"clear", "verify"} : StartCall(h, CallFor(step, 0, "Pending", <<>>))
             \/ SyncWithStorage(h) \/ CleanupOld(h)
PiStep(h) == \/ InsertCheck(h) \/ InsertMap(h) \/ InsertStats(h)
             \/ \E step \in DOMAIN WithStats : TakeStats(h, step)
             \/ UpdateEntry(h) \/ UpdateStats(h) \/ RemoveMap(h) \/ RemoveStats(h)
             \/ ClearMap(h) \/ ClearCounts(h) \/ VerifyConsistency(h)
PiNext == \E h \in Client : PiCall(h) \/ PiStep(h)

-----------------------------------------------------------------------------
Having(s) == Cardinality({t \in Txid : pi.entries[t] = s})
AtRest == \A h \in Client : pi.pc[h].at = "idle"
\* Between calls the counts are those of the map, unless an entry was overwritten, a count stopped at 0
\* or a clear ran beside another call, and without such a clear they are never too low.  Concurrent
\* inserts pass the size check together, one entry too many for each thread but one.
CountsSound ==
  /\ AtRest /\ ~pi.dirty /\ ~pi.raced => \A s \in IndexStatus : pi.count[s] = Having(s)
  /\ AtRest /\ ~pi.raced => \A s \in IndexStatus : pi.count[s] >= Having(s)
  /\ Cardinality(Entered(pi)) < MaxEntries + Cardinality(Client)

\* Threads wait for one another for ever only if one of them updates a status and another holds the
\* counts: every other overlap of calls goes through.
OnlyUpdatesWedge ==
  ~AtRest /\ (\A h \in Client : pi.pc[h].at # "idle" => Waits(h)) =>
    /\ \E h \in Client : pi.pc[h].at = "recount"
    /\ \E h \in pi.stats : pi.pc[h].at # "recount"
=============================================================================
