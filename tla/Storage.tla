------------------------------ MODULE Storage ------------------------------
(***************************************************************************)
(* The storage engine of klomang-node (src/storage): threads that call the *)
(* cache layer (cache.rs), the writer thread that groups their writes      *)
(* (concurrency.rs), block commits that go to the database directly        *)
(* (atomic_write.rs, integration.rs), and crashes.                         *)
(*                                                                         *)
(* A row is a pair <<column family, key>>; a database is the set of its    *)
(* rows.  Contents are left out: the value of an output is fixed by its    *)
(* outpoint and that of a block by its hash.  The database library is      *)
(* external: a batch is written whole or not at all, a write with the log  *)
(* survives a crash, one without it survives once its family is flushed.   *)
(*                                                                         *)
(* The steps of a call are the places where another thread can get in: a   *)
(* lock taken or a channel used is one step.                               *)
(***************************************************************************)
EXTENDS Naturals, SequencesExt

CONSTANTS
    Threads,
    Utxo, Block, TxId,     \* outpoints, block and transaction hashes
    Txs,                   \* Txs[b]: the transactions of b, in order
    CAPACITY,              \* UTXO_HOT_CACHE_CAPACITY
    GROUP_COMMIT_MAX_REQUESTS,
    COUNTER_SIZE,          \* 2^64 in the code: pending_writes wraps
    MAX_CALLS              \* bound on the calls of a behaviour

Transaction == [id : TxId, spends : SUBSET Utxo, creates : SUBSET Utxo]

ASSUME StorageAssumption ==
    /\ CAPACITY \in Nat \ {0} /\ GROUP_COMMIT_MAX_REQUESTS \in Nat \ {0}
    /\ IsFiniteSet(Threads) /\ IsFiniteSet(Utxo)
    /\ COUNTER_SIZE \in Nat /\ COUNTER_SIZE > Cardinality(Threads)
    /\ Txs \in [Block -> Seq(Transaction)]

VARIABLES
    rows,                  \* what a read of the database sees
    disk,                  \* what a crash leaves of it
    hot,                   \* utxo_hot_cache, least recently used first
    queue,                 \* the channel to the writer: [thread, call]
    pending_writes,
    group,                 \* messages of combined_batch, not yet written
    writer,                \* "recv", "drain" or "write"
    pc,                    \* where each thread is in its call
    work,                  \* the operations or keys its call still has to handle
    reply,                 \* its response channel: "none", "ok" or "err"
    promised,              \* what the writes that have returned say of each
    alone,                 \*     output, and the calls that overlap no other
    ever,                  \* outputs some batch has written since the last start
    unlogged,              \* blocks committed without the log
    calls                  \* calls made, for the bound

dbVars == <<rows, disk>>
writerVars == <<queue, pending_writes, group, writer>>
callVars == <<pc, work, reply>>
auxVars == <<promised, alone, ever, unlogged>>
storageVars == <<rows, disk, hot, queue, pending_writes, group, writer,
                 pc, work, reply, promised, alone, ever, unlogged, calls>>

(* "tx" stands for the families that are only ever added to here:          *)
(* transactions, spent index, DAG nodes and tips.                          *)
Families == {"utxo", "header", "body", "tx"}

(* An operation of a batch takes rows out and then puts rows in; a batch   *)
(* is a sequence of them.  The last operation on a row decides.            *)
Put(cf, key) == [out |-> {}, in |-> {<<cf, key>>}]
Delete(cf, key) == [out |-> {<<cf, key>>}, in |-> {}]

ApplyOps(contents, ops) ==
    LET KeptAfter(i, r) == \A j \in DOMAIN ops : j > i => r \notin ops[j].out
    IN  {r \in contents : KeptAfter(0, r)}
          \union UNION {{r \in ops[i].in : KeptAfter(i, r)} : i \in DOMAIN ops}
Touched(ops) == {u \in Utxo : \E i \in DOMAIN ops : <<"utxo", u>> \in ops[i].out \union ops[i].in}
Written(ops) == {u \in Utxo : \E i \in DOMAIN ops : <<"utxo", u>> \in ops[i].in}
StoredUtxos(contents) == {u \in Utxo : <<"utxo", u>> \in contents}

(* A batch with the write-ahead log: visible and durable together.         *)
WriteBatch(ops) ==
    /\ rows' = ApplyOps(rows, ops)
    /\ disk' = ApplyOps(disk, ops)
    /\ ever' = ever \union Written(ops)
WriteBatchNoWal(ops) ==
    /\ rows' = ApplyOps(rows, ops)
    /\ ever' = ever \union Written(ops)
    /\ UNCHANGED disk

(* LruCache: get refreshes a key, put evicts the oldest one when full.     *)
Without(cache, u) ==
    IF u \in Range(cache) THEN RemoveAt(cache, CHOOSE i \in DOMAIN cache : cache[i] = u)
    ELSE cache
Touch(cache, u) == Append(Without(cache, u), u)
MutLruPut(cache, u) == Touch(cache, u)             \* no limit
LruPut(cache, u) ==
    LET c == Touch(cache, u)
    IN  IF Len(c) > CAPACITY THEN Tail(c) ELSE c

UtxoRows(S) == {<<"utxo", u>> : u \in S}
(* One transaction of commit_block_to_storage, and the whole batch.        *)
TxOp(t) == [out |-> UtxoRows(t.spends), in |-> {<<"tx", t.id>>} \union UtxoRows(t.creates)]
BlockOps(b) ==
    <<[out |-> {}, in |-> {<<"body", b>>, <<"header", b>>}]>>
      \o [i \in DOMAIN Txs[b] |-> TxOp(Txs[b][i])]
(* The batch of CoreIntegration::apply_tx: outputs only. *)
ApplyTxOps(t) == <<[out |-> UtxoRows(t.spends), in |-> UtxoRows(t.creates)]>>
(* The puts of CoreIntegration::store_block, one database write each.      *)
MutStoreBlockOps(b) ==     \* the body first
    <<Put("body", b), Put("header", b)>>
      \o [i \in DOMAIN Txs[b] |-> Put("tx", Txs[b][i].id)]
StoreBlockOps(b) ==
    <<Put("header", b), Put("body", b)>>
      \o [i \in DOMAIN Txs[b] |-> Put("tx", Txs[b][i].id)]

StorageInit ==
    /\ rows = {} /\ disk = {} /\ hot = <<>>
    /\ queue = <<>> /\ pending_writes = 0 /\ group = <<>> /\ writer = "recv"
    /\ pc = [t \in Threads |-> "idle"]
    /\ work = [t \in Threads |-> <<>>]
    /\ reply = [t \in Threads |-> "none"]
    /\ promised = [u \in Utxo |-> "out"] /\ alone = {}
    /\ ever = {} /\ unlogged = {} /\ calls = 0

Goto(t, place, todo) ==
    /\ pc' = [pc EXCEPT ![t] = place]
    /\ work' = [work EXCEPT ![t] = todo]

----------------------------------------------------------------------------
(* get_utxo: the cache, else the database, and then the cache again.       *)

GetUtxoHit(t, u) ==
    /\ pc[t] = "idle" /\ u \in Range(hot)
    /\ hot' = Touch(hot, u)
    /\ UNCHANGED <<dbVars, writerVars, callVars, auxVars>>

GetUtxoMiss(t, u) ==
    /\ pc[t] = "idle" /\ u \notin Range(hot)
    /\ Goto(t, "read", <<u>>)
    /\ UNCHANGED <<dbVars, hot, writerVars, reply, auxVars>>

ReadDb(t) ==
    /\ pc[t] = "read"
    /\ IF <<"utxo", work[t][1]>> \in rows
       THEN Goto(t, "fill", work[t])
       ELSE Goto(t, "idle", <<>>)
    /\ UNCHANGED <<dbVars, hot, writerVars, reply, auxVars>>

(* scan_utxo_range: an iterator over the outputs stored when it starts.    *)
ScanUtxos(t) ==
    /\ pc[t] = "idle" /\ StoredUtxos(rows) # {}
    /\ Goto(t, "fill", SetToSeq(StoredUtxos(rows)))
    /\ UNCHANGED <<dbVars, hot, writerVars, reply, auxVars>>

FillCache(t) ==
    /\ pc[t] = "fill"
    /\ hot' = LruPut(hot, Head(work[t]))
    /\ IF Len(work[t]) > 1 THEN Goto(t, "fill", Tail(work[t])) ELSE Goto(t, "idle", <<>>)
    /\ UNCHANGED <<dbVars, writerVars, reply, auxVars>>

----------------------------------------------------------------------------
(* put_utxo and delete_utxo through StorageWriter::enqueue.                *)

InCall(t) == pc[t] \in {"sent", "wait"}
InFlight(u) == {t \in Threads : InCall(t) /\ work[t][1].u = u}

Send(t, kind, u) ==
    LET call == [kind |-> kind, u |-> u]
    IN  /\ pc[t] = "idle"
        /\ queue' = Append(queue, [thread |-> t, call |-> call])
        /\ Goto(t, "sent", <<call>>)
        /\ reply' = [reply EXCEPT ![t] = "none"]
        /\ promised' = [promised EXCEPT ![u] = "any"]
        /\ alone' = (alone \ InFlight(u)) \union (IF InFlight(u) = {} THEN {t} ELSE {})
        /\ UNCHANGED <<dbVars, hot, pending_writes, group, writer, ever, unlogged>>

PutUtxo(t, u) == Send(t, "put", u)
DeleteUtxo(t, u) == Send(t, "delete", u)

(* fetch_add comes after send. *)
CountPending(t) ==
    /\ pc[t] = "sent"
    /\ pending_writes' = (pending_writes + 1) % COUNTER_SIZE
    /\ Goto(t, "wait", work[t])
    /\ UNCHANGED <<dbVars, hot, queue, group, writer, reply, auxVars>>

(* The response arrives; the cache follows a write that succeeded.         *)
Refresh(call) == hot' = IF call.kind = "put" THEN LruPut(hot, call.u) ELSE Without(hot, call.u)
MutCacheAfter(t) == Refresh(work[t][1])            \* and one that failed
CacheAfter(t) == IF reply[t] = "err" THEN UNCHANGED hot ELSE Refresh(work[t][1])

WriteReturns(t) ==
    LET call == work[t][1]
    IN  /\ pc[t] = "wait" /\ reply[t] # "none"
        /\ CacheAfter(t)
        /\ promised' = [promised EXCEPT ![call.u] =
                          IF t \notin alone \/ reply[t] = "err" THEN @
                          ELSE IF call.kind = "put" THEN "in" ELSE "out"]
        /\ alone' = alone \ {t}
        /\ reply' = [reply EXCEPT ![t] = "none"]
        /\ Goto(t, "idle", <<>>)
        /\ UNCHANGED <<dbVars, writerVars, ever, unlogged>>

----------------------------------------------------------------------------
(* writer_loop: one blocking recv, then try_recv until the channel is      *)
(* empty or the group is full, one batch, one response to each member.     *)

AppendTo(call) == IF call.kind = "put" THEN Put("utxo", call.u) ELSE Delete("utxo", call.u)
CombinedBatch == [i \in DOMAIN group |-> AppendTo(group[i].call)]

Take ==
    /\ group' = Append(group, Head(queue))
    /\ queue' = Tail(queue)
MutWriterDrain ==          \* fetch_sub for the first message only
    /\ writer = "drain" /\ queue # <<>> /\ Len(group) < GROUP_COMMIT_MAX_REQUESTS
    /\ Take
    /\ UNCHANGED <<dbVars, hot, pending_writes, writer, callVars, auxVars>>

WriterRecv ==
    /\ writer = "recv" /\ queue # <<>>
    /\ Take
    /\ pending_writes' = (pending_writes + COUNTER_SIZE - 1) % COUNTER_SIZE
    /\ writer' = "drain"
    /\ UNCHANGED <<dbVars, hot, callVars, auxVars>>

WriterDrain ==
    /\ writer = "drain" /\ queue # <<>> /\ Len(group) < GROUP_COMMIT_MAX_REQUESTS
    /\ Take
    /\ pending_writes' = (pending_writes + COUNTER_SIZE - 1) % COUNTER_SIZE
    /\ UNCHANGED <<dbVars, hot, writer, callVars, auxVars>>

WriterGroupClosed ==
    /\ writer = "drain" /\ (queue = <<>> \/ Len(group) = GROUP_COMMIT_MAX_REQUESTS)
    /\ writer' = "write"
    /\ UNCHANGED <<dbVars, hot, queue, pending_writes, group, callVars, auxVars>>

MutRespond(result) ==      \* only the first member is answered
    reply' = [reply EXCEPT ![group[1].thread] = result]
Respond(result) ==
    reply' = [t \in Threads |->
                IF \E i \in DOMAIN group : group[i].thread = t THEN result ELSE reply[t]]

MutWriterCommit ==         \* the log is disabled
    /\ writer = "write"
    /\ WriteBatchNoWal(CombinedBatch)
    /\ Respond("ok")
    /\ group' = <<>> /\ writer' = "recv"
    /\ UNCHANGED <<hot, queue, pending_writes, pc, work, promised, alone, unlogged>>
WriterCommit ==
    /\ writer = "write"
    /\ WriteBatch(CombinedBatch)
    /\ Respond("ok")
    /\ group' = <<>> /\ writer' = "recv"
    /\ UNCHANGED <<hot, queue, pending_writes, pc, work, promised, alone, unlogged>>

WriterFails ==             \* db.write_batch returns an error
    /\ writer = "write"
    /\ Respond("err")
    /\ group' = <<>> /\ writer' = "recv"
    /\ UNCHANGED <<dbVars, hot, queue, pending_writes, pc, work, auxVars>>

----------------------------------------------------------------------------
(* Writes that go to the database without the writer and without the cache. *)

(* What a direct batch promises: nothing of an output some call is writing. *)
DirectPromise(ops, logged) ==
    /\ promised' = [u \in Utxo |->
                      IF u \notin Touched(ops) THEN promised[u]
                      ELSE IF ~logged \/ InFlight(u) # {} THEN "any"
                      ELSE IF u \in StoredUtxos(ApplyOps(rows, ops)) THEN "in" ELSE "out"]
    /\ alone' = alone \ UNION {InFlight(u) : u \in Touched(ops)}

CommitBlock(t, b) ==
    /\ pc[t] = "idle"
    /\ WriteBatch(BlockOps(b))
    /\ DirectPromise(BlockOps(b), TRUE)
    /\ UNCHANGED <<hot, writerVars, callVars, unlogged>>

CommitBlockNoWal(t, b) ==
    /\ pc[t] = "idle"
    /\ WriteBatchNoWal(BlockOps(b))
    /\ DirectPromise(BlockOps(b), FALSE)
    /\ unlogged' = unlogged \union {b}
    /\ UNCHANGED <<hot, writerVars, callVars>>

ApplyTx(t, b) ==
    /\ pc[t] = "idle"
    /\ \E i \in DOMAIN Txs[b] :
          /\ WriteBatch(ApplyTxOps(Txs[b][i]))
          /\ DirectPromise(ApplyTxOps(Txs[b][i]), TRUE)
    /\ UNCHANGED <<hot, writerVars, callVars, unlogged>>

StoreBlock(t, b) ==
    /\ pc[t] = "idle" /\ Txs[b] # <<>>
    /\ Goto(t, "store", StoreBlockOps(b))
    /\ UNCHANGED <<dbVars, hot, writerVars, reply, auxVars>>

StoreBlockPut(t) ==
    /\ pc[t] = "store"
    /\ WriteBatch(<<Head(work[t])>>)
    /\ IF Len(work[t]) > 1 THEN Goto(t, "store", Tail(work[t])) ELSE Goto(t, "idle", <<>>)
    /\ UNCHANGED <<hot, writerVars, reply, promised, alone, unlogged>>

StoreBlockFails(t) ==      \* a put returns an error
    /\ pc[t] = "store"
    /\ Goto(t, "idle", <<>>)
    /\ UNCHANGED <<dbVars, hot, writerVars, reply, auxVars>>

----------------------------------------------------------------------------
(* The library flushes a column family on its own; the process dies and    *)
(* starts again with an empty cache and an empty queue.                    *)

BackgroundFlush(cf) ==
    /\ disk' = {r \in disk : r[1] # cf} \union {r \in rows : r[1] = cf}
    /\ disk' # disk
    /\ UNCHANGED <<rows, hot, writerVars, callVars, auxVars>>

Crash ==
    /\ rows' = disk /\ hot' = <<>> /\ ever' = StoredUtxos(disk)
    /\ queue' = <<>> /\ pending_writes' = 0 /\ group' = <<>> /\ writer' = "recv"
    /\ pc' = [t \in Threads |-> "idle"]
    /\ work' = [t \in Threads |-> <<>>]
    /\ reply' = [t \in Threads |-> "none"]
    /\ alone' = {}
    /\ UNCHANGED <<disk, promised, unlogged>>

WriterNext == WriterRecv \/ WriterDrain \/ WriterGroupClosed \/ WriterCommit \/ WriterFails

ThreadStep(t) ==
    ReadDb(t) \/ FillCache(t) \/ CountPending(t) \/ WriteReturns(t)
      \/ StoreBlockPut(t) \/ StoreBlockFails(t)

ThreadCall(t) ==
    /\ calls < MAX_CALLS /\ calls' = calls + 1
    /\ \/ ScanUtxos(t)
       \/ \E u \in Utxo : GetUtxoHit(t, u) \/ GetUtxoMiss(t, u)
                             \/ PutUtxo(t, u) \/ DeleteUtxo(t, u)
       \/ \E b \in Block : CommitBlock(t, b) \/ CommitBlockNoWal(t, b)
                             \/ ApplyTx(t, b) \/ StoreBlock(t, b)

StorageNext ==
    \/ WriterNext /\ UNCHANGED calls
    \/ \E t \in Threads : ThreadStep(t) /\ UNCHANGED calls
    \/ \E t \in Threads : ThreadCall(t)
    \/ \E cf \in Families : BackgroundFlush(cf) /\ UNCHANGED calls
    \/ Crash /\ UNCHANGED calls

(* Threads of the process are scheduled: neither the writer nor a thread   *)
(* in the middle of a call is left waiting for ever.  Nobody has to start  *)
(* a call.                                                                 *)
StorageSpec ==
    /\ StorageInit /\ [][StorageNext]_storageVars
    /\ WF_storageVars(WriterNext /\ UNCHANGED calls)
    /\ \A t \in Threads : WF_storageVars(ThreadStep(t) /\ UNCHANGED calls)

----------------------------------------------------------------------------
(* Properties *)

(* Every variable has its type; the cache never exceeds its capacity and   *)
(* holds a key once.                                                       *)
StorageTypeOK ==
    /\ \A r \in rows \union disk : r[1] \in Families
    /\ hot \in Seq(Utxo) /\ Len(hot) <= CAPACITY /\ IsInjective(hot)
    /\ Len(group) <= GROUP_COMMIT_MAX_REQUESTS
    /\ pending_writes \in 0 .. COUNTER_SIZE - 1
    /\ writer \in {"recv", "drain", "write"}
    /\ pc \in [Threads -> {"idle", "read", "fill", "sent", "wait", "store"}]
    /\ reply \in [Threads -> {"none", "ok", "err"}]
    /\ promised \in [Utxo -> {"in", "out", "any"}]
    /\ alone \subseteq Threads /\ ever \subseteq Utxo /\ unlogged \subseteq Block

(* A write that has returned Ok and that no other write overlapped is what *)
(* the database holds, through group commits, block commits and crashes    *)
(* (enqueue, writer_loop, commit_block_to_storage, apply_tx).              *)
AckedWritesHold ==
    \A u \in Utxo : promised[u] # "any" =>
        (promised[u] = "in" <=> <<"utxo", u>> \in rows)

(* The hot cache holds no output that no batch ever wrote: a write that    *)
(* failed does not reach it (put_utxo, get_utxo, scan_utxo_range).         *)
CachedWasStored == Range(hot) \subseteq ever

(* pending_writes, modulo its width, counts the queue but for the threads  *)
(* between send and fetch_add, so it never drifts (enqueue, writer_loop).  *)
PendingAccounted ==
    (pending_writes + Cardinality({t \in Threads : pc[t] = "sent"})) % COUNTER_SIZE
        = Len(queue) % COUNTER_SIZE

(* After any crash, a body on disk has its header, unless the block was    *)
(* committed without the log (store_block writes the header first).        *)
BodyHasHeader ==
    \A b \in Block \ unlogged : <<"body", b>> \in disk => <<"header", b>> \in disk

(* Every thread that called enqueue gets its answer (writer_loop responds  *)
(* to every member of a group, also when the batch fails).                 *)
WritesAnswered ==
    \A t \in Threads : (pc[t] \in {"sent", "wait"}) ~> (pc[t] = "idle")

(* The database, the cache and the queue through group commits, failing    *)
(* batches, block commits round the cache, flushes and crashes.            *)
StorageSound ==
    StorageTypeOK /\ AckedWritesHold /\ CachedWasStored /\ PendingAccounted /\ BodyHasHeader
============================================================================
