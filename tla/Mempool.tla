------------------------------ MODULE Mempool ------------------------------
(***************************************************************************)
(* The mempool of klomang-core (src/core/mempool.rs): the pending          *)
(* transactions, the priority index that orders them, and the byte count,  *)
(* against a ledger whose unspent outputs change under it.                 *)
(*                                                                         *)
(* One call holds the write lock, so one call is one step.  A block is     *)
(* applied to the ledger, its transactions are removed from the pool and   *)
(* the pool is revalidated in three calls, with others in between.         *)
(***************************************************************************)
EXTENDS Naturals, FiniteSetsExt

CONSTANTS
    Tx,                    \* transaction ids, ordered as the code orders hashes
    Outpoint,
    Inputs,                \* Inputs[t]: the outpoints t spends
    Outputs,               \* Outputs[t]: the outpoints t creates
    Size, Fee,             \* Size[t], Fee[t]: bytes, fee per byte
    WellFormed,            \* the transactions that pass validate_transaction_stateless
                           \* and the value checks of validate_transaction_stateful
    Genesis,               \* the outpoints unspent at the start
    MAX_BYTES, MAX_TXS, TTL,
    MaxTime                \* bound on the clock

ASSUME MempoolAssumption ==
    /\ Tx \subseteq Nat /\ WellFormed \subseteq Tx /\ Genesis \subseteq Outpoint
    /\ Inputs \in [Tx -> SUBSET Outpoint] /\ Outputs \in [Tx -> SUBSET Outpoint]
    /\ Size \in [Tx -> Nat] /\ Fee \in [Tx -> Nat]
    /\ \A t \in Tx : Inputs[t] # {} /\ Outputs[t] \cap Genesis = {}
    /\ \A t, u \in Tx : t # u => Outputs[t] \cap Outputs[u] = {}
    /\ MAX_BYTES \in Nat /\ MAX_TXS \in Nat \ {0} /\ TTL \in Nat /\ MaxTime \in Nat

VARIABLES
    pending,               \* keys of inner.transactions
    inserted_at,           \* inserted_at of every pending transaction
    priority_index,        \* the keys of the BTreeSet
    total_bytes,
    now,                   \* the clock, in units of the time the code reads
    unspent,               \* the UTXO set of the ledger
    confirmed,             \* transactions of applied blocks
    to_remove              \* those of them the pool has not been told of yet

poolVars == <<pending, inserted_at, priority_index, total_bytes>>
ledgerVars == <<unspent, confirmed>>
mempoolVars == <<pending, inserted_at, priority_index, total_bytes, now,
                 unspent, confirmed, to_remove>>

KeyOf(t) == [fee |-> Fee[t], at |-> inserted_at[t], id |-> t]

(* Ord for PriorityKey: higher fee first, then older, then lower id.       *)
Precedes(a, b) ==
    \/ a.fee > b.fee
    \/ a.fee = b.fee /\ a.at < b.at
    \/ a.fee = b.fee /\ a.at = b.at /\ a.id < b.id

(* The last key of the index. *)
MutIsLowest(key) ==        \* the first key
    key \in priority_index /\ \A o \in priority_index : o = key \/ Precedes(key, o)
IsLowest(key) ==
    key \in priority_index /\ \A o \in priority_index : o = key \/ Precedes(o, key)

(* validate_transaction_stateful.  The check against the total supply is   *)
(* implied by the value check, as the supply is the sum of all outputs.    *)
MutValid(t) == t \in WellFormed
Valid(t) == t \in WellFormed /\ Inputs[t] \subseteq unspent

MutHasRoom(t) == total_bytes + Size[t] <= MAX_BYTES /\ Cardinality(pending) <= MAX_TXS
HasRoom(t) == total_bytes + Size[t] <= MAX_BYTES /\ Cardinality(pending) + 1 <= MAX_TXS

Bytes(S) == MapThenSumSet(LAMBDA t : Size[t], S)

SaturatingSub(a, b) == IF a < b THEN 0 ELSE a - b

----------------------------------------------------------------------------
MempoolInit ==
    /\ pending = {} /\ inserted_at = [t \in Tx |-> 0]
    /\ priority_index = {} /\ total_bytes = 0
    /\ now = 0
    /\ unspent = Genesis
    /\ confirmed = {} /\ to_remove = {}

(* The end of insert_transaction; kept, index and bytes are what is left   *)
(* after an eviction.                                                      *)
MutStore(t, kept, index, bytes) ==   \* subtracts the size
    /\ pending' = kept \cup {t}
    /\ inserted_at' = [inserted_at EXCEPT ![t] = now]
    /\ priority_index' = index \cup {[fee |-> Fee[t], at |-> now, id |-> t]}
    /\ total_bytes' = bytes - Size[t]
    /\ UNCHANGED <<now, unspent, confirmed, to_remove>>
Store(t, kept, index, bytes) ==
    /\ pending' = kept \cup {t}
    /\ inserted_at' = [inserted_at EXCEPT ![t] = now]
    /\ priority_index' = index \cup {[fee |-> Fee[t], at |-> now, id |-> t]}
    /\ total_bytes' = bytes + Size[t]
    /\ UNCHANGED <<now, unspent, confirmed, to_remove>>

CanInsert(t) == Valid(t) /\ t \notin pending

InsertWithRoom(t) ==
    /\ CanInsert(t) /\ HasRoom(t)
    /\ Store(t, pending, priority_index, total_bytes)

(* evict_lowest_priority takes one transaction out, whatever its size; it  *)
(* does nothing on an empty index.  should_accept_new_transaction looks at *)
(* the fee only when one of the two limits is reached already.             *)
InsertEvicting(t) ==
    /\ CanInsert(t) /\ ~HasRoom(t)
    /\ \E key \in priority_index :
        /\ IsLowest(key)
        /\ \/ Cardinality(pending) < MAX_TXS /\ total_bytes < MAX_BYTES
           \/ Fee[t] > key.fee
        /\ Store(t, pending \ {key.id}, priority_index \ {key},
                 IF key.id \in pending THEN SaturatingSub(total_bytes, Size[key.id])
                 ELSE total_bytes)

InsertIntoEmpty(t) ==
    /\ CanInsert(t) /\ ~HasRoom(t) /\ priority_index = {}
    /\ Store(t, pending, priority_index, total_bytes)

(* The removal loop shared by revalidate_pending_transactions,             *)
(* remove_transactions and expire_old_transactions.                        *)
MutRemoveByNow(S) ==       \* looks the key up with the current time
    /\ pending' = pending \ S
    /\ priority_index' = priority_index \ {[KeyOf(t) EXCEPT !.at = now] : t \in S}
    /\ total_bytes' = SaturatingSub(total_bytes, Bytes(S))
    /\ UNCHANGED inserted_at
MutRemoveKeepBytes(S) ==   \* forgets the bytes
    /\ pending' = pending \ S
    /\ priority_index' = priority_index \ {KeyOf(t) : t \in S}
    /\ UNCHANGED <<inserted_at, total_bytes>>
RemoveAll(S) ==
    /\ pending' = pending \ S
    /\ priority_index' = priority_index \ {KeyOf(t) : t \in S}
    /\ total_bytes' = SaturatingSub(total_bytes, Bytes(S))
    /\ UNCHANGED inserted_at

Revalidate ==
    /\ RemoveAll({t \in pending : ~Valid(t)})
    /\ UNCHANGED <<now, unspent, confirmed, to_remove>>

RemoveOnBlockInclusion ==
    /\ RemoveAll(to_remove \cap pending)
    /\ to_remove' = {}
    /\ UNCHANGED <<now, unspent, confirmed>>

ExpireOldTransactions ==
    /\ RemoveAll({t \in pending : inserted_at[t] + TTL <= now})
    /\ UNCHANGED <<now, unspent, confirmed, to_remove>>

(* A block with transaction t, mined here or elsewhere, is applied. *)
ApplyToLedger(t) ==
    /\ Inputs[t] \subseteq unspent /\ t \notin confirmed
    /\ unspent' = (unspent \ Inputs[t]) \cup Outputs[t]
    /\ confirmed' = confirmed \cup {t}
    /\ to_remove' = to_remove \cup {t}
    /\ UNCHANGED poolVars /\ UNCHANGED now

Tick == now < MaxTime /\ now' = now + 1
        /\ UNCHANGED poolVars /\ UNCHANGED ledgerVars /\ UNCHANGED to_remove

MempoolNext ==
    \/ \E t \in Tx : InsertWithRoom(t) \/ InsertEvicting(t) \/ InsertIntoEmpty(t)
    \/ Revalidate \/ RemoveOnBlockInclusion \/ ExpireOldTransactions
    \/ \E t \in Tx : ApplyToLedger(t)
    \/ Tick

MempoolSpec == MempoolInit /\ [][MempoolNext]_mempoolVars

----------------------------------------------------------------------------
(* Types of the pool, the clock and the ledger. *)
MempoolTypeOK ==
    /\ pending \subseteq Tx /\ inserted_at \in [Tx -> Nat]
    /\ total_bytes \in Nat /\ now \in Nat
    /\ unspent \subseteq Outpoint
    /\ confirmed \subseteq Tx /\ to_remove \subseteq Tx

(* The index has exactly one key for every pending transaction, with the   *)
(* time of its last insertion: get_top_transactions misses none, and an    *)
(* eviction never takes a key that stands for no transaction.              *)
IndexMatchesPool == priority_index = {KeyOf(t) : t \in pending}

(* The byte count is the size of what is pending, after any mixture of     *)
(* insertions, evictions, removals and expiries.                           *)
BytesAccounted == total_bytes = Bytes(pending)

(* The counters of the pool, with their types, account for its contents.   *)
AccountsSound == MempoolTypeOK /\ BytesAccounted

(* The pool never holds more transactions than its limit. *)
CountBounded == Cardinality(pending) <= MAX_TXS

(* A transaction that is in the chain, and that the pool has been told of, *)
(* is not pending and does not come back.                                  *)
ConfirmedStaysOut == confirmed \cap pending \subseteq to_remove

(* An eviction takes a transaction that no pending one pays less than.     *)
EvictsLowestFee ==
    [][\A t \in Tx : InsertEvicting(t) =>
        \A u \in pending \ pending', o \in pending : Fee[u] <= Fee[o]]_mempoolVars
============================================================================
