---------------------------- MODULE CoreProofs ----------------------------
(***************************************************************************)
(* Proofs about parts of the core, for all constants.  The mempool first:  *)
(* the index and the ledger, then the number of transactions, evictions,   *)
(* and the byte count.  Then the ledger of unspent outputs, emission and   *)
(* rewards, the metering of contracts and, of the node's mempool, its two  *)
(* indexes, each with a specification of its own, as they share no state.  *)
(***************************************************************************)
EXTENDS Mempool, UtxoLedger, Rewards, ContractVm, DimensionIndex, FiniteInduction, SequenceTheorems

PoolTyped ==
    /\ pending \subseteq Tx /\ inserted_at \in [Tx -> Nat] /\ now \in Nat
    /\ unspent \subseteq Outpoint
    /\ confirmed \subseteq Tx /\ to_remove \subseteq Tx

(* Every outpoint that was ever unspent stems from the start of the ledger *)
(* or from a confirmed transaction, and none that a confirmed transaction  *)
(* has spent is unspent again.                                             *)
ConfirmedInv ==
    /\ \A o \in unspent : o \in Genesis \/ \E t \in confirmed : o \in Outputs[t]
    /\ \A t \in confirmed : \A o \in Inputs[t] :
            o \notin unspent /\ (o \in Genesis \/ \E u \in confirmed : o \in Outputs[u])

PoolInv == PoolTyped /\ IndexMatchesPool /\ ConfirmedInv /\ ConfirmedStaysOut

SizeInv == IsFiniteSet(pending) /\ CountBounded

(* The effect the three insertions share: t joins the kept transactions,   *)
(* and the index loses the keys of the others.                             *)
Joins(t, kept) ==
    /\ pending' = kept \cup {t}
    /\ inserted_at' = [inserted_at EXCEPT ![t] = now]
    /\ priority_index' = {KeyOf(u) : u \in kept} \cup {[fee |-> Fee[t], at |-> now, id |-> t]}
    /\ UNCHANGED <<now, unspent, confirmed, to_remove>>

Insert(t) == InsertWithRoom(t) \/ InsertEvicting(t) \/ InsertIntoEmpty(t)

(* insert_transaction keeps all pending transactions when there is room or *)
(* nothing is pending, and all but one otherwise.                          *)
LEMMA InsertJoins ==
  ASSUME IndexMatchesPool, NEW t \in Tx, Insert(t)
  PROVE  /\ CanInsert(t)
         /\ \/ Joins(t, pending) /\ (HasRoom(t) \/ pending = {})
            \/ \E u \in pending : Joins(t, pending \ {u})
<1>1. CASE InsertWithRoom(t)
  BY <1>1 DEF InsertWithRoom, Store, Joins, IndexMatchesPool
<1>2. CASE InsertEvicting(t)
  <2>1. PICK key \in priority_index :
          Store(t, pending \ {key.id}, priority_index \ {key},
                IF key.id \in pending THEN SaturatingSub(total_bytes, Size[key.id])
                ELSE total_bytes)
    BY <1>2 DEF InsertEvicting
  <2>2. PICK u \in pending : key = KeyOf(u)
    BY DEF IndexMatchesPool
  <2>3. \A w \in pending : KeyOf(w).id = w
    BY DEF KeyOf
  <2>4. key.id = u
    BY <2>2, <2>3
  <2>5. priority_index \ {key} = {KeyOf(w) : w \in pending \ {u}}
    BY <2>2, <2>3 DEF IndexMatchesPool
  <2>6. Joins(t, pending \ {u})
    BY <2>1, <2>4, <2>5 DEF Store, Joins
  <2> QED
    BY <1>2, <2>6 DEF InsertEvicting
<1>3. CASE InsertIntoEmpty(t)
  <2>1. pending = {}
    BY <1>3 DEF InsertIntoEmpty, IndexMatchesPool
  <2> QED
    BY <1>3, <2>1 DEF InsertIntoEmpty, Store, Joins, IndexMatchesPool
<1> QED
  BY <1>1, <1>2, <1>3 DEF Insert

(* The index follows an insertion. *)
LEMMA JoinsIndex ==
  ASSUME PoolTyped, NEW t \in Tx, t \notin pending, NEW kept \in SUBSET pending, Joins(t, kept)
  PROVE  IndexMatchesPool'
<1>1. \A u \in kept : KeyOf(u)' = KeyOf(u)
  BY DEF Joins, KeyOf, PoolTyped
<1>2. KeyOf(t)' = [fee |-> Fee[t], at |-> now, id |-> t]
  BY DEF Joins, KeyOf, PoolTyped
<1> QED
  BY <1>1, <1>2 DEF Joins, IndexMatchesPool

(* The index follows a removal. *)
LEMMA RemoveAllIndex ==
  ASSUME IndexMatchesPool, NEW S \in SUBSET pending, RemoveAll(S)
  PROVE  IndexMatchesPool'
<1>1. \A t \in pending : KeyOf(t).id = t
  BY DEF KeyOf
<1>2. \A t \in pending : KeyOf(t)' = KeyOf(t)
  BY DEF KeyOf, RemoveAll
<1>3. priority_index' = {KeyOf(t) : t \in pending \ S}
  BY <1>1 DEF RemoveAll, IndexMatchesPool
<1> QED
  BY <1>2, <1>3 DEF IndexMatchesPool, RemoveAll

(* Applying a block keeps the history of the outpoints: no transaction can *)
(* create an outpoint that was there before.                               *)
LEMMA LedgerStep ==
  ASSUME PoolTyped, ConfirmedInv, NEW t \in Tx, ApplyToLedger(t)
  PROVE  ConfirmedInv'
<1> USE MempoolAssumption DEF PoolTyped, ConfirmedInv
<1>1. confirmed' = confirmed \cup {t} /\ unspent' = (unspent \ Inputs[t]) \cup Outputs[t]
  BY DEF ApplyToLedger
<1>2. Inputs[t] \subseteq unspent /\ t \notin confirmed
  BY DEF ApplyToLedger
<1>3. ASSUME NEW u \in confirmed', NEW o \in Inputs[u]
      PROVE  o \in Genesis \/ \E w \in confirmed : o \in Outputs[w]
  BY <1>1, <1>2, <1>3
<1>4. ASSUME NEW u \in confirmed', NEW o \in Inputs[u]
      PROVE  o \notin Outputs[t]
  BY <1>2, <1>3, <1>4
<1>5. ASSUME NEW u \in confirmed', NEW o \in Inputs[u]
      PROVE  o \notin unspent'
  BY <1>1, <1>4, <1>5
<1>6. ASSUME NEW o \in unspent'
      PROVE  o \in Genesis \/ \E w \in confirmed' : o \in Outputs[w]
  BY <1>1, <1>6
<1> QED
  BY <1>1, <1>3, <1>5, <1>6

(* A transaction that passes validation has not been confirmed. *)
LEMMA ValidNotConfirmed ==
  ASSUME ConfirmedInv, NEW t \in Tx, Valid(t)
  PROVE  t \notin confirmed
  BY MempoolAssumption DEF ConfirmedInv, Valid

(* Every call on the mempool, and every block, keeps the invariant. *)
LEMMA PoolInvStep == PoolInv /\ [MempoolNext]_mempoolVars => PoolInv'
<1> SUFFICES ASSUME PoolInv, [MempoolNext]_mempoolVars PROVE PoolInv'
  OBVIOUS
<1> USE DEF PoolInv
<1>1. ASSUME NEW t \in Tx, Insert(t) PROVE PoolInv'
  <2>1. CanInsert(t) /\ \E kept \in SUBSET pending : Joins(t, kept)
    BY <1>1, InsertJoins
  <2>2. PICK kept \in SUBSET pending : Joins(t, kept)
    BY <2>1
  <2>3. PoolTyped' /\ ConfirmedInv'
    BY <2>2 DEF Joins, PoolTyped, ConfirmedInv
  <2>4. IndexMatchesPool'
    BY <2>1, <2>2, JoinsIndex DEF CanInsert
  <2>5. t \notin confirmed
    BY <2>1, ValidNotConfirmed DEF CanInsert
  <2>6. ConfirmedStaysOut'
    BY <2>2, <2>5 DEF Joins, ConfirmedStaysOut
  <2> QED
    BY <2>3, <2>4, <2>6
<1>2. CASE Revalidate
  <2>1. IndexMatchesPool'
    BY <1>2, RemoveAllIndex DEF Revalidate
  <2> QED
    BY <1>2, <2>1 DEF Revalidate, RemoveAll, PoolTyped, ConfirmedInv, ConfirmedStaysOut
<1>3. CASE RemoveOnBlockInclusion
  <2>1. IndexMatchesPool'
    BY <1>3, RemoveAllIndex DEF RemoveOnBlockInclusion
  <2> QED
    BY <1>3, <2>1 DEF RemoveOnBlockInclusion, RemoveAll, PoolTyped, ConfirmedInv, ConfirmedStaysOut
<1>4. CASE ExpireOldTransactions
  <2>1. IndexMatchesPool'
    BY <1>4, RemoveAllIndex DEF ExpireOldTransactions
  <2> QED
    BY <1>4, <2>1 DEF ExpireOldTransactions, RemoveAll, PoolTyped, ConfirmedInv, ConfirmedStaysOut
<1>5. ASSUME NEW t \in Tx, ApplyToLedger(t) PROVE PoolInv'
  <2>1. ConfirmedInv'
    BY <1>5, LedgerStep
  <2>2. PoolTyped' /\ ConfirmedStaysOut'
    BY <1>5, MempoolAssumption DEF ApplyToLedger, poolVars, PoolTyped, ConfirmedStaysOut
  <2>3. IndexMatchesPool'
    BY <1>5 DEF ApplyToLedger, poolVars, IndexMatchesPool, KeyOf
  <2> QED
    BY <2>1, <2>2, <2>3
<1>6. CASE Tick
  BY <1>6 DEF Tick, poolVars, ledgerVars, PoolTyped, IndexMatchesPool, KeyOf, ConfirmedInv, ConfirmedStaysOut
<1>7. CASE UNCHANGED mempoolVars
  BY <1>7 DEF mempoolVars, PoolTyped, IndexMatchesPool, KeyOf, ConfirmedInv, ConfirmedStaysOut
<1> QED
  BY <1>1, <1>2, <1>3, <1>4, <1>5, <1>6, <1>7 DEF MempoolNext, Insert

(* The invariant holds of every behaviour of the pool. *)
THEOREM MempoolInvariant == MempoolSpec => []PoolInv
<1>1. MempoolInit => PoolInv
  BY MempoolAssumption
  DEF MempoolInit, PoolInv, PoolTyped, IndexMatchesPool, ConfirmedInv, ConfirmedStaysOut
<1> QED
  BY <1>1, PoolInvStep, PTL DEF MempoolSpec

(* For every limit and every mixture of insertions, evictions, removals    *)
(* and expiries the index has one key per pending transaction.             *)
THEOREM MempoolIndex == MempoolSpec => []IndexMatchesPool
<1>1. PoolInv => IndexMatchesPool
  BY DEF PoolInv
<1> QED
  BY <1>1, MempoolInvariant, PTL

(* A confirmed transaction the pool was told of is not and will not be     *)
(* pending, whatever blocks and transactions arrive in between.            *)
THEOREM MempoolConfirmed == MempoolSpec => []ConfirmedStaysOut
<1>1. PoolInv => ConfirmedStaysOut
  BY DEF PoolInv
<1> QED
  BY <1>1, MempoolInvariant, PTL

(* No operation leaves more transactions than the limit. *)
LEMMA SizeStep == PoolInv /\ SizeInv /\ [MempoolNext]_mempoolVars => SizeInv'
<1> SUFFICES ASSUME PoolInv, SizeInv, [MempoolNext]_mempoolVars PROVE SizeInv'
  OBVIOUS
<1> USE MempoolAssumption DEF SizeInv, CountBounded
<1>0. Cardinality(pending) \in Nat
  BY FS_CardinalityType
<1>1. ASSUME NEW t \in Tx, Insert(t) PROVE SizeInv'
  <2>1. t \notin pending
    BY <1>1, InsertJoins DEF PoolInv, CanInsert
  <2>2. CASE Joins(t, pending) /\ (HasRoom(t) \/ pending = {})
    <3>1. IsFiniteSet(pending') /\ Cardinality(pending') = Cardinality(pending) + 1
      BY <2>1, <2>2, FS_AddElement DEF Joins
    <3>2. Cardinality(pending) + 1 <= MAX_TXS
      BY <2>2, FS_EmptySet DEF HasRoom
    <3> QED
      BY <3>1, <3>2
  <2>3. ASSUME NEW u \in pending, Joins(t, pending \ {u}) PROVE SizeInv'
    <3>1. IsFiniteSet(pending \ {u}) /\ Cardinality(pending \ {u}) = Cardinality(pending) - 1
      BY FS_RemoveElement
    <3>2. IsFiniteSet(pending') /\ Cardinality(pending') = Cardinality(pending \ {u}) + 1
      BY <2>1, <2>3, <3>1, FS_AddElement DEF Joins
    <3> QED
      BY <1>0, <3>1, <3>2
  <2> QED
    BY <1>1, <2>2, <2>3, InsertJoins DEF PoolInv
<1>2. ASSUME NEW S, RemoveAll(S) PROVE SizeInv'
  <2>1. IsFiniteSet(pending') /\ Cardinality(pending') <= Cardinality(pending)
    BY <1>2, FS_Subset DEF RemoveAll
  <2> QED
    BY <1>0, <2>1, FS_CardinalityType
<1>3. CASE UNCHANGED pending
  BY <1>3
<1> QED
  BY <1>1, <1>2, <1>3 DEF MempoolNext, Insert, Revalidate, RemoveOnBlockInclusion,
     ExpireOldTransactions, ApplyToLedger, Tick, poolVars, mempoolVars

(* The pool never holds more than MAX_TXS transactions. *)
THEOREM MempoolCount == MempoolSpec => []CountBounded
<1>1. MempoolInit => PoolInv /\ SizeInv
  BY MempoolAssumption, FS_EmptySet
  DEF MempoolInit, PoolInv, PoolTyped, IndexMatchesPool, ConfirmedInv, ConfirmedStaysOut,
      SizeInv, CountBounded
<1>2. SizeInv => CountBounded
  BY DEF SizeInv
<1> QED
  BY <1>1, <1>2, PoolInvStep, SizeStep, PTL DEF MempoolSpec

(* An eviction takes the transaction with the last key of the index, and   *)
(* the keys are those of the pending transactions: none of them pays less  *)
(* (evict_lowest_priority).                                                *)
THEOREM MempoolEviction == MempoolSpec => EvictsLowestFee
<1>1. PoolInv /\ [MempoolNext]_mempoolVars =>
        [\A t \in Tx : InsertEvicting(t) =>
            \A u \in pending \ pending', o \in pending : Fee[u] <= Fee[o]]_mempoolVars
  <2> SUFFICES ASSUME PoolInv, NEW t \in Tx, InsertEvicting(t),
                      NEW u \in pending \ pending', NEW o \in pending
               PROVE  Fee[u] <= Fee[o]
    OBVIOUS
  <2>1. PICK key \in priority_index :
          /\ IsLowest(key)
          /\ pending' = (pending \ {key.id}) \cup {t}
    BY DEF InsertEvicting, Store
  <2>2. u = key.id
    BY <2>1
  <2>3. PICK w \in pending : key = KeyOf(w)
    BY DEF PoolInv, IndexMatchesPool
  <2>4. w = u /\ key.fee = Fee[u]
    BY <2>2, <2>3 DEF KeyOf
  <2>5. KeyOf(o) \in priority_index /\ KeyOf(o).fee = Fee[o]
    BY DEF PoolInv, IndexMatchesPool, KeyOf
  <2>6. KeyOf(o) = key \/ KeyOf(o).fee >= key.fee
    <3>1. KeyOf(o) = key \/ Precedes(KeyOf(o), key)
      BY <2>1, <2>5 DEF IsLowest
    <3>2. Fee[o] \in Nat /\ Fee[u] \in Nat
      BY MempoolAssumption DEF PoolInv, PoolTyped
    <3> QED
      BY <2>4, <2>5, <3>1, <3>2 DEF Precedes
  <2>7. Fee[o] \in Nat /\ Fee[u] \in Nat
    BY MempoolAssumption DEF PoolInv, PoolTyped
  <2> QED
    BY <2>4, <2>5, <2>6, <2>7
<1> QED
  BY <1>1, MempoolInvariant, PTL DEF MempoolSpec, EvictsLowestFee

----------------------------------------------------------------------------
(* The byte count *)

(* The byte count is a sum over the transactions. *)
LEMMA BytesIsSum == \A S : Bytes(S) = Sum(Size, S)
  BY Zenon DEF Bytes, Sum

(* The size of a set of transactions, and what is left of it without some. *)
LEMMA BytesFacts ==
  ASSUME NEW P \in SUBSET Tx, IsFiniteSet(P)
  PROVE  /\ Bytes(P) \in Nat
         /\ \A t \in P : Size[t] \in Nat /\ Bytes(P \ {t}) \in Nat /\ Bytes(P) = Bytes(P \ {t}) + Size[t]
         /\ \A S \in SUBSET P : /\ Bytes(S) \in Nat /\ Bytes(P \ S) \in Nat
                               /\ Bytes(P) = Bytes(P \ S) + Bytes(S)
<1>1. \A t \in P : Size[t] \in Nat
  BY MempoolAssumption
<1>2. /\ Sum(Size, P) \in Nat
      /\ \A t \in P : Sum(Size, P \ {t}) \in Nat /\ Sum(Size, P) = Sum(Size, P \ {t}) + Size[t]
  BY <1>1, SumRemove
<1>3. ASSUME NEW S \in SUBSET P
      PROVE  Sum(Size, S) \in Nat /\ Sum(Size, P \ S) \in Nat /\ Sum(Size, P) = Sum(Size, P \ S) + Sum(Size, S)
  BY <1>1, SumPart
<1>4. Bytes(P) = Sum(Size, P) /\ \A S : Bytes(S) = Sum(Size, S) /\ Bytes(P \ S) = Sum(Size, P \ S)
  BY BytesIsSum, Zenon
<1>5. \A t \in P : Bytes(P \ {t}) = Sum(Size, P \ {t})
  BY BytesIsSum, Zenon
<1> QED
  BY <1>1, <1>2, <1>3, <1>4, <1>5

AccountInv == PoolInv /\ SizeInv /\ total_bytes \in Nat /\ BytesAccounted

(* insert_transaction, with the bytes: an eviction subtracts the size of   *)
(* what it takes out, which is never more than the count.                  *)
LEMMA InsertBytes ==
  ASSUME AccountInv, NEW t \in Tx, Insert(t)
  PROVE  total_bytes' \in Nat /\ BytesAccounted'
<1> USE DEF AccountInv, BytesAccounted
<1>1. pending \in SUBSET Tx /\ IsFiniteSet(pending) /\ Size[t] \in Nat
  BY MempoolAssumption DEF PoolInv, PoolTyped, SizeInv
<1>2. ASSUME NEW kept \in SUBSET pending, t \notin kept,
             pending' = kept \cup {t}, total_bytes' = Bytes(kept) + Size[t]
      PROVE  total_bytes' \in Nat /\ BytesAccounted'
  <2>1. pending' \in SUBSET Tx /\ IsFiniteSet(pending')
    BY <1>1, <1>2, FS_Subset, FS_AddElement
  <2>2. pending' \ {t} = kept /\ t \in pending'
    BY <1>2
  <2>3. Bytes(pending') \in Nat /\ Bytes(pending' \ {t}) \in Nat /\ Bytes(pending') = Bytes(pending' \ {t}) + Size[t]
    BY <2>1, <2>2, BytesFacts
  <2>4. Bytes(pending') = total_bytes'
    BY <1>2, <2>2, <2>3
  <2> QED
    BY <2>3, <2>4
<1>3. t \notin pending
  BY InsertJoins DEF PoolInv, CanInsert
<1>4. CASE InsertWithRoom(t) \/ InsertIntoEmpty(t)
  BY <1>2, <1>3, <1>4 DEF InsertWithRoom, InsertIntoEmpty, Store
<1>5. CASE InsertEvicting(t)
  <2>1. PICK key \in priority_index :
          Store(t, pending \ {key.id}, priority_index \ {key},
                IF key.id \in pending THEN SaturatingSub(total_bytes, Size[key.id])
                ELSE total_bytes)
    BY <1>5 DEF InsertEvicting
  <2>2. PICK u \in pending : key = KeyOf(u)
    BY DEF PoolInv, IndexMatchesPool
  <2>3. key.id = u
    BY <2>2 DEF KeyOf
  <2>4. total_bytes = Bytes(pending \ {u}) + Size[u] /\ Size[u] \in Nat
    BY <1>1, BytesFacts
  <2>5. Bytes(pending \ {u}) \in Nat
    BY <1>1, BytesFacts
  <2>6. SaturatingSub(total_bytes, Size[u]) = Bytes(pending \ {u})
    BY <2>4, <2>5 DEF SaturatingSub
  <2>7. pending' = (pending \ {u}) \cup {t} /\ total_bytes' = Bytes(pending \ {u}) + Size[t]
    BY <2>1, <2>3, <2>6 DEF Store
  <2> QED
    BY <1>2, <1>3, <2>7
<1> QED
  BY <1>4, <1>5 DEF Insert

(* The removal loops subtract the sizes of what they take out. *)
LEMMA RemoveBytes ==
  ASSUME AccountInv, NEW S \in SUBSET pending, RemoveAll(S)
  PROVE  total_bytes' \in Nat /\ BytesAccounted'
<1>1. pending \in SUBSET Tx /\ IsFiniteSet(pending) /\ total_bytes = Bytes(pending)
  BY DEF AccountInv, PoolInv, PoolTyped, SizeInv, BytesAccounted
<1>2. Bytes(S) \in Nat /\ Bytes(pending \ S) \in Nat /\ total_bytes = Bytes(pending \ S) + Bytes(S)
  BY <1>1, BytesFacts
<1>3. SaturatingSub(total_bytes, Bytes(S)) = Bytes(pending \ S)
  BY <1>2 DEF SaturatingSub
<1> QED
  BY <1>2, <1>3 DEF RemoveAll, BytesAccounted

(* total_bytes is the size of what is pending, in every state: no mixture  *)
(* of insertions, evictions, removals and expiries makes it drift, and no  *)
(* saturating_sub ever saturates.                                          *)
THEOREM MempoolBytes == MempoolSpec => []AccountsSound
<1>1. MempoolInit => AccountInv
  <2> SUFFICES ASSUME MempoolInit PROVE AccountInv
    OBVIOUS
  <2>1. PoolInv /\ SizeInv
    BY MempoolAssumption, FS_EmptySet
    DEF MempoolInit, PoolInv, PoolTyped, IndexMatchesPool, ConfirmedInv, ConfirmedStaysOut,
        SizeInv, CountBounded
  <2>2. Bytes({}) = 0
    BY FS_EmptySet, SumRemove, BytesIsSum
  <2> QED
    BY <2>1, <2>2 DEF MempoolInit, AccountInv, BytesAccounted
<1>2. AccountInv /\ [MempoolNext]_mempoolVars => AccountInv'
  <2> SUFFICES ASSUME AccountInv, [MempoolNext]_mempoolVars PROVE AccountInv'
    OBVIOUS
  <2>1. PoolInv' /\ SizeInv'
    BY PoolInvStep, SizeStep DEF AccountInv
  <2>2. total_bytes' \in Nat /\ BytesAccounted'
    <3>1. ASSUME NEW t \in Tx, Insert(t) PROVE total_bytes' \in Nat /\ BytesAccounted'
      BY <3>1, InsertBytes
    <3>2. CASE Revalidate \/ RemoveOnBlockInclusion \/ ExpireOldTransactions
      <4>1. PICK S \in SUBSET pending : RemoveAll(S)
        BY <3>2 DEF Revalidate, RemoveOnBlockInclusion, ExpireOldTransactions
      <4> QED
        BY <4>1, RemoveBytes
    <3>3. CASE UNCHANGED <<pending, total_bytes>>
      BY <3>3 DEF AccountInv, BytesAccounted
    <3> QED
      BY <3>1, <3>2, <3>3 DEF MempoolNext, Insert, ApplyToLedger, Tick, poolVars, mempoolVars
  <2> QED
    BY <2>1, <2>2 DEF AccountInv
<1>3. AccountInv => AccountsSound
  BY DEF AccountInv, PoolInv, PoolTyped, AccountsSound, MempoolTypeOK
<1> QED
  BY <1>1, <1>2, <1>3, PTL DEF MempoolSpec

-----------------------------------------------------------------------------
(* The ledger of unspent outputs *)
LedgerSpec == UlInit /\ [][UlNext]_ul

Totalling == INSTANCE Folding WITH Step <- LAMBDA a, sum, v : CheckedAdd(sum, v)
Applying == INSTANCE Folding WITH Step <- LAMBDA a, s, tx : ApplyNext(s, tx)
Reverting == INSTANCE Folding WITH Step <- LAMBDA spent, r, tx : RevertTx(r, tx, spent)

IsLedger(u) == /\ u = [o \in DOMAIN u |-> u[o]] /\ IsFiniteSet(DOMAIN u)
               /\ \A o \in DOMAIN u : u[o].value \in Nat
Amounts(u) == [o \in DOMAIN u |-> u[o].value]

LEMMA SumFunctionIs == \A f : SumFunction(f) = Sum(f, DOMAIN f)
  BY Zenon DEF SumFunction, SumFunctionOnSet, FoldFunctionOnSet, Sum, MapThenSumSet

LEMMA ValueIs ==
  ASSUME NEW u, IsLedger(u)
  PROVE  /\ ValueOf(u) = Sum(Amounts(u), DOMAIN u) /\ ValueOf(u) \in Nat
         /\ \A o \in DOMAIN u : Amounts(u)[o] = u[o].value /\ Amounts(u)[o] \in Nat
<1>1. DOMAIN Amounts(u) = DOMAIN u /\ \A o \in DOMAIN u : Amounts(u)[o] = u[o].value
  BY DEF Amounts
<1>2. ValueOf(u) = SumFunction(Amounts(u))
  BY Zenon DEF ValueOf, Amounts
<1>3. ValueOf(u) = Sum(Amounts(u), DOMAIN u)
  BY <1>1, <1>2, SumFunctionIs, Zenon
<1>4. IsFiniteSet(DOMAIN u) /\ \A o \in DOMAIN u : Amounts(u)[o] \in Nat
  BY <1>1 DEF IsLedger
<1>5. Sum(Amounts(u), DOMAIN u) \in Nat
  BY <1>4, SumRemove
<1> QED
  BY <1>1, <1>3, <1>4, <1>5

(* The sum along a list without repetitions is that over its elements.     *)
Along(n, q, v, w) == /\ \A i \in 1 .. n : v[i] \in Nat /\ w[q[i]] = v[i]
                     /\ \A i, j \in 1 .. n : i # j => q[i] # q[j]
LEMMA SumAlong ==
  ASSUME NEW n \in Nat, NEW q, NEW v, NEW w, Along(n, q, v, w)
  PROVE  /\ Sum(v, 1 .. n) = Sum(w, {q[i] : i \in 1 .. n}) /\ Sum(v, 1 .. n) \in Nat
         /\ IsFiniteSet({q[i] : i \in 1 .. n})
<1> DEFINE S(i) == {q[j] : j \in 1 .. i}
           G == {i \in Nat : IsFiniteSet(S(i)) /\ Sum(v, 1 .. i) = Sum(w, S(i)) /\ Sum(v, 1 .. i) \in Nat}
<1>1. 0 \in G
  <2>1. S(0) = {} /\ 1 .. 0 = {}
    OBVIOUS
  <2>2. Sum(v, {}) = 0 /\ Sum(w, {}) = 0 /\ IsFiniteSet({})
    BY FS_EmptySet, SumRemove
  <2> QED
    BY <2>1, <2>2
<1>2. ASSUME NEW i \in 0 .. n - 1, i \in G PROVE i + 1 \in G
  <2> DEFINE D == 1 .. i
             E == S(i)
             y == i + 1
             z == q[i + 1]
  <2>1. i \in Nat /\ y \in Nat /\ y \in 1 .. n /\ D \subseteq 1 .. n /\ y \notin D /\ 1 .. i + 1 = D \union {y}
    OBVIOUS
  <2>2. IsFiniteSet(D)
    BY <2>1, FS_Interval
  <2>3. \A x \in D : v[x] \in Nat /\ w[q[x]] = v[x] /\ q[x] # z
    BY <2>1 DEF Along
  <2>4. v[y] \in Nat /\ w[z] = v[y]
    BY <2>1 DEF Along
  <2>5. S(i + 1) = E \union {z}
    BY <2>1
  <2>6. IsFiniteSet(E) /\ Sum(v, D) = Sum(w, E) /\ Sum(v, D) \in Nat
    BY <1>2
  <2>7. z \notin E /\ \A x \in E : w[x] \in Nat
    BY <2>3
  <2> HIDE DEF D, E, y, z
  <2>8. Sum(v, D \union {y}) = Sum(v, D) + v[y]
    BY <2>1, <2>2, <2>3, <2>4, SumAdd
  <2>9. Sum(w, E \union {z}) = Sum(w, E) + w[z] /\ IsFiniteSet(E \union {z})
    BY <2>4, <2>6, <2>7, SumAdd, FS_AddElement
  <2>10. Sum(v, 1 .. i + 1) = Sum(v, D) + v[y] /\ Sum(w, S(i + 1)) = Sum(w, E) + w[z] /\ IsFiniteSet(S(i + 1))
    BY <2>1, <2>5, <2>8, <2>9, Zenon
  <2> HIDE DEF S
  <2> QED
    BY <2>1, <2>4, <2>6, <2>10 DEF y
<1>3. n \in G
  <2> HIDE DEF G
  <2>1. \A i \in 0 .. n : i \in G
    BY <1>1, <1>2, UpTo
  <2> QED
    BY <2>1
<1> QED
  BY <1>3

(* checked_add over a list is its sum, unless it overflows.                *)
LEMMA CheckedSumIs ==
  ASSUME NEW q \in Seq(Nat)
  PROVE  CheckedSum(q) \in Nat /\ (CheckedSum(q) # Overflow => CheckedSum(q) = Sum(q, 1 .. Len(q)))
<1> DEFINE n == Len(q)
           c == CheckedSum(q)
<1>1. c = Totalling!Fold(0, 0, q)
  BY Zenon DEF CheckedSum, FoldLeft, MapThenFoldSet, Max, Totalling!Fold, Totalling!IsIter, Totalling!Latest
<1>2. n \in Nat /\ DOMAIN q = 1 .. n /\ \A i \in 1 .. n : q[i] \in Nat
  OBVIOUS
<1> HIDE DEF c
<1>3. PICK f : Totalling!IsTrace(0, f, 0, q) /\ c = f[n]
  BY <1>1, <1>2, Leasts, Totalling!FoldTrace, Zenon
<1>4. f[0] = 0 /\ \A i \in 1 .. n : f[i] = CheckedAdd(f[i - 1], q[i])
  BY <1>2, <1>3, Totalling!TraceStep
<1> DEFINE G == {i \in Nat : f[i] \in Nat /\ Sum(q, 1 .. i) \in Nat /\ (f[i] = Overflow \/ f[i] = Sum(q, 1 .. i))}
<1> HIDE DEF n
<1>5. 0 \in G
  <2>1. Sum(q, {}) = 0 /\ 1 .. 0 = {}
    BY FS_EmptySet, SumRemove
  <2> QED
    BY <1>4, <2>1
<1>6. ASSUME NEW i \in 0 .. n - 1, i \in G PROVE i + 1 \in G
  <2> DEFINE D == 1 .. i
             y == i + 1
  <2>1. i \in Nat /\ y \in Nat /\ y \in 1 .. n /\ D \subseteq 1 .. n /\ y \notin D /\ 1 .. i + 1 = D \union {y} /\ y - 1 = i
    BY <1>2
  <2>2. IsFiniteSet(D)
    BY <2>1, FS_Interval
  <2>3. q[y] \in Nat /\ \A x \in D : q[x] \in Nat
    BY <1>2, <2>1
  <2>4. f[i] \in Nat /\ Sum(q, D) \in Nat /\ (f[i] = Overflow \/ f[i] = Sum(q, D))
    BY <1>6
  <2>5. f[y] = CheckedAdd(f[i], q[y])
    BY <1>4, <2>1
  <2> HIDE DEF D, y
  <2>6. Sum(q, D \union {y}) = Sum(q, D) + q[y]
    BY <2>1, <2>2, <2>3, SumAdd
  <2>7. f[y] \in Nat /\ (f[y] = Overflow \/ f[y] = Sum(q, D) + q[y])
    BY <2>3, <2>4, <2>5, LedgerAssumption DEF CheckedAdd, Overflow
  <2>8. Sum(q, 1 .. i + 1) = Sum(q, D) + q[y]
    BY <2>1, <2>6, Zenon
  <2>9. Sum(q, D) + q[y] \in Nat
    BY <2>3, <2>4
  <2> QED
    BY <2>1, <2>7, <2>8, <2>9 DEF y
<1>7. n \in G
  <2> HIDE DEF G
  <2>1. \A i \in 0 .. n : i \in G
    BY <1>2, <1>5, <1>6, UpTo
  <2> QED
    BY <1>2, <2>1
<1>8. c \in Nat /\ (c # Overflow => c = Sum(q, 1 .. n))
  BY <1>3, <1>7
<1> QED
  BY <1>8 DEF c, n

(* A list as long as the set of its elements repeats nothing. *)
LEMMA AllDistinct ==
  ASSUME NEW s, NEW n \in Nat, DOMAIN s = 1 .. n, s = [i \in 1 .. n |-> s[i]], Cardinality(Range(s)) = n
  PROVE  \A i, j \in 1 .. n : i # j => s[i] # s[j]
<1>1. s \in Surjection(1 .. n, Range(s))
  BY DEF Surjection, Range
<1>2. IsFiniteSet(1 .. n) /\ Cardinality(1 .. n) = n
  BY FS_Interval
<1>3. s \in Injection(1 .. n, Range(s))
  BY <1>1, <1>2, FS_SurjSameCardinalityImpliesInj
<1> QED
  BY <1>3 DEF Injection, IsInjective

LEMMA OverLedgers ==
  ASSUME NEW f, NEW g, IsLedger(f), IsLedger(g)
  PROVE  IsLedger(Over(f, g))
<1>1. IsFiniteSet(DOMAIN f \union DOMAIN g)
  BY FS_Union DEF IsLedger
<1>2. \A x \in DOMAIN f \union DOMAIN g : Over(f, g)[x].value \in Nat
  <2> SUFFICES ASSUME NEW x \in DOMAIN f \union DOMAIN g PROVE Over(f, g)[x].value \in Nat
    OBVIOUS
  <2>1. CASE x \in DOMAIN f
    <3>1. Over(f, g)[x] = f[x]
      BY <2>1 DEF Over
    <3> QED
      BY <2>1, <3>1 DEF IsLedger
  <2>2. CASE x \notin DOMAIN f
    <3>1. Over(f, g)[x] = g[x] /\ x \in DOMAIN g
      BY <2>2 DEF Over
    <3> QED
      BY <3>1 DEF IsLedger
  <2> QED
    BY <2>1, <2>2
<1>3. DOMAIN Over(f, g) = DOMAIN f \union DOMAIN g /\ Over(f, g) = [x \in DOMAIN Over(f, g) |-> Over(f, g)[x]]
  BY DEF Over
<1>4. IsFiniteSet(DOMAIN Over(f, g)) /\ \A x \in DOMAIN Over(f, g) : Over(f, g)[x].value \in Nat
  BY <1>1, <1>2, <1>3, Zenon
<1> QED
  BY <1>3, <1>4, Zenon DEF IsLedger

LEMMA RestrictLedger ==
  ASSUME NEW u, IsLedger(u), NEW S \in SUBSET DOMAIN u
  PROVE  IsLedger(Restrict(u, S)) /\ DOMAIN Restrict(u, S) = S /\ \A o \in S : Restrict(u, S)[o] = u[o]
<1>1. DOMAIN Restrict(u, S) = S /\ \A o \in S : Restrict(u, S)[o] = u[o]
  BY DEF Restrict
<1>2. Restrict(u, S) = [o \in DOMAIN Restrict(u, S) |-> Restrict(u, S)[o]]
  BY DEF Restrict
<1>3. IsFiniteSet(S) /\ \A o \in S : u[o].value \in Nat
  BY FS_Subset DEF IsLedger
<1>4. \A o \in S : Restrict(u, S)[o].value \in Nat
  BY <1>1, <1>3
<1> QED
  BY <1>1, <1>2, <1>3, <1>4, Zenon DEF IsLedger

(* The outputs a transaction creates *)
NewOutputs(tx) == [o \in Created(tx) |-> OutputOf(tx, o)]
LEMMA NewOutputsAre ==
  ASSUME NEW tx, Payment(tx)
  PROVE  /\ IsLedger(NewOutputs(tx)) /\ DOMAIN NewOutputs(tx) = Created(tx)
         /\ LET v == [i \in DOMAIN tx.outputs |-> tx.outputs[i].value]
            IN ValueOf(NewOutputs(tx)) = Sum(v, 1 .. Len(v)) /\ v \in Seq(Nat)
<1> DEFINE v == [i \in DOMAIN tx.outputs |-> tx.outputs[i].value]
           n == Len(tx.outputs)
           q == [i \in 1 .. n |-> <<tx.id, i - 1>>]
           c == NewOutputs(tx)
<1>1. n \in Nat /\ DOMAIN tx.outputs = 1 .. n /\ \A i \in 1 .. n : tx.outputs[i].value \in Nat
  <2> DEFINE R == [value : Nat, burn : BOOLEAN]
  <2>1. tx.outputs \in Seq(R)
    BY DEF Payment
  <2>2. \A r \in R : r.value \in Nat
    OBVIOUS
  <2> HIDE DEF R
  <2> QED
    BY <2>1, <2>2
<1>2. v \in Seq(Nat) /\ Len(v) = n /\ \A i \in 1 .. n : v[i] = tx.outputs[i].value /\ v[i] \in Nat
  BY <1>1
<1>3. \A i \in 1 .. n : q[i] = <<tx.id, i - 1>>
  OBVIOUS
<1>4. \A i, j \in 1 .. n : i # j => q[i] # q[j]
  <2> SUFFICES ASSUME NEW i \in 1 .. n, NEW j \in 1 .. n, i # j PROVE <<tx.id, i - 1>> # <<tx.id, j - 1>>
    BY <1>3
  <2>1. i - 1 # j - 1
    BY <1>1
  <2> QED
    BY <2>1
<1>5. Created(tx) = {q[i] : i \in 1 .. n}
  BY <1>1, <1>3 DEF Created
<1>6. \A i \in 1 .. n : OutputOf(tx, <<tx.id, i - 1>>) = tx.outputs[i]
  BY <1>1 DEF OutputOf
<1>7. DOMAIN c = Created(tx) /\ c = [o \in DOMAIN c |-> c[o]] /\ \A o \in Created(tx) : c[o] = OutputOf(tx, o)
  BY DEF NewOutputs
<1> HIDE DEF v, q, c, n
<1>8. \A i \in 1 .. n : c[q[i]] = tx.outputs[i]
  BY <1>3, <1>5, <1>6, <1>7
<1>9. \A o \in DOMAIN c : c[o].value \in Nat
  BY <1>1, <1>5, <1>7, <1>8
<1>10. DOMAIN Amounts(c) = DOMAIN c /\ \A o \in DOMAIN c : Amounts(c)[o] = c[o].value
  BY DEF Amounts
<1>11. \A i \in 1 .. n : v[i] \in Nat /\ Amounts(c)[q[i]] = v[i]
  BY <1>2, <1>5, <1>7, <1>8, <1>10
<1>12. Sum(v, 1 .. n) = Sum(Amounts(c), {q[i] : i \in 1 .. n}) /\ IsFiniteSet({q[i] : i \in 1 .. n})
  <2>1. Along(n, q, v, Amounts(c))
    BY <1>4, <1>11, Zenon DEF Along
  <2> QED
    BY <1>1, <2>1, SumAlong, Zenon
<1>13. IsLedger(c)
  BY <1>5, <1>7, <1>9, <1>12 DEF IsLedger
<1>14. ValueOf(c) = Sum(v, 1 .. n)
  BY <1>5, <1>7, <1>12, <1>13, ValueIs
<1> QED
  BY <1>2, <1>7, <1>13, <1>14 DEF v, c

(* What validate_tx has made sure of *)
LEMMA ValidPays ==
  ASSUME NEW u, IsLedger(u), NEW tx, Payment(tx), ~(ValidateTx(u, tx) < 0)
  PROVE  /\ Range(tx.inputs) \subseteq DOMAIN u
         /\ ~IsCoinbase(tx) => ValueOf(NewOutputs(tx)) <= Sum(Amounts(u), Range(tx.inputs))
         /\ IsCoinbase(tx) => Range(tx.inputs) = {}
<1> DEFINE I == Range(tx.inputs)
           n == Len(tx.inputs)
           vin == [i \in DOMAIN tx.inputs |-> u[tx.inputs[i]].value]
           vout == [i \in DOMAIN tx.outputs |-> tx.outputs[i].value]
<1>1. n \in Nat /\ DOMAIN tx.inputs = 1 .. n /\ tx.inputs = [i \in 1 .. n |-> tx.inputs[i]]
  BY DEF Payment
<1>2. CASE IsCoinbase(tx)
  <2>1. I = {}
    BY <1>2 DEF IsCoinbase, Range
  <2> QED
    BY <1>2, <2>1
<1>3. CASE ~IsCoinbase(tx)
  <2>1. /\ Cardinality(I) = n
        /\ \A i \in DOMAIN tx.inputs : tx.inputs[i] \in DOMAIN u
        /\ CheckedSum(vout) # Overflow /\ CheckedSum(vin) # Overflow
        /\ CheckedSum(vout) <= CheckedSum(vin)
    <3> DEFINE good == /\ Cardinality(I) = n
                       /\ \A i \in DOMAIN tx.inputs : tx.inputs[i] \in DOMAIN u
                       /\ tx.signed
                       /\ CheckedSum(vout) # Overflow /\ CheckedSum(vin) # Overflow
                       /\ CheckedSum(vout) <= CheckedSum(vin)
               burns == \E i \in DOMAIN tx.outputs : tx.outputs[i].burn
    <3>1. ValidateTx(u, tx) = IF burns THEN -1 ELSE IF good THEN CheckedSum(vin) - CheckedSum(vout) ELSE -1
      BY <1>3, Zenon DEF ValidateTx
    <3> HIDE DEF good, burns
    <3>2. good
      BY <3>1
    <3> QED
      BY <3>2, Zenon DEF good
  <2>2. I \subseteq DOMAIN u
    BY <2>1 DEF Range
  <2>3. I = {tx.inputs[i] : i \in 1 .. n}
    BY <1>1 DEF Range
  <2>4. \A i, j \in 1 .. n : i # j => tx.inputs[i] # tx.inputs[j]
    BY <1>1, <2>1, AllDistinct
  <2>5. \A o \in DOMAIN u : Amounts(u)[o] = u[o].value /\ u[o].value \in Nat
    BY ValueIs
  <2>6. \A i \in 1 .. n : vin[i] \in Nat /\ Amounts(u)[tx.inputs[i]] = vin[i]
    BY <1>1, <2>1, <2>5
  <2>7. vin \in Seq(Nat) /\ Len(vin) = n
    <3>1. DOMAIN vin = 1 .. n /\ vin = [i \in 1 .. n |-> vin[i]]
      BY <1>1
    <3> HIDE DEF vin
    <3>2. vin \in [1 .. n -> Nat]
      BY <2>6, <3>1
    <3> QED
      BY <1>1, <3>2
  <2>8. ValueOf(NewOutputs(tx)) = Sum(vout, 1 .. Len(vout)) /\ vout \in Seq(Nat)
    BY NewOutputsAre
  <2> HIDE DEF I, n, vin, vout
  <2>9. Sum(vin, 1 .. n) = Sum(Amounts(u), I)
    <3>1. Along(n, tx.inputs, vin, Amounts(u))
      BY <2>4, <2>6, Zenon DEF Along
    <3>2. Sum(vin, 1 .. n) = Sum(Amounts(u), {tx.inputs[i] : i \in 1 .. n})
      BY <1>1, <3>1, SumAlong, Zenon
    <3> QED
      BY <2>3, <3>2, Zenon
  <2>10. CheckedSum(vin) = Sum(vin, 1 .. n) /\ CheckedSum(vout) = Sum(vout, 1 .. Len(vout))
    BY <2>1, <2>7, <2>8, CheckedSumIs
  <2>11. ValueOf(NewOutputs(tx)) <= Sum(Amounts(u), I)
    BY <2>1, <2>8, <2>9, <2>10
  <2> QED
    BY <1>3, <2>2, <2>11 DEF I
<1> QED
  BY <1>2, <1>3

LEMMA AppliedIs ==
  ASSUME NEW u, IsLedger(u), NEW tx, Payment(tx)
  PROVE  LET a == ApplyTx(u, tx)
         IN /\ IsLedger(a) /\ DOMAIN a = Created(tx) \union (DOMAIN u \ Range(tx.inputs))
            /\ \A o \in Created(tx) : a[o] = NewOutputs(tx)[o]
            /\ \A o \in DOMAIN u \ Range(tx.inputs) : o \notin Created(tx) => a[o] = u[o]
<1> DEFINE a == ApplyTx(u, tx)
           c == NewOutputs(tx)
           S == DOMAIN u \ Range(tx.inputs)
           r == Restrict(u, S)
<1>1. a = Over(c, r)
  BY Zenon DEF ApplyTx, NewOutputs
<1>2. IsLedger(c) /\ DOMAIN c = Created(tx)
  BY NewOutputsAre
<1>3. IsLedger(r) /\ DOMAIN r = S /\ \A o \in S : r[o] = u[o]
  BY RestrictLedger
<1> HIDE DEF c, r
<1>4. IsLedger(Over(c, r))
  BY <1>2, <1>3, OverLedgers
<1>5. /\ DOMAIN Over(c, r) = DOMAIN c \union DOMAIN r
      /\ \A x \in DOMAIN c : Over(c, r)[x] = c[x]
      /\ \A x \in DOMAIN r : x \notin DOMAIN c => Over(c, r)[x] = r[x]
  BY DEF Over
<1> HIDE DEF a
<1>6. IsLedger(a) /\ DOMAIN a = Created(tx) \union S
  BY <1>1, <1>2, <1>3, <1>4, <1>5
<1>7. \A o \in Created(tx) : a[o] = c[o]
  BY <1>1, <1>2, <1>5
<1>8. \A o \in S : o \notin Created(tx) => a[o] = u[o]
  BY <1>1, <1>2, <1>3, <1>5
<1> QED
  BY <1>6, <1>7, <1>8 DEF a, c

MintedBy(tx) == IF IsCoinbase(tx) THEN ValueOf(ApplyTx(Nothing, tx)) ELSE 0

(* A valid transaction makes no value but what a coinbase mints. *)
LEMMA ApplyConserves ==
  ASSUME NEW u, IsLedger(u), NEW tx, Payment(tx), ~(ValidateTx(u, tx) < 0), Created(tx) \intersect DOMAIN u = {}
  PROVE  MintedBy(tx) \in Nat /\ ValueOf(ApplyTx(u, tx)) <= ValueOf(u) + MintedBy(tx)
<1> DEFINE a == ApplyTx(u, tx)
           c == NewOutputs(tx)
           C == Created(tx)
           I == Range(tx.inputs)
           R == DOMAIN u \ I
<1>1. IsLedger(a) /\ DOMAIN a = C \union R /\ (\A o \in C : a[o] = c[o]) /\ \A o \in R : o \notin C => a[o] = u[o]
  BY AppliedIs
<1>2. IsLedger(c) /\ DOMAIN c = C
  BY NewOutputsAre
<1>3. I \subseteq DOMAIN u /\ (~IsCoinbase(tx) => ValueOf(c) <= Sum(Amounts(u), I)) /\ (IsCoinbase(tx) => I = {})
  BY ValidPays
<1>4. MintedBy(tx) = IF IsCoinbase(tx) THEN ValueOf(c) ELSE 0
  <2>1. DOMAIN Nothing = {} /\ Nothing = [o \in {} |-> Nothing[o]]
    BY DEF Nothing
  <2>2. ApplyTx(Nothing, tx) = Over(c, Restrict(Nothing, DOMAIN Nothing \ I))
    BY Zenon DEF ApplyTx, NewOutputs
  <2>3. DOMAIN Restrict(Nothing, DOMAIN Nothing \ I) = {}
    BY <2>1 DEF Restrict
  <2>4. c = [o \in DOMAIN c |-> c[o]]
    BY DEF NewOutputs
  <2> HIDE DEF c
  <2>5. Over(c, Restrict(Nothing, DOMAIN Nothing \ I)) = c
    BY <2>3, <2>4 DEF Over
  <2> QED
    BY <2>2, <2>5 DEF MintedBy
<1> HIDE DEF a, c, C, I
<1>5. /\ ValueOf(a) = Sum(Amounts(a), DOMAIN a) /\ ValueOf(a) \in Nat
      /\ \A o \in DOMAIN a : Amounts(a)[o] = a[o].value /\ Amounts(a)[o] \in Nat
  BY <1>1, ValueIs
<1>6. /\ ValueOf(u) = Sum(Amounts(u), DOMAIN u) /\ ValueOf(u) \in Nat
      /\ \A o \in DOMAIN u : Amounts(u)[o] = u[o].value /\ Amounts(u)[o] \in Nat
  BY ValueIs
<1>7. /\ ValueOf(c) = Sum(Amounts(c), DOMAIN c) /\ ValueOf(c) \in Nat
      /\ \A o \in DOMAIN c : Amounts(c)[o] = c[o].value /\ Amounts(c)[o] \in Nat
  BY <1>2, ValueIs
<1>8. IsFiniteSet(DOMAIN a) /\ IsFiniteSet(DOMAIN u) /\ IsFiniteSet(C) /\ IsFiniteSet(R)
  <2>1. IsFiniteSet(DOMAIN a) /\ IsFiniteSet(DOMAIN u)
    BY <1>1 DEF IsLedger
  <2> QED
    BY <1>1, <2>1, FS_Subset
<1>9. DOMAIN a \ C = R /\ C \subseteq DOMAIN a
  BY <1>1 DEF C
<1>10. Sum(Amounts(a), DOMAIN a) = Sum(Amounts(a), R) + Sum(Amounts(a), C)
  <2> DEFINE w == Amounts(a)
             D == DOMAIN a
  <2>1. IsFiniteSet(D) /\ C \in SUBSET D /\ \A x \in D : w[x] \in Nat
    BY <1>5, <1>8, <1>9
  <2> HIDE DEF w, D
  <2>2. Sum(w, D) = Sum(w, D \ C) + Sum(w, C)
    BY <2>1, SumPart
  <2> QED
    BY <1>9, <2>2 DEF w, D
<1>11. Sum(Amounts(a), C) = Sum(Amounts(c), C)
  <2>1. \A o \in C : Amounts(c)[o] \in Nat /\ Amounts(a)[o] = Amounts(c)[o]
    BY <1>1, <1>2, <1>5, <1>7, <1>9
  <2> QED
    BY <1>8, <2>1, SumSame
<1>12. Sum(Amounts(a), R) = Sum(Amounts(u), R)
  <2>1. \A o \in R : Amounts(u)[o] \in Nat /\ Amounts(a)[o] = Amounts(u)[o]
    BY <1>1, <1>5, <1>6, <1>9
  <2> QED
    BY <1>8, <2>1, SumSame
<1>13. /\ Sum(Amounts(u), R) \in Nat /\ Sum(Amounts(u), I) \in Nat
       /\ Sum(Amounts(u), DOMAIN u) = Sum(Amounts(u), R) + Sum(Amounts(u), I)
  BY <1>3, <1>6, <1>8, SumPart
<1>14. ValueOf(a) = Sum(Amounts(u), R) + ValueOf(c)
  BY <1>2, <1>5, <1>7, <1>10, <1>11, <1>12
<1>15. CASE IsCoinbase(tx)
  <2>1. MintedBy(tx) = ValueOf(c)
    BY <1>4, <1>15
  <2>2. ValueOf(a) <= ValueOf(u) + MintedBy(tx)
    BY <1>6, <1>7, <1>13, <1>14, <2>1
  <2> QED
    BY <1>7, <2>1, <2>2 DEF a
<1>16. CASE ~IsCoinbase(tx)
  <2>1. MintedBy(tx) = 0
    BY <1>4, <1>16
  <2>2. ValueOf(a) <= ValueOf(u) + MintedBy(tx)
    BY <1>3, <1>6, <1>7, <1>13, <1>14, <1>16, <2>1
  <2> QED
    BY <2>1, <2>2 DEF a
<1> QED
  BY <1>15, <1>16

(* revert_tx takes back what apply_tx did, with the outputs that were      *)
(* found under the inputs.                                                 *)
LEMMA RevertUndoes ==
  ASSUME NEW u, IsLedger(u), NEW tx, Payment(tx), Created(tx) \intersect DOMAIN u = {},
         Range(tx.inputs) \subseteq DOMAIN u, NEW spent, \A o \in Range(tx.inputs) : spent[o] = u[o]
  PROVE  RevertTx([ok |-> TRUE, u |-> ApplyTx(u, tx)], tx, spent) = [ok |-> TRUE, u |-> u]
<1> DEFINE a == ApplyTx(u, tx)
           C == Created(tx)
           I == Range(tx.inputs)
           rest == Restrict(a, DOMAIN a \ C)
           back == Over(Restrict(spent, I), rest)
           s == [ok |-> TRUE, u |-> a]
<1>1. DOMAIN a = C \union (DOMAIN u \ I) /\ \A o \in DOMAIN u \ I : o \notin C => a[o] = u[o]
  BY AppliedIs
<1>2. s.ok = TRUE /\ s.u = a
  OBVIOUS
<1>3. Present(a, tx) = C
  BY <1>1 DEF Present
<1>4. RevertTx(s, tx, spent) = [ok |-> TRUE, u |-> back]
  <2> HIDE DEF a, s
  <2> QED
    BY <1>2, <1>3, Zenon DEF RevertTx
<1>5. u = [o \in DOMAIN u |-> u[o]]
  BY DEF IsLedger
<1> HIDE DEF a, C, I
<1>6. DOMAIN rest = DOMAIN u \ I /\ \A o \in DOMAIN u \ I : rest[o] = u[o]
  BY <1>1 DEF Restrict, C
<1>7. DOMAIN Restrict(spent, I) = I /\ \A o \in I : Restrict(spent, I)[o] = u[o]
  BY DEF Restrict, I
<1> HIDE DEF rest
<1>8. DOMAIN back = DOMAIN u
  BY <1>6, <1>7 DEF Over, I
<1>9. back = [o \in DOMAIN back |-> back[o]]
  BY DEF Over
<1>10. \A o \in DOMAIN u : back[o] = u[o]
  BY <1>6, <1>7, <1>8 DEF Over
<1>11. back = u
  <2> HIDE DEF back
  <2> QED
    BY <1>5, <1>8, <1>9, <1>10
<1> QED
  BY <1>4, <1>11 DEF a

(* The state of a run over the transactions of a block *)
RunTyped(s, T) ==
  /\ s = [ok |-> s.ok, u |-> s.u, spent |-> s.spent, done |-> s.done] /\ s.ok \in BOOLEAN
  /\ IsLedger(s.u) /\ IsLedger(s.spent) /\ s.done \in Seq(T)
  /\ \A j \in 1 .. Len(s.done) : Range(s.done[j].inputs) \subseteq DOMAIN s.spent
SpentWith(s, tx) == Over(Restrict(s.u, Range(tx.inputs) \intersect DOMAIN s.u), s.spent)

(* One turn: a run that was stopped stays; else it stops, or goes on with  *)
(* what apply_tx made.                                                     *)
Turned(s, tx, n) ==
  /\ ~s.ok => n = s
  /\ s.ok /\ ValidateTx(s.u, tx) < 0 => n = [ok |-> FALSE, u |-> s.u, spent |-> SpentWith(s, tx), done |-> s.done]
  /\ s.ok /\ ~(ValidateTx(s.u, tx) < 0) =>
       n = [ok |-> TRUE, u |-> ApplyTx(s.u, tx), spent |-> SpentWith(s, tx), done |-> Append(s.done, tx)]

LEMMA NextIs ==
  ASSUME NEW T, \A x \in T : Payment(x), NEW s, RunTyped(s, T), NEW tx \in T
  PROVE  RunTyped(ApplyNext(s, tx), T) /\ Turned(s, tx, ApplyNext(s, tx))
<1> DEFINE n == ApplyNext(s, tx)
           p == SpentWith(s, tx)
           S == Range(tx.inputs) \intersect DOMAIN s.u
           r == Restrict(s.u, S)
<1>1. /\ s = [ok |-> s.ok, u |-> s.u, spent |-> s.spent, done |-> s.done] /\ s.ok \in BOOLEAN
      /\ IsLedger(s.u) /\ IsLedger(s.spent) /\ s.done \in Seq(T)
      /\ \A j \in 1 .. Len(s.done) : Range(s.done[j].inputs) \subseteq DOMAIN s.spent
  BY DEF RunTyped
<1>2. IsLedger(r) /\ DOMAIN r = S
  BY <1>1, RestrictLedger
<1>3. p = Over(r, s.spent)
  BY Zenon DEF SpentWith
<1> HIDE DEF r, p
<1>4. IsLedger(p) /\ DOMAIN p = S \union DOMAIN s.spent
  <2>1. IsLedger(Over(r, s.spent))
    BY <1>1, <1>2, OverLedgers
  <2>2. DOMAIN Over(r, s.spent) = S \union DOMAIN s.spent
    BY <1>2 DEF Over
  <2> QED
    BY <1>3, <2>1, <2>2
<1>5. n = IF ~s.ok THEN s
          ELSE IF ValidateTx(s.u, tx) < 0 THEN [ok |-> FALSE, u |-> s.u, spent |-> p, done |-> s.done]
          ELSE [ok |-> TRUE, u |-> ApplyTx(s.u, tx), spent |-> p, done |-> Append(s.done, tx)]
  BY Zenon DEF ApplyNext, p, SpentWith
<1>6. CASE ~s.ok
  <2>1. n = s
    BY <1>5, <1>6
  <2>2. RunTyped(n, T)
    BY <2>1, Zenon
  <2> HIDE DEF n
  <2>3. Turned(s, tx, n)
    BY <1>6, <2>1, Zenon DEF Turned
  <2> QED
    BY <2>2, <2>3 DEF n
<1>7. CASE s.ok /\ ValidateTx(s.u, tx) < 0
  <2> DEFINE m == [ok |-> FALSE, u |-> s.u, spent |-> p, done |-> s.done]
  <2>2. n = m
    BY <1>5, <1>7
  <2>3. m.ok = FALSE /\ m.u = s.u /\ m.spent = p /\ m.done = s.done
    OBVIOUS
  <2>4. \A j \in 1 .. Len(s.done) : Range(s.done[j].inputs) \subseteq DOMAIN p
    BY <1>1, <1>4
  <2>7. m = [ok |-> m.ok, u |-> m.u, spent |-> m.spent, done |-> m.done]
    OBVIOUS
  <2> HIDE DEF m
  <2>5. RunTyped(m, T)
    BY <1>1, <1>4, <2>3, <2>4, <2>7 DEF RunTyped
  <2>6. RunTyped(n, T)
    BY <2>2, <2>5, Zenon
  <2> HIDE DEF n
  <2>8. Turned(s, tx, n)
    BY <1>7, <2>2, Zenon DEF Turned, m, p
  <2> QED
    BY <2>6, <2>8 DEF n
<1>8. CASE s.ok /\ ~(ValidateTx(s.u, tx) < 0)
  <2> DEFINE m == [ok |-> TRUE, u |-> ApplyTx(s.u, tx), spent |-> p, done |-> Append(s.done, tx)]
             a == ApplyTx(s.u, tx)
             e == Append(s.done, tx)
  <2>1. n = m
    BY <1>5, <1>8
  <2>2. m.ok = TRUE /\ m.u = a /\ m.spent = p /\ m.done = e
    OBVIOUS
  <2>3. m = [ok |-> m.ok, u |-> m.u, spent |-> m.spent, done |-> m.done]
    OBVIOUS
  <2>4. Payment(tx)
    OBVIOUS
  <2>5. IsLedger(a)
    BY <1>1, <2>4, AppliedIs
  <2>6. Range(tx.inputs) \subseteq DOMAIN s.u
    BY <1>1, <1>8, <2>4, ValidPays
  <2>7. e \in Seq(T) /\ Len(e) = Len(s.done) + 1 /\ Len(s.done) \in Nat /\ e[Len(s.done) + 1] = tx
        /\ \A j \in 1 .. Len(s.done) : e[j] = s.done[j]
    BY <1>1
  <2> HIDE DEF m, a, e
  <2>8. \A j \in 1 .. Len(e) : Range(e[j].inputs) \subseteq DOMAIN p
    <3> SUFFICES ASSUME NEW j \in 1 .. Len(e) PROVE Range(e[j].inputs) \subseteq DOMAIN p
      OBVIOUS
    <3>1. CASE j = Len(s.done) + 1
      BY <1>4, <2>6, <2>7, <3>1
    <3>2. CASE j \in 1 .. Len(s.done)
      BY <1>1, <1>4, <2>7, <3>2
    <3> QED
      BY <2>7, <3>1, <3>2
  <2>9. RunTyped(m, T)
    BY <1>4, <2>2, <2>3, <2>5, <2>7, <2>8 DEF RunTyped
  <2>10. RunTyped(n, T)
    BY <2>1, <2>9, Zenon
  <2> HIDE DEF n
  <2>11. Turned(s, tx, n)
    BY <1>8, <2>1, Zenon DEF Turned, m, p
  <2> QED
    BY <2>10, <2>11 DEF n
<1> QED
  BY <1>1, <1>6, <1>7, <1>8

(* However far a roll back gets, it leaves a ledger. *)
LEMMA RevertStays ==
  ASSUME NEW r, r = [ok |-> r.ok, u |-> r.u], r.ok \in BOOLEAN, IsLedger(r.u), NEW tx, NEW spent, IsLedger(spent),
         Range(tx.inputs) \subseteq DOMAIN spent
  PROVE  LET n == RevertTx(r, tx, spent)
         IN n = [ok |-> n.ok, u |-> n.u] /\ n.ok \in BOOLEAN /\ IsLedger(n.u)
<1> DEFINE n == RevertTx(r, tx, spent)
           gone == Present(r.u, tx)
           rest == Restrict(r.u, DOMAIN r.u \ gone)
           back == Over(Restrict(spent, Range(tx.inputs)), rest)
<1>1. n = IF ~r.ok THEN r ELSE IF gone # Created(tx) THEN [ok |-> FALSE, u |-> rest] ELSE [ok |-> TRUE, u |-> back]
  BY Zenon DEF RevertTx
<1>2. IsLedger(rest)
  BY RestrictLedger
<1>3. IsLedger(Restrict(spent, Range(tx.inputs)))
  BY RestrictLedger
<1>4. IsLedger(back)
  BY <1>2, <1>3, OverLedgers
<1> HIDE DEF rest, back, gone, n
<1>5. CASE ~r.ok
  <2>1. n = r
    BY <1>1, <1>5
  <2>2. n.ok \in BOOLEAN /\ IsLedger(n.u)
    BY <2>1
  <2>3. n = [ok |-> n.ok, u |-> n.u]
    BY <2>1
  <2> QED
    BY <2>2, <2>3 DEF n
<1>6. CASE r.ok /\ gone # Created(tx)
  <2>1. n = [ok |-> FALSE, u |-> rest]
    BY <1>1, <1>6
  <2>2. n.ok = FALSE /\ n.u = rest
    BY <2>1
  <2>3. n = [ok |-> n.ok, u |-> n.u]
    BY <2>1
  <2>4. n.ok \in BOOLEAN /\ IsLedger(n.u)
    BY <1>2, <2>2
  <2> QED
    BY <2>3, <2>4 DEF n
<1>7. CASE r.ok /\ gone = Created(tx)
  <2>1. n = [ok |-> TRUE, u |-> back]
    BY <1>1, <1>7
  <2>2. n.ok = TRUE /\ n.u = back
    BY <2>1
  <2>3. n = [ok |-> n.ok, u |-> n.u]
    BY <2>1
  <2>4. n.ok \in BOOLEAN /\ IsLedger(n.u)
    BY <1>4, <2>2
  <2> QED
    BY <2>3, <2>4 DEF n
<1> QED
  BY <1>5, <1>6, <1>7 DEF n

(* The outputs kept for a roll back: those an input found, over those kept *)
(* before.                                                                 *)
LEMMA SpentWithIs ==
  ASSUME NEW s, NEW tx
  PROVE  LET p == SpentWith(s, tx)
         IN /\ DOMAIN p = (Range(tx.inputs) \intersect DOMAIN s.u) \union DOMAIN s.spent
            /\ \A o \in Range(tx.inputs) \intersect DOMAIN s.u : p[o] = s.u[o]
            /\ \A o \in DOMAIN s.spent : o \notin DOMAIN s.u => p[o] = s.spent[o]
<1> DEFINE S == Range(tx.inputs) \intersect DOMAIN s.u
           r == Restrict(s.u, S)
           p == SpentWith(s, tx)
<1>1. DOMAIN r = S /\ \A o \in S : r[o] = s.u[o]
  BY DEF Restrict
<1>2. p = Over(r, s.spent)
  BY Zenon DEF SpentWith
<1> HIDE DEF r
<1>3. p = [x \in DOMAIN r \union DOMAIN s.spent |-> IF x \in DOMAIN r THEN r[x] ELSE s.spent[x]]
  BY <1>2 DEF Over
<1> HIDE DEF p
<1>4. DOMAIN p = S \union DOMAIN s.spent
  BY <1>1, <1>3
<1>5. \A o \in S : p[o] = s.u[o]
  BY <1>1, <1>3
<1>6. \A o \in DOMAIN s.spent : o \notin DOMAIN s.u => p[o] = s.spent[o]
  BY <1>1, <1>3
<1> QED
  BY <1>4, <1>5, <1>6 DEF p

(* A run of apply_block over the transactions of a block *)
IsBlock(b) == b \in Seq(Range(b)) /\ \A tx \in Range(b) : Payment(tx)
RunStart(u) == [ok |-> TRUE, u |-> u, spent |-> Nothing, done |-> <<>>]
IsRun(f, u, b) == f[0] = RunStart(u) /\ \A i \in 1 .. Len(b) : f[i] = ApplyNext(f[i - 1], b[i])

LEMMA BlockIs ==
  ASSUME NEW b, IsBlock(b)
  PROVE  /\ Len(b) \in Nat /\ DOMAIN b = 1 .. Len(b) /\ b = [i \in DOMAIN b |-> b[i]]
         /\ \A i \in 1 .. Len(b) : b[i] \in Range(b) /\ Payment(b[i])
<1>1. b \in Seq(Range(b)) /\ \A tx \in Range(b) : Payment(tx)
  BY DEF IsBlock
<1> DEFINE R == Range(b)
<1> HIDE DEF R
<1>2. b \in Seq(R)
  BY <1>1 DEF R
<1>3. Len(b) \in Nat /\ DOMAIN b = 1 .. Len(b) /\ b = [i \in DOMAIN b |-> b[i]] /\ \A i \in 1 .. Len(b) : b[i] \in R
  BY <1>2
<1> QED
  BY <1>1, <1>3 DEF R

LEMMA RunsTyped ==
  ASSUME NEW b, IsBlock(b), NEW u, IsLedger(u), NEW f, IsRun(f, u, b)
  PROVE  \A i \in 0 .. Len(b) : RunTyped(f[i], Range(b))
<1> DEFINE T == Range(b)
           n == Len(b)
           G == {i \in 0 .. n : RunTyped(f[i], T)}
           z == RunStart(u)
<1>1. n \in Nat /\ \A i \in 1 .. n : b[i] \in T
  BY BlockIs
<1>2. \A x \in T : Payment(x)
  BY DEF IsBlock
<1>3. f[0] = z /\ \A i \in 1 .. n : f[i] = ApplyNext(f[i - 1], b[i])
  BY DEF IsRun
<1>4. IsLedger(Nothing)
  <2>1. DOMAIN Nothing = {} /\ Nothing = [o \in DOMAIN Nothing |-> Nothing[o]]
    BY DEF Nothing
  <2> QED
    BY <2>1, FS_EmptySet DEF IsLedger
<1>5. z.ok = TRUE /\ z.u = u /\ z.spent = Nothing /\ z.done = <<>>
  BY DEF RunStart
<1>6. z = [ok |-> z.ok, u |-> z.u, spent |-> z.spent, done |-> z.done]
  BY DEF RunStart
<1> HIDE DEF z, T, n
<1>7. RunTyped(z, T)
  <2>1. <<>> \in Seq(T) /\ Len(<<>>) = 0
    OBVIOUS
  <2>2. \A j \in 1 .. Len(z.done) : Range(z.done[j].inputs) \subseteq DOMAIN z.spent
    BY <1>5, <2>1
  <2> QED
    BY <1>4, <1>5, <1>6, <2>1, <2>2 DEF RunTyped
<1>8. 0 \in G
  BY <1>1, <1>3, <1>7
<1>9. ASSUME NEW i \in 0 .. n - 1, i \in G PROVE i + 1 \in G
  <2>1. i + 1 \in 1 .. n /\ (i + 1) - 1 = i /\ i + 1 \in 0 .. n
    BY <1>1
  <2>2. f[i + 1] = ApplyNext(f[i], b[i + 1]) /\ b[i + 1] \in T
    BY <1>1, <1>3, <2>1
  <2>3. RunTyped(f[i], T)
    BY <1>9
  <2>4. RunTyped(ApplyNext(f[i], b[i + 1]), T)
    BY <1>2, <2>2, <2>3, NextIs
  <2> QED
    BY <2>1, <2>2, <2>4
<1>10. \A i \in 0 .. n : i \in G
  <2> HIDE DEF G
  <2> QED
    BY <1>1, <1>8, <1>9, UpTo
<1> QED
  BY <1>10 DEF T, n

LEMMA EachTurn ==
  ASSUME NEW b, IsBlock(b), NEW u, IsLedger(u), NEW f, IsRun(f, u, b), NEW i \in 0 .. Len(b) - 1
  PROVE  Turned(f[i], b[i + 1], f[i + 1]) /\ f[i].ok \in BOOLEAN
<1>1. Len(b) \in Nat /\ \A j \in 1 .. Len(b) : b[j] \in Range(b)
  BY BlockIs
<1>2. i \in 0 .. Len(b) /\ i + 1 \in 1 .. Len(b) /\ (i + 1) - 1 = i
  BY <1>1
<1>3. \A x \in Range(b) : Payment(x)
  BY DEF IsBlock
<1>4. RunTyped(f[i], Range(b))
  BY <1>2, RunsTyped
<1>5. f[i + 1] = ApplyNext(f[i], b[i + 1])
  BY <1>2 DEF IsRun
<1>6. b[i + 1] \in Range(b)
  BY <1>1, <1>2
<1>7. Turned(f[i], b[i + 1], ApplyNext(f[i], b[i + 1]))
  BY <1>3, <1>4, <1>6, NextIs, Zenon
<1>8. f[i].ok \in BOOLEAN
  BY <1>4 DEF RunTyped
<1> QED
  BY <1>5, <1>7, <1>8, Zenon

(* What the flag says of a turn *)
LEMMA TurnTells ==
  ASSUME NEW s, s.ok \in BOOLEAN, NEW tx, NEW n, Turned(s, tx, n)
  PROVE  /\ ~s.ok => n = s
         /\ s.ok /\ ~n.ok => n = [ok |-> FALSE, u |-> s.u, spent |-> SpentWith(s, tx), done |-> s.done]
         /\ n.ok => /\ s.ok /\ ~(ValidateTx(s.u, tx) < 0)
                    /\ n.u = ApplyTx(s.u, tx) /\ n.spent = SpentWith(s, tx) /\ n.done = Append(s.done, tx)
<1> DEFINE p == SpentWith(s, tx)
<1>1. /\ ~s.ok => n = s
      /\ s.ok /\ ValidateTx(s.u, tx) < 0 => n = [ok |-> FALSE, u |-> s.u, spent |-> p, done |-> s.done]
      /\ s.ok /\ ~(ValidateTx(s.u, tx) < 0) =>
           n = [ok |-> TRUE, u |-> ApplyTx(s.u, tx), spent |-> p, done |-> Append(s.done, tx)]
  BY Zenon DEF Turned
<1> HIDE DEF p
<1>2. CASE ~s.ok
  BY <1>1, <1>2 DEF p
<1>3. CASE s.ok /\ ValidateTx(s.u, tx) < 0
  <2>1. n = [ok |-> FALSE, u |-> s.u, spent |-> p, done |-> s.done]
    BY <1>1, <1>3
  <2>2. ~n.ok
    BY <2>1
  <2> QED
    BY <1>3, <2>1, <2>2 DEF p
<1>4. CASE s.ok /\ ~(ValidateTx(s.u, tx) < 0)
  <2>1. n = [ok |-> TRUE, u |-> ApplyTx(s.u, tx), spent |-> p, done |-> Append(s.done, tx)]
    BY <1>1, <1>4
  <2>2. n.ok /\ n.u = ApplyTx(s.u, tx) /\ n.spent = p /\ n.done = Append(s.done, tx)
    BY <2>1
  <2> QED
    BY <1>4, <2>2 DEF p
<1> QED
  BY <1>2, <1>3, <1>4

(* A run that stops leaves what the transactions before made. *)
LEMMA Stopped ==
  ASSUME NEW b, IsBlock(b), NEW u, IsLedger(u), NEW f, IsRun(f, u, b)
  PROVE  \A i \in 0 .. Len(b) : ~f[i].ok => \E k \in 0 .. Len(b) - 1 :
            f[k].ok /\ f[i] = [ok |-> FALSE, u |-> f[k].u, spent |-> SpentWith(f[k], b[k + 1]), done |-> f[k].done]
<1> DEFINE n == Len(b)
           End(k) == [ok |-> FALSE, u |-> f[k].u, spent |-> SpentWith(f[k], b[k + 1]), done |-> f[k].done]
           G == {i \in 0 .. n : ~f[i].ok => \E k \in 0 .. n - 1 : f[k].ok /\ f[i] = End(k)}
<1>1. n \in Nat
  BY BlockIs
<1>2. 0 \in G
  <2>1. f[0].ok
    BY DEF IsRun, RunStart
  <2> QED
    BY <1>1, <2>1
<1>3. ASSUME NEW i \in 0 .. n - 1, i \in G PROVE i + 1 \in G
  <2>5. Turned(f[i], b[i + 1], f[i + 1]) /\ f[i].ok \in BOOLEAN
    BY EachTurn
  <2>1. /\ ~f[i].ok => f[i + 1] = f[i]
        /\ f[i].ok /\ ~f[i + 1].ok => f[i + 1] = End(i)
    <3> DEFINE s == f[i]
               t == f[i + 1]
               tx == b[i + 1]
    <3>1. Turned(s, tx, t) /\ s.ok \in BOOLEAN
      BY <2>5
    <3> HIDE DEF s, t, tx
    <3>2. /\ ~s.ok => t = s
          /\ s.ok /\ ~t.ok => t = [ok |-> FALSE, u |-> s.u, spent |-> SpentWith(s, tx), done |-> s.done]
      BY <3>1, TurnTells
    <3> QED
      BY <3>2, Zenon DEF s, t, tx
  <2>2. i + 1 \in 0 .. n
    BY <1>1
  <2> HIDE DEF End
  <2>3. CASE ~f[i].ok
    BY <1>3, <2>1, <2>2, <2>3
  <2>4. CASE f[i].ok
    BY <2>1, <2>2, <2>4
  <2> QED
    BY <2>3, <2>4
<1>4. \A i \in 0 .. n : i \in G
  <2> HIDE DEF G, n
  <2> QED
    BY <1>1, <1>2, <1>3, UpTo
<1> QED
  BY <1>4

(* Each transaction of the block creates outputs of its own that are not   *)
(* there yet; an output is known when it was there or one made it.         *)
NewOnly(u, b) ==
  \A j \in 1 .. Len(b) : /\ Created(b[j]) \intersect DOMAIN u = {}
                         /\ \A l \in 1 .. Len(b) : l # j => Created(b[j]) \intersect Created(b[l]) = {}
Known(u, b, i, o) == o \in DOMAIN u \/ \E l \in 1 .. i : o \in Created(b[l])
(* What a run that has not stopped has done in i turns: it applied the     *)
(* transactions in order, each to what the one before it left, and holds   *)
(* every spent output as its spender found it.                             *)
Applied(f, u, b, i) ==
  /\ Len(f[i].done) = i /\ \A j \in 1 .. i : f[i].done[j] = b[j]
  /\ \A o \in DOMAIN f[i].u : Known(u, b, i, o)
  /\ \A j \in 1 .. i : /\ f[j].u = ApplyTx(f[j - 1].u, b[j]) /\ Range(b[j].inputs) \subseteq DOMAIN f[j - 1].u
                       /\ Created(b[j]) \intersect DOMAIN f[j - 1].u = {}
  /\ \A j \in 1 .. i : \A o \in Range(b[j].inputs) :
        o \in DOMAIN f[i].spent /\ f[i].spent[o] = f[j - 1].u[o] /\ o \notin DOMAIN f[i].u /\ Known(u, b, i, o)

LEMMA OwnOutputs ==
  ASSUME NEW u, NEW b, Len(b) \in Nat, DOMAIN b = 1 .. Len(b), ~Recreates(u, b)
  PROVE  NewOnly(u, b)
<1>1. /\ \A i \in DOMAIN b : Created(b[i]) \intersect DOMAIN u = {}
      /\ \A i, j \in DOMAIN b : i # j => b[i].id # b[j].id
  BY DEF Recreates
<1>3. ASSUME NEW j \in 1 .. Len(b), NEW l \in 1 .. Len(b), l # j
      PROVE  Created(b[j]) \intersect Created(b[l]) = {}
  <2>1. b[j].id # b[l].id
    BY <1>1, <1>3
  <2>2. (\A o \in Created(b[j]) : o[1] = b[j].id) /\ (\A o \in Created(b[l]) : o[1] = b[l].id)
    BY DEF Created
  <2> QED
    BY <2>1, <2>2
<1> QED
  BY <1>1, <1>3 DEF NewOnly

LEMMA KnownIsOld ==
  ASSUME NEW u, NEW b, NewOnly(u, b), Len(b) \in Nat, NEW i \in 0 .. Len(b) - 1, NEW o, Known(u, b, i, o)
  PROVE  o \notin Created(b[i + 1]) /\ Known(u, b, i + 1, o)
<1>1. i + 1 \in 1 .. Len(b) /\ \A l \in 1 .. i : l \in 1 .. Len(b) /\ l # i + 1 /\ l \in 1 .. i + 1
  OBVIOUS
<1>2. o \notin Created(b[i + 1])
  BY <1>1 DEF Known, NewOnly
<1>3. Known(u, b, i + 1, o)
  BY <1>1 DEF Known
<1> QED
  BY <1>2, <1>3

LEMMA AppliedNext ==
  ASSUME NEW b, IsBlock(b), NEW u, IsLedger(u), NEW f, IsRun(f, u, b), NewOnly(u, b),
         NEW i \in 0 .. Len(b) - 1, f[i + 1].ok, Applied(f, u, b, i)
  PROVE  Applied(f, u, b, i + 1)
<1> DEFINE s == f[i]
           n == f[i + 1]
           tx == b[i + 1]
           I == Range(tx.inputs)
           C == Created(tx)
<1>1. Len(b) \in Nat /\ i \in Nat /\ i + 1 \in 1 .. Len(b) /\ (i + 1) - 1 = i
  BY BlockIs
<1>2. /\ s.ok /\ ~(ValidateTx(s.u, tx) < 0)
      /\ n.u = ApplyTx(s.u, tx) /\ n.spent = SpentWith(s, tx) /\ n.done = Append(s.done, tx)
  <2>1. Turned(s, tx, n) /\ s.ok \in BOOLEAN
    BY EachTurn
  <2> HIDE DEF s, n, tx
  <2> QED
    BY <2>1, TurnTells DEF n
<1>3. RunTyped(s, Range(b)) /\ Payment(tx)
  <2>1. i \in 0 .. Len(b)
    BY <1>1
  <2> QED
    BY <1>1, <2>1, BlockIs, RunsTyped
<1>4. IsLedger(s.u) /\ s.done \in Seq(Range(b))
  BY <1>3 DEF RunTyped
<1>5. I \subseteq DOMAIN s.u
  BY <1>2, <1>3, <1>4, ValidPays
<1>6. DOMAIN n.u = C \union (DOMAIN s.u \ I)
  <2>1. DOMAIN ApplyTx(s.u, tx) = C \union (DOMAIN s.u \ I)
    BY <1>3, <1>4, AppliedIs
  <2> QED
    BY <1>2, <2>1, Zenon
<1>7. \A o : Known(u, b, i, o) => o \notin C /\ Known(u, b, i + 1, o)
  BY <1>1, KnownIsOld
<1>8. /\ (\A o \in I \intersect DOMAIN s.u : n.spent[o] = s.u[o])
      /\ (\A o \in DOMAIN s.spent : o \notin DOMAIN s.u => n.spent[o] = s.spent[o])
      /\ DOMAIN n.spent = (I \intersect DOMAIN s.u) \union DOMAIN s.spent
  <2>1. n.spent = SpentWith(s, tx)
    BY <1>2
  <2> HIDE DEF s, n, tx
  <2> DEFINE p == SpentWith(s, tx)
  <2>2. /\ DOMAIN p = (Range(tx.inputs) \intersect DOMAIN s.u) \union DOMAIN s.spent
        /\ \A o \in Range(tx.inputs) \intersect DOMAIN s.u : p[o] = s.u[o]
        /\ \A o \in DOMAIN s.spent : o \notin DOMAIN s.u => p[o] = s.spent[o]
    BY SpentWithIs
  <2> QED
    BY <2>1, <2>2, Zenon
<1>9. \A o \in C : Known(u, b, i + 1, o)
  <2>1. i + 1 \in 1 .. i + 1
    BY <1>1
  <2> QED
    BY <2>1 DEF Known
<1>10. /\ Len(s.done) = i /\ \A j \in 1 .. i : s.done[j] = b[j]
       /\ \A o \in DOMAIN s.u : Known(u, b, i, o)
  BY DEF Applied
<1>11. /\ \A j \in 1 .. i : /\ f[j].u = ApplyTx(f[j - 1].u, b[j]) /\ Range(b[j].inputs) \subseteq DOMAIN f[j - 1].u
                            /\ Created(b[j]) \intersect DOMAIN f[j - 1].u = {}
       /\ \A j \in 1 .. i : \A o \in Range(b[j].inputs) :
             o \in DOMAIN s.spent /\ s.spent[o] = f[j - 1].u[o] /\ o \notin DOMAIN s.u /\ Known(u, b, i, o)
  BY DEF Applied
<1>12. C \intersect DOMAIN s.u = {}
  BY <1>7, <1>10
<1>13. \A j \in 1 .. i + 1 : j = i + 1 \/ j \in 1 .. i
  BY <1>1
<1>14. Len(n.done) = i + 1 /\ \A j \in 1 .. i + 1 : n.done[j] = b[j]
  <2> HIDE DEF s, n
  <2>1. Len(Append(s.done, tx)) = i + 1 /\ Append(s.done, tx)[i + 1] = tx
        /\ \A j \in 1 .. i : Append(s.done, tx)[j] = s.done[j]
    BY <1>1, <1>4, <1>10
  <2> QED
    BY <1>2, <1>10, <1>13, <2>1
<1>15. \A o \in DOMAIN n.u : Known(u, b, i + 1, o)
  BY <1>6, <1>7, <1>9, <1>10
<1>16. \A j \in 1 .. i + 1 : /\ f[j].u = ApplyTx(f[j - 1].u, b[j]) /\ Range(b[j].inputs) \subseteq DOMAIN f[j - 1].u
                             /\ Created(b[j]) \intersect DOMAIN f[j - 1].u = {}
  <2> SUFFICES ASSUME NEW j \in 1 .. i + 1
               PROVE  /\ f[j].u = ApplyTx(f[j - 1].u, b[j]) /\ Range(b[j].inputs) \subseteq DOMAIN f[j - 1].u
                      /\ Created(b[j]) \intersect DOMAIN f[j - 1].u = {}
    OBVIOUS
  <2>1. CASE j \in 1 .. i
    BY <1>11, <2>1
  <2>2. CASE j = i + 1
    <3>1. f[j] = n /\ f[j - 1] = s /\ b[j] = tx
      BY <1>1, <2>2
    <3> HIDE DEF n, s, tx, C, I
    <3> QED
      BY <1>2, <1>5, <1>12, <3>1, Zenon DEF C, I
  <2> QED
    BY <1>13, <2>1, <2>2
<1>17. \A j \in 1 .. i + 1 : \A o \in Range(b[j].inputs) :
          o \in DOMAIN n.spent /\ n.spent[o] = f[j - 1].u[o] /\ o \notin DOMAIN n.u /\ Known(u, b, i + 1, o)
  <2> SUFFICES ASSUME NEW j \in 1 .. i + 1, NEW o \in Range(b[j].inputs)
               PROVE  o \in DOMAIN n.spent /\ n.spent[o] = f[j - 1].u[o] /\ o \notin DOMAIN n.u /\ Known(u, b, i + 1, o)
    OBVIOUS
  <2>1. CASE j \in 1 .. i
    <3>1. o \in DOMAIN s.spent /\ s.spent[o] = f[j - 1].u[o] /\ o \notin DOMAIN s.u /\ Known(u, b, i, o)
      BY <1>11, <2>1
    <3> HIDE DEF n, s, I, C
    <3> QED
      BY <1>6, <1>7, <1>8, <3>1
  <2>2. CASE j = i + 1
    <3>1. f[j - 1] = s /\ o \in I
      BY <1>1, <2>2
    <3> HIDE DEF n, s, I, C
    <3>2. o \in DOMAIN s.u /\ Known(u, b, i, o)
      BY <1>5, <1>10, <3>1
    <3> QED
      BY <1>6, <1>7, <1>8, <3>1, <3>2
  <2> QED
    BY <1>13, <2>1, <2>2
<1> QED
  BY <1>14, <1>15, <1>16, <1>17 DEF Applied

LEMMA AppliedSoFar ==
  ASSUME NEW b, IsBlock(b), NEW u, IsLedger(u), NEW f, IsRun(f, u, b), NewOnly(u, b)
  PROVE  \A i \in 0 .. Len(b) : f[i].ok => Applied(f, u, b, i)
<1> DEFINE n == Len(b)
           G == {i \in 0 .. n : f[i].ok => Applied(f, u, b, i)}
<1>1. n \in Nat
  BY BlockIs
<1>2. Applied(f, u, b, 0)
  <2>1. f[0] = RunStart(u)
    BY DEF IsRun
  <2>2. f[0].u = u /\ f[0].done = <<>>
    BY <2>1 DEF RunStart
  <2>3. Len(f[0].done) = 0
    BY <2>2
  <2>4. \A o \in DOMAIN f[0].u : Known(u, b, 0, o)
    BY <2>2 DEF Known
  <2> QED
    BY <2>3, <2>4 DEF Applied
<1>3. 0 \in G
  BY <1>1, <1>2
<1>4. ASSUME NEW i \in 0 .. n - 1, i \in G PROVE i + 1 \in G
  <2>1. f[i + 1].ok => f[i].ok
    BY EachTurn, TurnTells
  <2>2. f[i + 1].ok => Applied(f, u, b, i + 1)
    BY <1>4, <2>1, AppliedNext
  <2>3. i + 1 \in 0 .. n
    BY <1>1
  <2> QED
    BY <2>2, <2>3
<1>5. \A i \in 0 .. n : i \in G
  <2> HIDE DEF G, n
  <2> QED
    BY <1>1, <1>3, <1>4, UpTo
<1> QED
  BY <1>5

(* The value a run that goes on holds is covered by what was there and     *)
(* what the coinbases among its transactions minted.                       *)
MintedIn(b) == [l \in DOMAIN b |-> MintedBy(b[l])]
LEMMA ValueSoFar ==
  ASSUME NEW b, IsBlock(b), NEW u, IsLedger(u), NEW f, IsRun(f, u, b), NewOnly(u, b)
  PROVE  \A i \in 0 .. Len(b) : f[i].ok =>
            (\A l \in 1 .. i : MintedIn(b)[l] \in Nat) /\ ValueOf(f[i].u) <= ValueOf(u) + Sum(MintedIn(b), 1 .. i)
<1> DEFINE n == Len(b)
           w == MintedIn(b)
           P(i) == (\A l \in 1 .. i : w[l] \in Nat) /\ ValueOf(f[i].u) <= ValueOf(u) + Sum(w, 1 .. i)
           G == {i \in 0 .. n : f[i].ok => P(i)}
<1>1. n \in Nat /\ DOMAIN b = 1 .. n
  BY BlockIs
<1>2. \A l \in 1 .. n : w[l] = MintedBy(b[l])
  BY <1>1 DEF MintedIn
<1> HIDE DEF n, w
<1>3. 0 \in G
  <2>1. f[0].u = u
    BY DEF IsRun, RunStart
  <2>2. Sum(w, {}) = 0
    BY FS_EmptySet, SumRemove
  <2>3. ValueOf(u) \in Nat
    BY ValueIs
  <2>4. 1 .. 0 = {}
    OBVIOUS
  <2>5. ValueOf(f[0].u) <= ValueOf(u) + Sum(w, 1 .. 0)
    BY <2>1, <2>2, <2>3, <2>4
  <2> QED
    BY <1>1, <2>4, <2>5
<1>4. ASSUME NEW i \in 0 .. n - 1, i \in G, f[i + 1].ok PROVE P(i + 1)
  <2> DEFINE s == f[i]
             tx == b[i + 1]
             t == f[i + 1]
  <2>1. i + 1 \in 1 .. n /\ i \in Nat /\ (i + 1) - 1 = i /\ i + 1 \in 0 .. n /\ i \in 0 .. n
    BY <1>1
  <2>2. Turned(s, tx, t) /\ s.ok \in BOOLEAN
    BY EachTurn DEF n
  <2>3. s.ok /\ ~(ValidateTx(s.u, tx) < 0) /\ t.u = ApplyTx(s.u, tx)
    <3> HIDE DEF s, tx, t
    <3> QED
      BY <1>4, <2>2, TurnTells DEF t
  <2>4. Applied(f, u, b, i + 1)
    BY <1>4, <2>1, AppliedSoFar DEF n
  <2>5. Created(tx) \intersect DOMAIN s.u = {}
    <3>1. i + 1 \in 1 .. i + 1
      BY <2>1
    <3>2. Created(b[i + 1]) \intersect DOMAIN f[(i + 1) - 1].u = {}
      BY <2>4, <3>1 DEF Applied
    <3> QED
      BY <2>1, <3>2
  <2>6. RunTyped(s, Range(b)) /\ Payment(tx)
    BY <2>1, BlockIs, RunsTyped DEF n
  <2>7. IsLedger(s.u)
    BY <2>6 DEF RunTyped
  <2>8. MintedBy(tx) \in Nat /\ ValueOf(ApplyTx(s.u, tx)) <= ValueOf(s.u) + MintedBy(tx)
    BY <2>3, <2>5, <2>6, <2>7, ApplyConserves
  <2>9. ValueOf(s.u) \in Nat /\ ValueOf(u) \in Nat
    BY <2>7, ValueIs
  <2>10. IsLedger(ApplyTx(s.u, tx))
    BY <2>6, <2>7, AppliedIs
  <2>11. ValueOf(ApplyTx(s.u, tx)) \in Nat
    BY <2>10, ValueIs
  <2>12. (\A l \in 1 .. i : w[l] \in Nat) /\ ValueOf(s.u) <= ValueOf(u) + Sum(w, 1 .. i)
    BY <1>4, <2>3
  <2>13. w[i + 1] = MintedBy(tx)
    BY <1>2, <2>1
  <2>14. \A l \in 1 .. i + 1 : w[l] \in Nat
    BY <2>1, <2>8, <2>12, <2>13
  <2>15. IsFiniteSet(1 .. i) /\ i + 1 \notin 1 .. i /\ 1 .. i + 1 = (1 .. i) \union {i + 1}
    <3>1. IsFiniteSet(1 .. i)
      BY <2>1, FS_Interval
    <3>2. i + 1 \notin 1 .. i /\ 1 .. i + 1 = (1 .. i) \union {i + 1}
      BY <2>1
    <3> QED
      BY <3>1, <3>2
  <2>16. Sum(w, 1 .. i) \in Nat
    BY <2>12, <2>15, SumRemove
  <2>17. Sum(w, 1 .. i + 1) = Sum(w, 1 .. i) + w[i + 1]
    <3>1. w[i + 1] \in Nat
      BY <2>8, <2>13
    <3>2. Sum(w, (1 .. i) \union {i + 1}) = Sum(w, 1 .. i) + w[i + 1]
      <4> DEFINE D == 1 .. i
                 y == i + 1
      <4>1. IsFiniteSet(D) /\ y \notin D /\ (\A l \in D : w[l] \in Nat) /\ w[y] \in Nat
        BY <2>12, <2>15, <3>1
      <4> HIDE DEF D, y
      <4>2. Sum(w, D \union {y}) = Sum(w, D) + w[y]
        BY <4>1, SumAdd
      <4> QED
        BY <4>2 DEF D, y
    <3> QED
      BY <2>15, <3>2
  <2>18. ValueOf(t.u) <= ValueOf(u) + Sum(w, 1 .. i + 1)
    <3> HIDE DEF s, t, tx
    <3> QED
      BY <2>3, <2>8, <2>9, <2>11, <2>12, <2>13, <2>16, <2>17
  <2> QED
    BY <2>14, <2>18
<1>5. ASSUME NEW i \in 0 .. n - 1, i \in G PROVE i + 1 \in G
  <2>1. i + 1 \in 0 .. n
    BY <1>1
  <2>2. f[i + 1].ok => P(i + 1)
    BY <1>4, <1>5
  <2> HIDE DEF P
  <2> QED
    BY <2>1, <2>2
<1>6. \A i \in 0 .. n : i \in G
  <2> HIDE DEF G
  <2> QED
    BY <1>1, <1>3, <1>5, UpTo
<1> QED
  BY <1>6 DEF n, w

(* The roll back, turn by turn, from the last transaction to the first *)
RollBack(g, v, done, spent) ==
  /\ g[0] = [ok |-> TRUE, u |-> v] /\ RevertAll(v, done, spent) = g[Len(done)].u
  /\ \A m \in 1 .. Len(done) : g[m] = RevertTx(g[m - 1], done[Len(done) - m + 1], spent)
LEMMA RevertAllIs ==
  ASSUME NEW v, NEW done, NEW T, done \in Seq(T), NEW spent
  PROVE  \E g : RollBack(g, v, done, spent)
<1> DEFINE q == Reverse(done)
           z == [ok |-> TRUE, u |-> v]
           k == Len(done)
<1>1. k \in Nat /\ DOMAIN q = 1 .. k /\ Len(q) = k /\ \A m \in 1 .. k : q[m] = done[k - m + 1]
  BY DEF Reverse
<1> HIDE DEF q, z, k
<1>2. FoldLeft(LAMBDA r, tx : RevertTx(r, tx, spent), z, q) = Reverting!Fold(spent, z, q)
  BY Zenon DEF FoldLeft, MapThenFoldSet, Max, Reverting!Fold, Reverting!IsIter, Reverting!Latest
<1>3. Len(q) \in Nat /\ DOMAIN q = 1 .. Len(q)
  BY <1>1
<1>4. PICK g : Reverting!IsTrace(spent, g, z, q) /\ Reverting!Fold(spent, z, q) = g[Len(q)]
  BY <1>3, Leasts, Reverting!FoldTrace, Zenon
<1>5. g[0] = z /\ \A m \in 1 .. Len(q) : g[m] = RevertTx(g[m - 1], q[m], spent)
  BY <1>3, <1>4, Reverting!TraceStep
<1>6. RevertAll(v, done, spent) = g[k].u
  <2>1. RevertAll(v, done, spent) = FoldLeft(LAMBDA r, tx : RevertTx(r, tx, spent), z, q).u
    BY Zenon DEF RevertAll, z, q
  <2> QED
    BY <1>1, <1>2, <1>4, <2>1, Zenon
<1>7. \A m \in 1 .. k : g[m] = RevertTx(g[m - 1], done[k - m + 1], spent)
  BY <1>1, <1>5
<1> QED
  BY <1>5, <1>6, <1>7 DEF z, k, RollBack

LEMMA RevertAllStays ==
  ASSUME NEW s, NEW T, RunTyped(s, T)
  PROVE  IsLedger(RevertAll(s.u, s.done, s.spent))
<1> DEFINE v == s.u
           done == s.done
           spent == s.spent
           k == Len(done)
<1>1. /\ IsLedger(v) /\ IsLedger(spent) /\ done \in Seq(T)
      /\ \A j \in 1 .. k : Range(done[j].inputs) \subseteq DOMAIN spent
  BY DEF RunTyped
<1>2. k \in Nat
  BY <1>1
<1> HIDE DEF v, done, spent
<1>3. PICK g : /\ g[0] = [ok |-> TRUE, u |-> v] /\ RevertAll(v, done, spent) = g[k].u
               /\ \A m \in 1 .. k : g[m] = RevertTx(g[m - 1], done[k - m + 1], spent)
  <2>1. \E g : RollBack(g, v, done, spent)
    BY <1>1, RevertAllIs, Zenon
  <2> QED
    BY <2>1, Zenon DEF RollBack
<1> HIDE DEF k
<1> DEFINE Fine(r) == r = [ok |-> r.ok, u |-> r.u] /\ r.ok \in BOOLEAN /\ IsLedger(r.u)
           G == {m \in 0 .. k : Fine(g[m])}
<1>4. 0 \in G
  <2>1. g[0].ok = TRUE /\ g[0].u = v
    BY <1>3
  <2>2. g[0] = [ok |-> g[0].ok, u |-> g[0].u]
    BY <1>3
  <2>3. Fine(g[0])
    BY <1>1, <2>1, <2>2
  <2>4. 0 \in 0 .. k
    BY <1>2
  <2> HIDE DEF Fine
  <2> QED
    BY <2>3, <2>4
<1>5. ASSUME NEW m \in 0 .. k - 1, m \in G PROVE m + 1 \in G
  <2> DEFINE tx == done[k - (m + 1) + 1]
             r == g[m]
  <2>1. m + 1 \in 1 .. k /\ (m + 1) - 1 = m /\ m + 1 \in 0 .. k /\ k - (m + 1) + 1 \in 1 .. k
    BY <1>2
  <2>2. g[m + 1] = RevertTx(r, tx, spent)
    BY <1>3, <2>1
  <2>3. Range(tx.inputs) \subseteq DOMAIN spent
    BY <1>1, <2>1
  <2>4. r = [ok |-> r.ok, u |-> r.u] /\ r.ok \in BOOLEAN /\ IsLedger(r.u)
    BY <1>5
  <2> HIDE DEF r, tx
  <2>5. Fine(RevertTx(r, tx, spent))
    BY <1>1, <2>3, <2>4, RevertStays
  <2> QED
    BY <2>1, <2>2, <2>5
<1>6. \A m \in 0 .. k : m \in G
  <2> HIDE DEF G
  <2> QED
    BY <1>2, <1>4, <1>5, UpTo
<1>7. IsLedger(g[k].u)
  <2>1. k \in 0 .. k
    BY <1>2
  <2>2. Fine(g[k])
    <3> HIDE DEF Fine
    <3> QED
      BY <1>6, <2>1
  <2> QED
    BY <2>2
<1> QED
  BY <1>3, <1>7 DEF v, done, spent

LEMMA RollsBack ==
  ASSUME NEW b, IsBlock(b), NEW u, IsLedger(u), NEW f, IsRun(f, u, b), NewOnly(u, b),
         NEW k \in 0 .. Len(b) - 1, f[k].ok
  PROVE  RevertAll(f[k].u, f[k].done, SpentWith(f[k], b[k + 1])) = u
<1> DEFINE s == f[k]
           p == SpentWith(s, b[k + 1])
<1>1. Len(b) \in Nat /\ k \in Nat /\ k \in 0 .. Len(b) /\ \A j \in 1 .. k : j \in 1 .. Len(b) /\ j - 1 \in 0 .. Len(b)
  BY BlockIs
<1>2. Applied(f, u, b, k)
  BY <1>1, AppliedSoFar
<1>3. Len(s.done) = k /\ \A j \in 1 .. k : s.done[j] = b[j]
  BY <1>2 DEF Applied
<1>4. /\ \A j \in 1 .. k : /\ f[j].u = ApplyTx(f[j - 1].u, b[j]) /\ Range(b[j].inputs) \subseteq DOMAIN f[j - 1].u
                           /\ Created(b[j]) \intersect DOMAIN f[j - 1].u = {}
      /\ \A j \in 1 .. k : \A o \in Range(b[j].inputs) :
            o \in DOMAIN s.spent /\ s.spent[o] = f[j - 1].u[o] /\ o \notin DOMAIN s.u
  BY <1>2 DEF Applied
<1>5. \A o \in DOMAIN s.spent : o \notin DOMAIN s.u => p[o] = s.spent[o]
  BY SpentWithIs
<1>6. s.done \in Seq(Range(b))
  BY <1>1, RunsTyped DEF RunTyped
<1> HIDE DEF p
<1>7. PICK g : /\ g[0] = [ok |-> TRUE, u |-> s.u] /\ RevertAll(s.u, s.done, p) = g[Len(s.done)].u
               /\ \A m \in 1 .. Len(s.done) : g[m] = RevertTx(g[m - 1], s.done[Len(s.done) - m + 1], p)
  <2>1. \E g : RollBack(g, s.u, s.done, p)
    BY <1>6, RevertAllIs, Zenon
  <2> QED
    BY <2>1, Zenon DEF RollBack
<1> DEFINE G == {m \in 0 .. k : g[m] = [ok |-> TRUE, u |-> f[k - m].u]}
<1>8. 0 \in G
  <2>1. k - 0 = k /\ 0 \in 0 .. k
    BY <1>1
  <2> QED
    BY <1>7, <2>1
<1>9. ASSUME NEW m \in 0 .. k - 1, m \in G PROVE m + 1 \in G
  <2> DEFINE j == k - m
             tx == b[j]
             v == f[j - 1].u
  <2>1. m + 1 \in 1 .. k /\ (m + 1) - 1 = m /\ m + 1 \in 0 .. k /\ k - (m + 1) + 1 = j /\ k - (m + 1) = j - 1 /\ j \in 1 .. k
    BY <1>1
  <2>2. g[m + 1] = RevertTx(g[m], tx, p)
    <3>1. g[m + 1] = RevertTx(g[(m + 1) - 1], s.done[k - (m + 1) + 1], p)
      BY <1>3, <1>7, <2>1
    <3>2. s.done[k - (m + 1) + 1] = tx
      BY <1>3, <2>1
    <3> QED
      BY <2>1, <3>1, <3>2
  <2>3. f[j].u = ApplyTx(v, tx) /\ Range(tx.inputs) \subseteq DOMAIN v /\ Created(tx) \intersect DOMAIN v = {}
    BY <1>4, <2>1
  <2>4. \A o \in Range(tx.inputs) : p[o] = v[o]
    BY <1>4, <1>5, <2>1
  <2>5. Payment(tx) /\ IsLedger(v)
    <3>1. Payment(tx)
      BY <1>1, <2>1, BlockIs
    <3>2. RunTyped(f[j - 1], Range(b))
      BY <1>1, <2>1, RunsTyped
    <3> QED
      BY <3>1, <3>2 DEF RunTyped
  <2>6. g[m] = [ok |-> TRUE, u |-> f[j].u]
    BY <1>9
  <2> HIDE DEF v, tx, j
  <2>7. RevertTx([ok |-> TRUE, u |-> ApplyTx(v, tx)], tx, p) = [ok |-> TRUE, u |-> v]
    BY <2>3, <2>4, <2>5, RevertUndoes
  <2>8. g[m + 1] = [ok |-> TRUE, u |-> v]
    BY <2>2, <2>3, <2>6, <2>7, Zenon
  <2>9. v = f[k - (m + 1)].u
    BY <2>1 DEF v
  <2> QED
    BY <2>1, <2>8, <2>9
<1>10. \A m \in 0 .. k : m \in G
  <2> HIDE DEF G
  <2> QED
    BY <1>1, <1>8, <1>9, UpTo
<1>11. g[k] = [ok |-> TRUE, u |-> f[0].u]
  <2>1. k - k = 0 /\ k \in 0 .. k
    BY <1>1
  <2> QED
    BY <1>10, <2>1
<1>12. f[0].u = u
  BY DEF IsRun, RunStart
<1>13. g[k].u = u
  BY <1>11, <1>12
<1> QED
  BY <1>3, <1>7, <1>13 DEF p

(* apply_block: all of the block, or nothing of it *)
LEMMA BlockApplied ==
  ASSUME NEW b, IsBlock(b), NEW u, IsLedger(u)
  PROVE  LET r == ApplyBlock(u, b)
         IN /\ IsLedger(r.u)
            /\ ~Recreates(u, b) =>
                 IF r.ok THEN /\ ValueOf(r.u) <= ValueOf(u) + Minted(b)
                              /\ \A i \in DOMAIN b : Range(b[i].inputs) \intersect DOMAIN r.u = {}
                 ELSE r.u = u
<1> DEFINE r == ApplyBlock(u, b)
           z == RunStart(u)
           n == Len(b)
<1>1. n \in Nat /\ DOMAIN b = 1 .. n
  BY BlockIs
<1>2. FoldLeft(ApplyNext, z, b) = Applying!Fold(0, z, b)
  BY Zenon DEF FoldLeft, MapThenFoldSet, Max, Applying!Fold, Applying!IsIter, Applying!Latest
<1>3. PICK f : Applying!IsTrace(0, f, z, b) /\ Applying!Fold(0, z, b) = f[Len(b)]
  BY <1>1, Leasts, Applying!FoldTrace, Zenon
<1>4. f[0] = z /\ \A i \in 1 .. Len(b) : f[i] = ApplyNext(f[i - 1], b[i])
  BY <1>1, <1>3, Applying!TraceStep
<1>5. IsRun(f, u, b)
  BY <1>4 DEF IsRun
<1> DEFINE e == f[n]
<1>6. r = [ok |-> e.ok, u |-> IF e.ok THEN e.u ELSE RevertAll(e.u, e.done, e.spent)]
  <2>1. FoldLeft(ApplyNext, z, b) = e
    BY <1>2, <1>3, Zenon
  <2>2. ApplyBlock(u, b) = LET run == FoldLeft(ApplyNext, z, b)
                           IN [ok |-> run.ok, u |-> IF run.ok THEN run.u ELSE RevertAll(run.u, run.done, run.spent)]
    BY Zenon DEF ApplyBlock, RunStart
  <2> QED
    BY <2>1, <2>2, Zenon
<1>7. RunTyped(e, Range(b)) /\ n \in 0 .. n
  BY <1>1, <1>5, RunsTyped
<1>8. e.ok \in BOOLEAN /\ IsLedger(e.u)
  BY <1>7 DEF RunTyped
<1>9. IsLedger(RevertAll(e.u, e.done, e.spent))
  BY <1>7, RevertAllStays
<1>10. r.ok = e.ok /\ (e.ok => r.u = e.u) /\ (~e.ok => r.u = RevertAll(e.u, e.done, e.spent))
  <2> HIDE DEF r, e
  <2> QED
    BY <1>6, <1>8
<1>11. IsLedger(r.u)
  <2> HIDE DEF r, e
  <2> QED
    BY <1>8, <1>9, <1>10
<1>12. ASSUME ~Recreates(u, b), e.ok
       PROVE  /\ ValueOf(e.u) <= ValueOf(u) + Minted(b)
              /\ \A i \in DOMAIN b : Range(b[i].inputs) \intersect DOMAIN e.u = {}
  <2>1. NewOnly(u, b)
    BY <1>1, <1>12, OwnOutputs
  <2>2. Applied(f, u, b, n)
    BY <1>5, <1>7, <1>12, <2>1, AppliedSoFar
  <2>3. \A i \in DOMAIN b : Range(b[i].inputs) \intersect DOMAIN e.u = {}
    BY <1>1, <2>2 DEF Applied
  <2>4. ValueOf(e.u) <= ValueOf(u) + Sum(MintedIn(b), 1 .. n)
    BY <1>5, <1>7, <1>12, <2>1, ValueSoFar
  <2>5. Minted(b) = SumFunction(MintedIn(b))
    BY Zenon DEF Minted, MintedIn, MintedBy
  <2>6. DOMAIN MintedIn(b) = 1 .. n
    BY <1>1 DEF MintedIn
  <2>7. Minted(b) = Sum(MintedIn(b), 1 .. n)
    BY <2>5, <2>6, SumFunctionIs, Zenon
  <2> QED
    BY <2>3, <2>4, <2>7
<1>13. ASSUME ~Recreates(u, b), ~e.ok PROVE RevertAll(e.u, e.done, e.spent) = u
  <2>1. NewOnly(u, b)
    BY <1>1, <1>13, OwnOutputs
  <2>2. PICK k \in 0 .. Len(b) - 1 :
            f[k].ok /\ e = [ok |-> FALSE, u |-> f[k].u, spent |-> SpentWith(f[k], b[k + 1]), done |-> f[k].done]
    BY <1>5, <1>7, <1>13, Stopped
  <2>3. e.u = f[k].u /\ e.spent = SpentWith(f[k], b[k + 1]) /\ e.done = f[k].done
    BY <2>2
  <2>4. RevertAll(f[k].u, f[k].done, SpentWith(f[k], b[k + 1])) = u
    BY <1>5, <2>1, <2>2, RollsBack
  <2> QED
    BY <2>3, <2>4, Zenon
<1> HIDE DEF e, r
<1>14. ~Recreates(u, b) =>
         IF r.ok THEN /\ ValueOf(r.u) <= ValueOf(u) + Minted(b)
                      /\ \A i \in DOMAIN b : Range(b[i].inputs) \intersect DOMAIN r.u = {}
         ELSE r.u = u
  BY <1>8, <1>10, <1>12, <1>13
<1> QED
  BY <1>11, <1>14 DEF r

(* The state after any calls, with what the clone taken of it holds *)
LedgerShape ==
  /\ ul = [utxos |-> ul.utxos, markers |-> ul.markers, saved |-> ul.saved, ops |-> ul.ops, last |-> ul.last]
  /\ ul.last = [block |-> ul.last.block, ok |-> ul.last.ok, before |-> ul.last.before]
Ledgers == IsLedger(ul.utxos) /\ (ul.saved # <<>> => IsLedger(ul.saved[1].utxos))
LedgerInv == LedgerShape /\ Ledgers /\ BlocksApplyWhole

LEMMA BlocksAreBlocks == \A b \in DOMAIN LedgerBlocks : IsBlock(LedgerBlocks[b]) /\ b # 0
  BY LedgerAssumption DEF IsBlock

LEMMA LedgerFields ==
  ASSUME LedgerShape, NEW x, NEW m, NEW v, NEW c, NEW l,
         ul' = [utxos |-> x, markers |-> m, saved |-> v, ops |-> c, last |-> l],
         NEW k, NEW o, NEW e, l = [block |-> k, ok |-> o, before |-> e]
  PROVE  LedgerShape' /\ ul'.utxos = x /\ ul'.saved = v /\ ul'.last.block = k /\ ul'.last.ok = o /\ ul'.last.before = e
<1>1. ul'.utxos = x /\ ul'.saved = v /\ ul'.last = l /\ ul'.markers = m /\ ul'.ops = c
  OBVIOUS
<1>2. l.block = k /\ l.ok = o /\ l.before = e
  OBVIOUS
<1>3. ul' = [utxos |-> ul'.utxos, markers |-> ul'.markers, saved |-> ul'.saved, ops |-> ul'.ops, last |-> ul'.last]
  OBVIOUS
<1>4. ul'.last = [block |-> ul'.last.block, ok |-> ul'.last.ok, before |-> ul'.last.before]
  BY <1>1, <1>2
<1> QED
  BY <1>1, <1>2, <1>3, <1>4 DEF LedgerShape

(* No call but apply_block changes the set and leaves a record of a block. *)
LEMMA NoBlock == ASSUME ul'.last.block = 0 PROVE BlocksApplyWhole'
  BY DEF BlocksApplyWhole

LEMMA ApplyKeepsLedger ==
  ASSUME LedgerInv, NEW b \in DOMAIN LedgerBlocks, ApplyInLedger(b)
  PROVE  LedgerInv'
<1> DEFINE B == LedgerBlocks[b]
           u == ul.utxos
           r == ApplyBlock(u, B)
           l == [block |-> b, ok |-> r.ok, before |-> u]
<1>1. LedgerShape /\ IsLedger(u) /\ (ul.saved # <<>> => IsLedger(ul.saved[1].utxos))
  BY DEF LedgerInv, Ledgers
<1>2. IsBlock(B) /\ b # 0
  BY BlocksAreBlocks
<1>3. /\ IsLedger(r.u)
      /\ ~Recreates(u, B) => IF r.ok THEN /\ ValueOf(r.u) <= ValueOf(u) + Minted(B)
                                          /\ \A i \in DOMAIN B : Range(B[i].inputs) \intersect DOMAIN r.u = {}
                             ELSE r.u = u
  BY <1>1, <1>2, BlockApplied
<1>4. ul' = [ul EXCEPT !.utxos = r.u, !.ops = @ + 1, !.last = l]
  BY DEF ApplyInLedger
<1>5. l = [block |-> b, ok |-> r.ok, before |-> u]
  OBVIOUS
<1> HIDE DEF r, l
<1>6. ul' = [utxos |-> r.u, markers |-> ul.markers, saved |-> ul.saved, ops |-> ul.ops + 1, last |-> l]
  BY <1>1, <1>4 DEF LedgerShape
<1>7. LedgerShape' /\ ul'.utxos = r.u /\ ul'.saved = ul.saved /\ ul'.last.block = b /\ ul'.last.ok = r.ok
      /\ ul'.last.before = u
  BY <1>1, <1>5, <1>6, LedgerFields
<1>8. Ledgers'
  BY <1>1, <1>3, <1>7 DEF Ledgers
<1>9. BlocksApplyWhole'
  <2> HIDE DEF u
  <2> QED
    BY <1>3, <1>7, Zenon DEF BlocksApplyWhole, B
<1> QED
  BY <1>7, <1>8, <1>9 DEF LedgerInv

LEMMA RevertKeepsLedger ==
  ASSUME LedgerInv, NEW b \in DOMAIN LedgerBlocks, RevertInLedger(b)
  PROVE  LedgerInv'
<1> DEFINE x == RevertedBlock(ul.utxos, LedgerBlocks[b])
           l == [ul.last EXCEPT !.block = 0]
<1>1. LedgerShape /\ IsLedger(ul.utxos) /\ (ul.saved # <<>> => IsLedger(ul.saved[1].utxos))
  BY DEF LedgerInv, Ledgers
<1>2. ul' = [ul EXCEPT !.utxos = x, !.ops = @ + 1, !.last.block = 0]
  BY DEF RevertInLedger
<1>3. l = [block |-> 0, ok |-> ul.last.ok, before |-> ul.last.before]
  BY <1>1 DEF LedgerShape
<1>4. IsLedger(x)
  <2> DEFINE S == DOMAIN ul.utxos \ UNION {Created(LedgerBlocks[b][i]) : i \in DOMAIN LedgerBlocks[b]}
  <2>1. x = Restrict(ul.utxos, S)
    BY DEF RevertedBlock
  <2>2. S \in SUBSET DOMAIN ul.utxos
    OBVIOUS
  <2> HIDE DEF S, x
  <2> QED
    BY <1>1, <2>1, <2>2, RestrictLedger
<1> HIDE DEF x
<1>5. ul' = [utxos |-> x, markers |-> ul.markers, saved |-> ul.saved, ops |-> ul.ops + 1, last |-> l]
  BY <1>1, <1>2 DEF LedgerShape
<1> HIDE DEF l
<1>6. LedgerShape' /\ ul'.utxos = x /\ ul'.saved = ul.saved /\ ul'.last.block = 0
  BY <1>1, <1>3, <1>5, LedgerFields
<1>7. Ledgers'
  BY <1>1, <1>4, <1>6 DEF Ledgers
<1> QED
  BY <1>6, <1>7, NoBlock DEF LedgerInv

LEMMA PruneKeepsLedger ==
  ASSUME LedgerInv, NEW e, PruneOlderThan(e)
  PROVE  LedgerInv'
<1> DEFINE due == {o \in DOMAIN ul.markers : ul.markers[o] <= e}
           x == Restrict(ul.utxos, DOMAIN ul.utxos \ due)
           m == Restrict(ul.markers, DOMAIN ul.markers \ due)
           l == [ul.last EXCEPT !.block = 0]
<1>1. LedgerShape /\ IsLedger(ul.utxos) /\ (ul.saved # <<>> => IsLedger(ul.saved[1].utxos))
  BY DEF LedgerInv, Ledgers
<1>2. ul' = [ul EXCEPT !.utxos = x, !.markers = m, !.ops = @ + 1, !.last.block = 0]
  BY DEF PruneOlderThan
<1>3. l = [block |-> 0, ok |-> ul.last.ok, before |-> ul.last.before]
  BY <1>1 DEF LedgerShape
<1>4. IsLedger(x)
  <2> HIDE DEF due
  <2>1. DOMAIN ul.utxos \ due \in SUBSET DOMAIN ul.utxos
    OBVIOUS
  <2> QED
    BY <1>1, <2>1, RestrictLedger
<1> HIDE DEF x, m
<1>5. ul' = [utxos |-> x, markers |-> m, saved |-> ul.saved, ops |-> ul.ops + 1, last |-> l]
  BY <1>1, <1>2 DEF LedgerShape
<1> HIDE DEF l
<1>6. LedgerShape' /\ ul'.utxos = x /\ ul'.saved = ul.saved /\ ul'.last.block = 0
  BY <1>1, <1>3, <1>5, LedgerFields
<1>7. Ledgers'
  BY <1>1, <1>4, <1>6 DEF Ledgers
<1> QED
  BY <1>6, <1>7, NoBlock DEF LedgerInv

LEMMA RestoreKeepsLedger ==
  ASSUME LedgerInv, RestoreLedger
  PROVE  LedgerInv'
<1> DEFINE x == ul.saved[1].utxos
           m == ul.saved[1].markers
           l == [ul.last EXCEPT !.block = 0]
<1>1. LedgerShape /\ IsLedger(x)
  BY DEF LedgerInv, Ledgers, RestoreLedger
<1>2. ul' = [ul EXCEPT !.utxos = x, !.markers = m, !.saved = <<>>, !.ops = @ + 1, !.last.block = 0]
  BY DEF RestoreLedger
<1>3. l = [block |-> 0, ok |-> ul.last.ok, before |-> ul.last.before]
  BY <1>1 DEF LedgerShape
<1> HIDE DEF x, m
<1>5. ul' = [utxos |-> x, markers |-> m, saved |-> <<>>, ops |-> ul.ops + 1, last |-> l]
  BY <1>1, <1>2 DEF LedgerShape
<1> HIDE DEF l
<1>6. LedgerShape' /\ ul'.utxos = x /\ ul'.saved = <<>> /\ ul'.last.block = 0
  BY <1>1, <1>3, <1>5, LedgerFields
<1>7. Ledgers'
  BY <1>1, <1>6 DEF Ledgers
<1> QED
  BY <1>6, <1>7, NoBlock DEF LedgerInv

(* Marking a leaf and taking a clone leave the set and the record alone. *)
LEMMA SameLedger ==
  ASSUME BlocksApplyWhole, ul'.utxos = ul.utxos, ul'.last = ul.last
  PROVE  BlocksApplyWhole'
  BY Zenon DEF BlocksApplyWhole

LEMMA MarkKeepsLedger ==
  ASSUME LedgerInv, NEW o, NEW e, MarkLeaf(o, e)
  PROVE  LedgerInv'
<1> DEFINE m == Over([x \in {o} |-> e], ul.markers)
<1>1. LedgerShape /\ Ledgers /\ BlocksApplyWhole
  BY DEF LedgerInv
<1>2. ul' = [ul EXCEPT !.markers = m, !.ops = @ + 1]
  BY DEF MarkLeaf
<1> HIDE DEF m
<1>3. ul' = [utxos |-> ul.utxos, markers |-> m, saved |-> ul.saved, ops |-> ul.ops + 1, last |-> ul.last]
  BY <1>1, <1>2 DEF LedgerShape
<1>4. ul'.utxos = ul.utxos /\ ul'.saved = ul.saved /\ ul'.last = ul.last
  BY <1>3
<1>5. LedgerShape'
  BY <1>1, <1>3, LedgerFields DEF LedgerShape
<1>6. Ledgers'
  BY <1>1, <1>4 DEF Ledgers
<1> QED
  BY <1>1, <1>4, <1>5, <1>6, SameLedger DEF LedgerInv

LEMMA SaveKeepsLedger ==
  ASSUME LedgerInv, SaveLedger
  PROVE  LedgerInv'
<1> DEFINE v == <<[utxos |-> ul.utxos, markers |-> ul.markers]>>
<1>1. LedgerShape /\ Ledgers /\ BlocksApplyWhole
  BY DEF LedgerInv
<1>2. ul' = [ul EXCEPT !.saved = v, !.ops = @ + 1]
  BY DEF SaveLedger
<1>7. v[1].utxos = ul.utxos
  OBVIOUS
<1> HIDE DEF v
<1>3. ul' = [utxos |-> ul.utxos, markers |-> ul.markers, saved |-> v, ops |-> ul.ops + 1, last |-> ul.last]
  BY <1>1, <1>2 DEF LedgerShape
<1>4. ul'.utxos = ul.utxos /\ ul'.saved = v /\ ul'.last = ul.last
  BY <1>3
<1>5. LedgerShape'
  BY <1>1, <1>3, LedgerFields DEF LedgerShape
<1>6. Ledgers'
  BY <1>1, <1>4, <1>7 DEF Ledgers
<1> QED
  BY <1>1, <1>4, <1>5, <1>6, SameLedger DEF LedgerInv

(* After any calls, a block that apply_block refuses in the middle leaves  *)
(* the unspent outputs as they were, and one it accepts makes no value but *)
(* what its coinbases mint and leaves none of its inputs unspent; for any  *)
(* blocks, unless one creates an output again.                             *)
THEOREM BlocksAlwaysApplyWhole == LedgerSpec => []BlocksApplyWhole
<1>1. UlInit => LedgerInv
  <2> SUFFICES ASSUME UlInit PROVE LedgerInv
    OBVIOUS
  <2>1. /\ ul.utxos = Nothing /\ ul.saved = <<>> /\ ul.last = [block |-> 0, ok |-> TRUE, before |-> Nothing]
        /\ ul = [utxos |-> ul.utxos, markers |-> ul.markers, saved |-> ul.saved, ops |-> ul.ops, last |-> ul.last]
    BY DEF UlInit
  <2>2. ul.last.block = 0 /\ ul.last = [block |-> ul.last.block, ok |-> ul.last.ok, before |-> ul.last.before]
    BY <2>1
  <2>3. LedgerShape
    BY <2>1, <2>2 DEF LedgerShape
  <2>4. IsLedger(Nothing)
    <3>1. DOMAIN Nothing = {} /\ Nothing = [o \in DOMAIN Nothing |-> Nothing[o]]
      BY DEF Nothing
    <3> QED
      BY <3>1, FS_EmptySet DEF IsLedger
  <2>5. Ledgers
    BY <2>1, <2>4 DEF Ledgers
  <2>6. BlocksApplyWhole
    BY <2>2 DEF BlocksApplyWhole
  <2> QED
    BY <2>3, <2>5, <2>6 DEF LedgerInv
<1>2. LedgerInv /\ [UlNext]_ul => LedgerInv'
  <2> SUFFICES ASSUME LedgerInv, [UlNext]_ul PROVE LedgerInv'
    OBVIOUS
  <2>1. CASE UNCHANGED ul
    BY <2>1, SameLedger DEF LedgerInv, LedgerShape, Ledgers
  <2>2. ASSUME NEW b \in DOMAIN LedgerBlocks, ApplyInLedger(b) \/ RevertInLedger(b) PROVE LedgerInv'
    BY <2>2, ApplyKeepsLedger, RevertKeepsLedger
  <2>3. ASSUME NEW o \in DOMAIN ul.utxos, NEW e \in Epochs, MarkLeaf(o, e) PROVE LedgerInv'
    BY <2>3, MarkKeepsLedger
  <2>4. ASSUME NEW e \in Epochs, PruneOlderThan(e) PROVE LedgerInv'
    BY <2>4, PruneKeepsLedger
  <2>5. CASE SaveLedger
    BY <2>5, SaveKeepsLedger
  <2>6. CASE RestoreLedger
    BY <2>6, RestoreKeepsLedger
  <2> QED
    BY <2>1, <2>2, <2>3, <2>4, <2>5, <2>6, Zenon DEF UlNext
<1>3. LedgerInv => BlocksApplyWhole
  BY DEF LedgerInv
<1> QED
  BY <1>1, <1>2, <1>3, PTL DEF LedgerSpec

-----------------------------------------------------------------------------
(* Emission and rewards *)
RewardSpec == RwInit /\ [][RwNext]_rw

Halving == INSTANCE Folding WITH Step <- LAMBDA a, r, i : Halve(r)
AddingFees == INSTANCE Folding WITH Step <- LAMBDA a, sum, tx : AddFee(sum, tx)
AddingUp == INSTANCE Folding WITH Step <- LAMBDA a, sum, o : AddOutput(sum, o)

LEMMA TimesGrows ==
  ASSUME NEW h \in Nat, NEW a \in Nat, NEW b \in Nat, a <= b
  PROVE  h * a <= h * b /\ h * a \in Nat
<1> DEFINE k == b - a
<1>1. k \in Nat /\ b = a + k
  OBVIOUS
<1> HIDE DEF k
<1>2. h * k \in Nat /\ h * a \in Nat
  BY <1>1
<1>3. h * b = h * a + h * k
  BY <1>1
<1> QED
  BY <1>2, <1>3

LEMMA Quotient ==
  ASSUME NEW h \in Nat \ {0}, NEW s \in Nat
  PROVE  /\ s \div h \in Nat /\ s % h \in Nat /\ s % h < h
         /\ s = h * (s \div h) + (s % h)
  OBVIOUS

LEMMA QuotientOnly ==
  ASSUME NEW h \in Nat \ {0}, NEW s \in Nat, NEW q \in Nat, NEW r \in Nat, r < h, s = h * q + r
  PROVE  s \div h = q /\ s % h = r
<1> DEFINE p == s \div h
           t == s % h
<1>1. p \in Nat /\ t \in Nat /\ t < h /\ s = h * p + t
  BY Quotient
<1> HIDE DEF p, t
<1>2. ASSUME p < q PROVE FALSE
  <2>1. h * (p + 1) <= h * q /\ h * p \in Nat /\ h * q \in Nat
    BY <1>1, <1>2, TimesGrows
  <2>2. h * (p + 1) = h * p + h
    BY <1>1
  <2> QED
    BY <1>1, <2>1, <2>2
<1>3. ASSUME q < p PROVE FALSE
  <2>1. h * (q + 1) <= h * p /\ h * p \in Nat /\ h * q \in Nat
    BY <1>1, <1>3, TimesGrows
  <2>2. h * (q + 1) = h * q + h
    BY <1>1
  <2> QED
    BY <1>1, <2>1, <2>2
<1>4. p = q
  BY <1>1, <1>2, <1>3
<1>5. h * p \in Nat
  BY <1>1
<1>6. t = r
  BY <1>1, <1>4, <1>5
<1> QED
  BY <1>4, <1>6 DEF p, t

(* The next number has the same quotient, or its successor and no rest. *)
LEMMA NextQuotient ==
  ASSUME NEW h \in Nat \ {0}, NEW s \in Nat
  PROVE  LET q == s \div h
             r == s % h
         IN IF r + 1 < h THEN (s + 1) \div h = q /\ (s + 1) % h = r + 1
            ELSE r + 1 = h /\ (s + 1) \div h = q + 1 /\ (s + 1) % h = 0
<1> DEFINE q == s \div h
           r == s % h
<1>1. q \in Nat /\ r \in Nat /\ r < h /\ s = h * q + r
  BY Quotient
<1> HIDE DEF q, r
<1>2. h * q \in Nat
  BY <1>1
<1>3. CASE r + 1 < h
  <2>1. s + 1 = h * q + (r + 1)
    BY <1>1, <1>2
  <2>2. s + 1 \in Nat /\ r + 1 \in Nat
    BY <1>1
  <2>3. (s + 1) \div h = q /\ (s + 1) % h = r + 1
    BY <1>1, <1>3, <2>1, <2>2, QuotientOnly
  <2> QED
    BY <1>3, <2>3 DEF q, r
<1>4. CASE ~(r + 1 < h)
  <2>1. r + 1 = h
    BY <1>1, <1>4
  <2>2. h * (q + 1) = h * q + h
    BY <1>1
  <2>3. s + 1 = h * (q + 1) + 0
    BY <1>1, <1>2, <2>1, <2>2
  <2>4. s + 1 \in Nat /\ q + 1 \in Nat /\ 0 \in Nat /\ 0 < h
    BY <1>1
  <2>5. (s + 1) \div h = q + 1 /\ (s + 1) % h = 0
    BY <2>3, <2>4, QuotientOnly
  <2> QED
    BY <1>4, <2>1, <2>5 DEF q, r
<1> QED
  BY <1>3, <1>4

(* raw_block_reward's loop computes the table and stays at its last entry. *)
LEMMA HalvedIs ==
  ASSUME NEW n \in Nat
  PROVE  Halved(n) = NextReward(n) /\ Halved(n) \in Nat
<1> DEFINE q == [i \in 1 .. n |-> i]
           L == Len(HalvingTable)
<1>1. Halved(n) = Halving!Fold(0, BaseReward, q)
  BY Zenon DEF Halved, FoldLeft, MapThenFoldSet, Max, Halving!Fold, Halving!IsIter, Halving!Latest
<1>2. Len(q) = n /\ DOMAIN q = 1 .. Len(q) /\ Len(q) \in Nat
  OBVIOUS
<1> HIDE DEF q
<1>3. PICK f : Halving!IsTrace(0, f, BaseReward, q) /\ Halving!Fold(0, BaseReward, q) = f[Len(q)]
  BY <1>2, Leasts, Halving!FoldTrace, Zenon
<1>4. f[0] = BaseReward /\ \A i \in 1 .. n : f[i] = Halve(f[i - 1])
  BY <1>2, <1>3, Halving!TraceStep
<1>5. /\ L \in Nat \ {0} /\ HalvingTable[1] = BaseReward /\ HalvingTable[L] = 1
      /\ \A i \in 1 .. L : HalvingTable[i] \in Nat
      /\ \A i \in 2 .. L : HalvingTable[i] = IF HalvingTable[i - 1] \div 2 > 1 THEN HalvingTable[i - 1] \div 2 ELSE 1
  <2>1. HalvingTable \in Seq(Nat) /\ L \in 1 .. 129
    BY TablesAssumption
  <2>2. L \in Nat \ {0}
    <3> HIDE DEF L
    <3> QED
      BY <2>1
  <2>3. \A i \in 1 .. L : HalvingTable[i] \in Nat
    BY <2>1
  <2> QED
    BY <2>2, <2>3, TablesAssumption
<1> HIDE DEF L
<1>6. \A r : Halve(r) = IF r \div 2 > 1 THEN r \div 2 ELSE 1
  BY DEF Halve, AtLeast, MinReward
<1>7. \A i \in Nat : NextReward(i) = IF i < L THEN HalvingTable[i + 1] ELSE 1
  BY DEF NextReward, MinReward, L
<1> DEFINE G == {i \in 0 .. n : f[i] = NextReward(i)}
<1>8. 0 \in G
  BY <1>4, <1>5, <1>7
<1>9. ASSUME NEW i \in 0 .. n - 1, i \in G PROVE i + 1 \in G
  <2>1. i + 1 \in 1 .. n /\ (i + 1) - 1 = i /\ i + 1 \in 0 .. n /\ i \in Nat
    OBVIOUS
  <2>2. f[i + 1] = Halve(f[i]) /\ f[i] = NextReward(i)
    BY <1>4, <1>9, <2>1
  <2>3. CASE i + 1 < L
    <3>1. i + 2 \in 2 .. L /\ (i + 2) - 1 = i + 1 /\ (i + 1) + 1 = i + 2 /\ i < L
      BY <1>5, <2>1, <2>3
    <3>2. HalvingTable[i + 2] = Halve(HalvingTable[i + 1])
      BY <1>5, <1>6, <3>1
    <3>3. NextReward(i + 1) = HalvingTable[i + 2] /\ NextReward(i) = HalvingTable[i + 1]
      BY <1>7, <2>1, <2>3, <3>1
    <3> QED
      BY <2>1, <2>2, <3>2, <3>3
  <2>4. CASE ~(i + 1 < L)
    <3>1. NextReward(i + 1) = 1
      BY <1>7, <2>1, <2>4
    <3>2. NextReward(i) = 1
      <4>1. i < L => i + 1 = L
        BY <1>5, <2>1, <2>4
      <4> QED
        BY <1>5, <1>7, <2>1, <4>1
    <3>3. Halve(1) = 1
      BY <1>6
    <3> QED
      BY <2>1, <2>2, <3>1, <3>2, <3>3
  <2> QED
    BY <2>3, <2>4
<1>10. \A i \in 0 .. n : i \in G
  <2> HIDE DEF G
  <2> QED
    BY <1>8, <1>9, UpTo
<1>11. f[n] = NextReward(n)
  BY <1>10
<1>12. NextReward(n) \in Nat
  <2>1. n < L => n + 1 \in 1 .. L
    BY <1>5
  <2> QED
    BY <1>5, <1>7, <2>1
<1> QED
  BY <1>1, <1>2, <1>3, <1>11, <1>12

LEMMA NextRewardIs ==
  ASSUME NEW n \in Nat
  PROVE  NextReward(n) \in Nat
  BY HalvedIs

(* Full intervals add up: one more adds its reward for each of its blocks. *)
LEMMA FullNext ==
  ASSUME NEW n \in Nat
  PROVE  FullEmitted(n) \in Nat /\ FullEmitted(n + 1) = FullEmitted(n) + HalvingInterval * NextReward(n)
<1> DEFINE L == Len(HalvingTable)
           H == HalvingInterval
           C(i) == CumulativeTable[i]
           T(i) == HalvingTable[i]
<1>1. /\ H \in Nat \ {0}
      /\ HalvingTable \in Seq(Nat) /\ CumulativeTable \in Seq(Nat) /\ L \in 1 .. 129 /\ Len(CumulativeTable) = L
  BY RewardsAssumption, TablesAssumption
<1>2. \A i \in 1 .. L : C(i) \in Nat /\ T(i) \in Nat
  BY <1>1
<1>3. C(1) = T(1) /\ \A i \in 2 .. L : C(i) = C(i - 1) + T(i)
  BY TablesAssumption
<1>4. Last(CumulativeTable) = C(L)
  BY <1>1 DEF Last
<1>5. \A i \in Nat : FullEmitted(i) = IF i = 0 THEN 0 ELSE IF i <= L THEN C(i) * H ELSE (C(L) + (i - L) * 1) * H
  BY <1>4 DEF FullEmitted, MinReward
<1>6. \A i \in Nat : NextReward(i) = IF i < L THEN T(i + 1) ELSE 1
  BY DEF NextReward, MinReward
<1> HIDE DEF L, H, C, T
<1>7. L \in Nat /\ 1 <= L
  BY <1>1
<1>8. FullEmitted(n) \in Nat
  <2>1. CASE n = 0
    BY <1>5, <2>1
  <2>2. CASE n # 0 /\ n <= L
    <3>1. n \in 1 .. L
      BY <1>7, <2>2
    <3>2. C(n) * H \in Nat
      BY <1>1, <1>2, <3>1
    <3> QED
      BY <1>5, <2>2, <3>2
  <2>3. CASE n > L
    <3>1. C(L) \in Nat
      BY <1>2, <1>7
    <3>2. C(L) + (n - L) * 1 \in Nat
      BY <1>7, <2>3, <3>1
    <3>3. (C(L) + (n - L) * 1) * H \in Nat
      BY <1>1, <3>2
    <3>4. FullEmitted(n) = (C(L) + (n - L) * 1) * H
      BY <1>5, <1>7, <2>3
    <3> QED
      BY <3>3, <3>4
  <2> QED
    BY <1>7, <2>1, <2>2, <2>3
<1>9. FullEmitted(n + 1) = FullEmitted(n) + H * NextReward(n)
  <2>1. CASE n = 0
    <3>1. FullEmitted(n) = 0 /\ FullEmitted(n + 1) = C(1) * H /\ NextReward(n) = T(1)
      BY <1>5, <1>6, <1>7, <2>1
    <3>2. C(1) = T(1) /\ T(1) \in Nat
      BY <1>2, <1>3, <1>7
    <3> QED
      BY <1>1, <3>1, <3>2
  <2>2. CASE n # 0 /\ n < L
    <3>1. FullEmitted(n) = C(n) * H /\ FullEmitted(n + 1) = C(n + 1) * H /\ NextReward(n) = T(n + 1)
      BY <1>5, <1>6, <1>7, <2>2
    <3>2. n \in 1 .. L /\ n + 1 \in 2 .. L /\ (n + 1) - 1 = n /\ n + 1 \in 1 .. L
      BY <1>7, <2>2
    <3>3. C(n + 1) = C(n) + T(n + 1) /\ C(n) \in Nat /\ T(n + 1) \in Nat
      BY <1>2, <1>3, <3>2
    <3> DEFINE c == C(n)
               t == T(n + 1)
    <3>4. (c + t) * H = c * H + H * t
      <4> HIDE DEF c, t
      <4> QED
        BY <1>1, <3>3 DEF c, t
    <3> QED
      BY <3>1, <3>3, <3>4
  <2>3. CASE n >= L
    <3> DEFINE c == C(L)
    <3>1. c \in Nat
      BY <1>2, <1>7
    <3>2. FullEmitted(n) = (c + (n - L) * 1) * H
      BY <1>5, <1>7, <2>3, <3>1
    <3>3. FullEmitted(n + 1) = (c + (n + 1 - L) * 1) * H /\ NextReward(n) = 1
      BY <1>5, <1>6, <1>7, <2>3
    <3> HIDE DEF c
    <3>4. (c + (n + 1 - L) * 1) * H = (c + (n - L) * 1) * H + H * 1
      BY <1>1, <1>7, <2>3, <3>1
    <3> QED
      BY <3>2, <3>3, <3>4
  <2> QED
    BY <1>7, <2>1, <2>2, <2>3
<1> QED
  BY <1>8, <1>9 DEF H

(* What the tables say before the cap is taken *)
Uncapped(score) == FullEmitted(score \div HalvingInterval) + (score % HalvingInterval) * NextReward(score \div HalvingInterval)
LEMMA UncappedNext ==
  ASSUME NEW s \in Nat
  PROVE  /\ Uncapped(s) \in Nat /\ Uncapped(s + 1) = Uncapped(s) + NextReward(s \div HalvingInterval)
         /\ Uncapped(0) = 0
<1> DEFINE H == HalvingInterval
           q == s \div H
           r == s % H
           N == NextReward(q)
           F == FullEmitted(q)
<1>1. H \in Nat \ {0}
  BY RewardsAssumption
<1>2. q \in Nat /\ r \in Nat /\ r < H
  BY <1>1, Quotient
<1>3. IF r + 1 < H THEN (s + 1) \div H = q /\ (s + 1) % H = r + 1
      ELSE r + 1 = H /\ (s + 1) \div H = q + 1 /\ (s + 1) % H = 0
  BY <1>1, NextQuotient
<1> HIDE DEF q, r
<1>4. N \in Nat /\ F \in Nat /\ FullEmitted(q + 1) = F + H * N /\ NextReward(q + 1) \in Nat
  BY <1>2, NextRewardIs, FullNext
<1>5. Uncapped(s) = F + r * N
  BY DEF Uncapped, q, r
<1>6. Uncapped(s + 1) = FullEmitted((s + 1) \div H) + ((s + 1) % H) * NextReward((s + 1) \div H)
  BY DEF Uncapped
<1> HIDE DEF H, N, F
<1>7. r * N \in Nat /\ H * N \in Nat
  BY <1>1, <1>2, <1>4
<1>8. ASSUME r + 1 < H PROVE Uncapped(s + 1) = Uncapped(s) + N
  <2>1. Uncapped(s + 1) = F + (r + 1) * N
    BY <1>3, <1>6, <1>8 DEF F, N
  <2>2. (r + 1) * N = r * N + N
    BY <1>2, <1>4
  <2> QED
    BY <1>4, <1>5, <1>7, <2>1, <2>2
<1>9. ASSUME ~(r + 1 < H) PROVE Uncapped(s + 1) = Uncapped(s) + N
  <2>1. Uncapped(s + 1) = F + H * N + 0 * NextReward(q + 1)
    BY <1>3, <1>4, <1>6, <1>9
  <2>2. H * N = r * N + N
    <3>1. H = r + 1
      BY <1>3, <1>9
    <3> QED
      BY <1>2, <1>4, <3>1
  <2>3. 0 * NextReward(q + 1) = 0
    BY <1>4
  <2> QED
    BY <1>4, <1>5, <1>7, <2>1, <2>2, <2>3
<1>10. Uncapped(0) = 0
  <2>1. 0 \div H = 0 /\ 0 % H = 0
    <3>1. 0 = H * 0 + 0 /\ 0 < H
      BY <1>1
    <3> QED
      BY <1>1, <3>1, QuotientOnly
  <2>2. FullEmitted(0) = 0
    BY DEF FullEmitted
  <2>3. NextReward(0) \in Nat
    BY NextRewardIs
  <2>4. Uncapped(0) = FullEmitted(0) + 0 * NextReward(0)
    BY <2>1 DEF Uncapped, H
  <2> QED
    BY <2>2, <2>3, <2>4
<1>11. Uncapped(s) \in Nat
  BY <1>4, <1>5, <1>7
<1>12. Uncapped(s + 1) = Uncapped(s) + N
  BY <1>8, <1>9
<1> QED
  BY <1>10, <1>11, <1>12 DEF N, q, H

(* The reward of a block is that of its interval, as long as the count of  *)
(* the halvings keeps its width.                                           *)
LEMMA RawIs ==
  ASSUME NEW s \in Nat
  PROVE  /\ RawBlockReward(s) \in Nat
         /\ s < HalvingInterval * HalvingModulus => RawBlockReward(s) = NextReward(s \div HalvingInterval)
<1> DEFINE H == HalvingInterval
           W == HalvingModulus
           q == s \div H
           p == q % W
           m == AtMost(p, 128)
<1>1. H \in Nat \ {0} /\ W \in Nat \ {0} /\ BaseReward \in Nat
  BY RewardsAssumption
<1>2. q \in Nat /\ s = H * q + (s % H) /\ s % H \in Nat
  BY <1>1, Quotient
<1> HIDE DEF q
<1>3. p \in Nat
  BY <1>1, <1>2, Quotient
<1>4. RawBlockReward(s) = IF s = 0 THEN BaseReward ELSE Halved(m)
  BY DEF RawBlockReward, q
<1> HIDE DEF H, W, p
<1>5. m \in Nat /\ (p <= 128 => m = p) /\ (p > 128 => m = 128)
  BY <1>3 DEF AtMost
<1> HIDE DEF m
<1>6. Halved(m) = NextReward(m) /\ Halved(m) \in Nat
  BY <1>5, HalvedIs
<1>7. RawBlockReward(s) \in Nat
  BY <1>1, <1>4, <1>6
<1>8. ASSUME s < H * W PROVE RawBlockReward(s) = NextReward(q)
  <2>1. q < W
    <3>1. ASSUME W <= q PROVE FALSE
      <4>1. H * W <= H * q /\ H * W \in Nat
        BY <1>1, <1>2, <3>1, TimesGrows
      <4>2. H * q \in Nat
        BY <1>1, <1>2
      <4> QED
        BY <1>2, <1>8, <4>1, <4>2
    <3> QED
      BY <1>1, <1>2, <3>1
  <2>2. p = q
    <3>1. q = W * 0 + q
      BY <1>1, <1>2
    <3>2. q % W = q
      BY <1>1, <1>2, <2>1, <3>1, QuotientOnly
    <3> QED
      BY <3>2 DEF p
  <2>3. \A i \in Nat : i >= 128 => NextReward(i) = 1
    <3> DEFINE L == Len(HalvingTable)
    <3>1. L \in 1 .. 129 /\ HalvingTable[L] = 1
      BY TablesAssumption
    <3>2. \A i \in Nat : NextReward(i) = IF i < L THEN HalvingTable[i + 1] ELSE 1
      BY DEF NextReward, MinReward
    <3> HIDE DEF L
    <3>3. ASSUME NEW i \in Nat, i >= 128 PROVE NextReward(i) = 1
      <4>1. i < L => i + 1 = L
        BY <3>1, <3>3
      <4> QED
        BY <3>1, <3>2, <4>1
    <3> QED
      BY <3>3
  <2>4. NextReward(m) = NextReward(q)
    <3>1. CASE p <= 128
      BY <1>5, <2>2, <3>1
    <3>2. CASE p > 128
      BY <1>2, <1>5, <2>2, <2>3, <3>2
    <3> QED
      BY <1>3, <3>1, <3>2
  <2>5. CASE s # 0
    BY <1>4, <1>6, <2>4, <2>5
  <2>6. CASE s = 0
    <3>1. q = 0
      <4>1. 0 = H * 0 + 0 /\ 0 < H
        BY <1>1
      <4>2. 0 \div H = 0
        BY <1>1, <4>1, QuotientOnly
      <4> QED
        BY <2>6, <4>2 DEF q, H
    <3>2. NextReward(0) = BaseReward
      BY TablesAssumption DEF NextReward
    <3> QED
      BY <1>4, <2>6, <3>1, <3>2
  <2> QED
    BY <2>5, <2>6
<1> QED
  BY <1>7, <1>8 DEF q, H, W

LEMMA CappedIs ==
  ASSUME NEW s \in Nat, NEW cap \in Nat
  PROVE  /\ CappedReward(s, cap) \in Nat /\ TotalEmitted(s, cap) \in Nat /\ TotalEmitted(s, cap) <= cap
         /\ TotalEmitted(0, cap) = 0
         /\ s < HalvingInterval * HalvingModulus =>
              TotalEmitted(s + 1, cap) = TotalEmitted(s, cap) + CappedReward(s, cap)
<1> DEFINE u == Uncapped(s)
           v == Uncapped(s + 1)
           e == TotalEmitted(s, cap)
           r == RawBlockReward(s)
           c == CappedReward(s, cap)
           n == NextReward(s \div HalvingInterval)
<1>1. u \in Nat /\ v = u + n /\ Uncapped(0) = 0
  BY UncappedNext
<1>2. r \in Nat /\ (s < HalvingInterval * HalvingModulus => r = n)
  BY RawIs
<1>3. \A x \in Nat : TotalEmitted(x, cap) = IF Uncapped(x) < cap THEN Uncapped(x) ELSE cap
  BY Zenon DEF TotalEmitted, Uncapped, AtMost
<1>4. e = IF u < cap THEN u ELSE cap
  BY <1>3
<1>5. TotalEmitted(s + 1, cap) = IF v < cap THEN v ELSE cap
  BY <1>3
<1>6. TotalEmitted(0, cap) = 0
  BY <1>1, <1>3
<1>7. c = IF e >= cap THEN 0 ELSE IF r < cap - e THEN r ELSE cap - e
  BY Zenon DEF CappedReward, AtMost
<1> HIDE DEF u, v, e, r, c, n
<1>8. e \in Nat /\ e <= cap /\ c \in Nat
  BY <1>1, <1>2, <1>4, <1>7
<1>9. ASSUME s < HalvingInterval * HalvingModulus PROVE TotalEmitted(s + 1, cap) = e + c
  <2>1. r = n
    BY <1>2, <1>9
  <2>2. n \in Nat
    BY <1>2, <2>1
  <2> QED
    BY <1>1, <1>2, <1>4, <1>5, <1>7, <1>8, <2>1, <2>2
<1> QED
  BY <1>6, <1>8, <1>9 DEF e, c

LEMMA FeesAre ==
  ASSUME NEW txs \in FeeBlocks
  PROVE  CalculateAcceptedFees(txs) \in Nat
<1> DEFINE F == [coinbase : BOOLEAN, base : Nat, gas : Nat, price : Nat]
<1>1. CalculateAcceptedFees(txs) = AddingFees!Fold(0, 0, txs)
  BY Zenon DEF CalculateAcceptedFees, FoldLeft, MapThenFoldSet, Max, AddingFees!Fold, AddingFees!IsIter, AddingFees!Latest
<1>2. txs \in Seq(F) /\ RewardMax \in Nat
  BY RewardsAssumption
<1>3. Len(txs) \in Nat /\ DOMAIN txs = 1 .. Len(txs) /\ \A i \in 1 .. Len(txs) : txs[i] \in F
  <2> HIDE DEF F
  <2> QED
    BY <1>2
<1>4. ASSUME NEW s \in Nat, NEW i \in 1 .. Len(txs) PROVE AddFee(s, txs[i]) \in Nat
  <2> DEFINE t == txs[i]
             w == CalculateTxTotalFee(t)
  <2>1. t.base \in Nat /\ t.gas \in Nat /\ t.price \in Nat
    BY <1>3
  <2>2. w = t.base + t.gas * t.price
    BY DEF CalculateTxTotalFee
  <2>3. w \in Nat
    BY <2>1, <2>2
  <2>4. AddFee(s, t) = IF t.coinbase \/ s = NoReward THEN s ELSE AtMost(s + w, NoReward)
    BY DEF AddFee
  <2>5. NoReward \in Nat
    BY <1>2 DEF NoReward
  <2> HIDE DEF t, w
  <2>6. AtMost(s + w, NoReward) \in Nat
    BY <2>3, <2>5 DEF AtMost
  <2>7. AddFee(s, t) \in Nat
    BY <2>4, <2>6
  <2> QED
    BY <2>7 DEF t
<1>5. AddingFees!Fold(0, 0, txs) \in Nat
  <2>1. 0 \in Nat /\ \A s \in Nat : \A i \in 1 .. Len(txs) : AddFee(s, txs[i]) \in Nat
    BY <1>4
  <2> QED
    BY <1>3, <2>1, Leasts, AddingFees!FoldKeeps, Zenon
<1> QED
  BY <1>1, <1>5

(* The value of one and of two outputs *)
LEMMA OneOutput ==
  ASSUME NEW a, a.value \in Nat
  PROVE  CoinbaseValue(<<a>>) = a.value
<1> DEFINE q == <<a>>
<1>1. CoinbaseValue(q) = AddingUp!Fold(0, 0, q)
  BY Zenon DEF CoinbaseValue, FoldLeft, MapThenFoldSet, Max, AddingUp!Fold, AddingUp!IsIter, AddingUp!Latest
<1>2. Len(q) = 1 /\ Len(q) \in Nat /\ DOMAIN q = 1 .. Len(q) /\ q[1] = a
  OBVIOUS
<1> HIDE DEF q
<1>3. PICK f : AddingUp!IsTrace(0, f, 0, q) /\ AddingUp!Fold(0, 0, q) = f[Len(q)]
  BY <1>2, Leasts, AddingUp!FoldTrace, Zenon
<1>6. Len(q) \in Nat
  BY <1>2
<1>4. f[0] = 0 /\ \A i \in 1 .. Len(q) : f[i] = AddOutput(f[i - 1], q[i])
  BY <1>3, <1>6, AddingUp!TraceStep
<1>5. f[1] = f[0] + a.value
  BY <1>2, <1>4 DEF AddOutput
<1> QED
  BY <1>1, <1>2, <1>3, <1>4, <1>5 DEF q

LEMMA TwoOutputs ==
  ASSUME NEW a, NEW b, a.value \in Nat, b.value \in Nat
  PROVE  CoinbaseValue(<<a, b>>) = a.value + b.value
<1> DEFINE q == <<a, b>>
<1>1. CoinbaseValue(q) = AddingUp!Fold(0, 0, q)
  BY Zenon DEF CoinbaseValue, FoldLeft, MapThenFoldSet, Max, AddingUp!Fold, AddingUp!IsIter, AddingUp!Latest
<1>2. Len(q) = 2 /\ Len(q) \in Nat /\ DOMAIN q = 1 .. Len(q) /\ q[1] = a /\ q[2] = b
  OBVIOUS
<1> HIDE DEF q
<1>3. PICK f : AddingUp!IsTrace(0, f, 0, q) /\ AddingUp!Fold(0, 0, q) = f[Len(q)]
  BY <1>2, Leasts, AddingUp!FoldTrace, Zenon
<1>4. f[0] = 0 /\ \A i \in 1 .. Len(q) : f[i] = AddOutput(f[i - 1], q[i])
  BY <1>2, <1>3, AddingUp!TraceStep
<1>5. f[1] = f[0] + a.value
  BY <1>2, <1>4 DEF AddOutput
<1>6. f[2] = f[1] + b.value
  BY <1>2, <1>4 DEF AddOutput
<1> QED
  BY <1>1, <1>2, <1>3, <1>4, <1>5, <1>6 DEF q

(* The outputs of a coinbase are the total to the unit, and they validate. *)
GoodCoinbase(outputs, total, pool) ==
  /\ CoinbaseValue(outputs) = total
  /\ ValidateCoinbaseReward(outputs, total, {"miner", "pool"})
  /\ pool /\ total # 2 => ValidateCoinbaseReward(outputs, total, {"pool"})
LEMMA CoinbaseIs ==
  ASSUME NEW pool \in BOOLEAN, NEW nodes \in Nat, NEW total \in Nat
  PROVE  GoodCoinbase(CreateCoinbaseTx(pool, nodes, total), total, pool)
<1> DEFINE part == (total * 80) \div 100
           rest == Less(total, part)
           miner == IF nodes = 0 THEN total ELSE part
           share == Less(total, miner)
           first == [value |-> miner, to |-> "miner"]
           second == [value |-> share, to |-> IF pool THEN "pool" ELSE "miner"]
           outputs == CreateCoinbaseTx(pool, nodes, total)
<1>1. part \in Nat /\ part <= total /\ (total # 0 => part < total) /\ (part + part = total => total \in {0, 2})
  <2>1. 100 * part <= total * 80 /\ total * 80 < 100 * part + 100 /\ part \in Nat
    OBVIOUS
  <2> HIDE DEF part
  <2> QED
    BY <2>1
<1>2. outputs = IF share = 0 THEN <<first>> ELSE <<first, second>>
  BY DEF CreateCoinbaseTx, MinerPercent
<1>3. \A ok : /\ outputs # <<>> /\ CoinbaseValue(outputs) = total /\ Len(outputs) \in {1, 2}
              /\ Len(outputs) = 2 => /\ {outputs[1].value, outputs[2].value} = {part, rest}
                                     /\ (IF outputs[1].value = rest THEN outputs[1].to ELSE outputs[2].to) \in ok
             => ValidateCoinbaseReward(outputs, total, ok)
  BY DEF ValidateCoinbaseReward, MinerPercent
<1> HIDE DEF part
<1>4. rest \in Nat /\ rest = total - part
  BY <1>1 DEF Less
<1>5. miner \in Nat /\ share \in Nat /\ miner + share = total
  BY <1>1 DEF Less
<1>6. first.value = miner /\ first.to = "miner" /\ second.value = share /\ second.to = IF pool THEN "pool" ELSE "miner"
  OBVIOUS
<1>7. share # 0 => miner = part /\ share = rest
  BY <1>1 DEF Less
<1> HIDE DEF rest, miner, share, first, second, outputs
<1>8. CASE share = 0
  <2>1. outputs = <<first>>
    BY <1>2, <1>8
  <2>2. CoinbaseValue(outputs) = total
    BY <1>5, <1>6, <1>8, <2>1, OneOutput
  <2>3. outputs # <<>> /\ Len(outputs) = 1
    BY <2>1
  <2>4. \A ok : ValidateCoinbaseReward(outputs, total, ok)
    BY <1>3, <2>2, <2>3
  <2> QED
    BY <2>2, <2>4 DEF GoodCoinbase, outputs
<1>9. CASE share # 0
  <2>1. outputs = <<first, second>>
    BY <1>2, <1>9
  <2>2. CoinbaseValue(outputs) = total
    <3>1. CoinbaseValue(<<first, second>>) = first.value + second.value
      BY <1>5, <1>6, TwoOutputs
    <3> QED
      BY <1>5, <1>6, <2>1, <3>1
  <2>3. outputs # <<>> /\ Len(outputs) = 2 /\ outputs[1] = first /\ outputs[2] = second
    BY <2>1
  <2>4. {outputs[1].value, outputs[2].value} = {part, rest}
    BY <1>6, <1>7, <1>9, <2>3
  <2>5. first.to \in {"miner", "pool"} /\ second.to \in {"miner", "pool"}
    BY <1>6
  <2>6. (IF outputs[1].value = rest THEN outputs[1].to ELSE outputs[2].to) \in {"miner", "pool"}
    BY <2>3, <2>5
  <2>7. ValidateCoinbaseReward(outputs, total, {"miner", "pool"})
    BY <1>3, <2>2, <2>3, <2>4, <2>6
  <2>8. ASSUME pool, total # 2 PROVE ValidateCoinbaseReward(outputs, total, {"pool"})
    <3>1. miner # rest
      BY <1>1, <1>4, <1>5, <1>7, <1>9, <2>8
    <3>2. second.to = "pool"
      BY <1>6, <2>8
    <3>3. (IF outputs[1].value = rest THEN outputs[1].to ELSE outputs[2].to) \in {"pool"}
      BY <1>6, <2>3, <3>1, <3>2
    <3> QED
      BY <1>3, <2>2, <2>3, <2>4, <3>3
  <2> QED
    BY <2>2, <2>7, <2>8 DEF GoodCoinbase, outputs
<1> QED
  BY <1>8, <1>9

LEMMA SplitIs ==
  ASSUME NEW s \in Nat, NEW cap \in Nat, NEW nodes \in Nat
  PROVE  ValidateRewardSplit(s, cap, nodes)
<1> DEFINE total == CappedReward(s, cap)
           part == (total * 80) \div 100
           miner == IF nodes = 0 THEN total ELSE part
           infra == IF nodes = 0 THEN 0 ELSE Less(total, miner)
           r == BlockReward(s, cap, nodes)
<1>1. total \in Nat
  BY CappedIs
<1>2. r.miner = miner /\ r.infra = infra
  BY DEF BlockReward, MinerPercent
<1> HIDE DEF total
<1>3. part \in Nat /\ part <= total
  BY <1>1
<1> HIDE DEF part
<1>4. miner + infra <= total
  BY <1>1, <1>3 DEF Less
<1> HIDE DEF miner, infra
<1> QED
  BY <1>2, <1>4 DEF ValidateRewardSplit, total

(* Nothing is counted but whole units, and the sums are those of the code. *)
RewardTyped ==
  /\ rw = [cap |-> rw.cap, score |-> rw.score, issued |-> rw.issued, collected |-> rw.collected, minted |-> rw.minted,
           last |-> rw.last]
  /\ rw.cap \in Nat /\ rw.score \in Nat /\ rw.issued \in Nat /\ rw.collected \in Nat /\ rw.minted \in Nat
LastSound == rw.last # NoCoinbase => GoodCoinbase(rw.last.outputs, rw.last.total, rw.last.pool)
RewardInv == /\ RewardTyped /\ LastSound /\ rw.minted = rw.issued + rw.collected
             /\ rw.score <= HalvingInterval * HalvingModulus => rw.issued = TotalEmitted(rw.score, rw.cap)

LEMMA RewardInvGives == ASSUME RewardInv PROVE RewardsConserve
<1>1. rw.cap \in Nat /\ rw.score \in Nat
  BY DEF RewardInv, RewardTyped
<1>2. EmissionIsSum
  <2>1. TotalEmitted(rw.score, rw.cap) <= rw.cap
    BY <1>1, CappedIs
  <2>2. rw.score <= HalvingInterval * HalvingModulus => rw.issued = TotalEmitted(rw.score, rw.cap)
    BY DEF RewardInv
  <2> QED
    BY <2>1, <2>2 DEF EmissionIsSum
<1>3. \A nodes \in 0 .. 2 : ValidateRewardSplit(rw.score, rw.cap, nodes)
  BY <1>1, SplitIs
<1>4. rw.minted = rw.issued + rw.collected
  BY DEF RewardInv
<1>5. rw.last # NoCoinbase => GoodCoinbase(rw.last.outputs, rw.last.total, rw.last.pool)
  BY DEF RewardInv, LastSound
<1>6. CoinbaseConserves
  BY <1>3, <1>4, <1>5, Zenon DEF CoinbaseConserves, GoodCoinbase
<1> QED
  BY <1>2, <1>6 DEF RewardsConserve

(* A block that is refused leaves no coinbase and no sum changed. *)
LEMMA MineRefused ==
  ASSUME RewardInv, rw' = [rw EXCEPT !.last = NoCoinbase]
  PROVE  RewardInv'
<1>1. rw' = [cap |-> rw.cap, score |-> rw.score, issued |-> rw.issued, collected |-> rw.collected, minted |-> rw.minted,
             last |-> NoCoinbase]
  BY DEF RewardInv, RewardTyped
<1>2. /\ rw'.cap = rw.cap /\ rw'.score = rw.score /\ rw'.issued = rw.issued /\ rw'.collected = rw.collected
      /\ rw'.minted = rw.minted /\ rw'.last = NoCoinbase
  BY <1>1
<1>3. RewardTyped'
  BY <1>1, <1>2 DEF RewardInv, RewardTyped
<1>4. LastSound'
  BY <1>2 DEF LastSound
<1>5. rw'.minted = rw'.issued + rw'.collected
  BY <1>2 DEF RewardInv
<1>6. (rw.score <= HalvingInterval * HalvingModulus => rw.issued = TotalEmitted(rw.score, rw.cap))'
  BY <1>2 DEF RewardInv
<1> QED
  BY <1>3, <1>4, <1>5, <1>6 DEF RewardInv

LEMMA MinePaid ==
  ASSUME RewardInv, NEW s \in Nat, NEW i \in Nat, NEW f \in Nat, NEW t \in Nat, NEW l,
         rw' = [cap |-> rw.cap, score |-> s, issued |-> rw.issued + i, collected |-> rw.collected + f,
                minted |-> rw.minted + t, last |-> l],
         t = i + f, GoodCoinbase(l.outputs, l.total, l.pool),
         \/ s = rw.score /\ i = 0
         \/ s = rw.score + 1 /\ i = CappedReward(rw.score, rw.cap)
  PROVE  RewardInv'
<1> DEFINE limit == HalvingInterval * HalvingModulus
<1>1. /\ rw.cap \in Nat /\ rw.score \in Nat /\ rw.issued \in Nat /\ rw.collected \in Nat /\ rw.minted \in Nat
      /\ rw.minted = rw.issued + rw.collected
      /\ rw.score <= limit => rw.issued = TotalEmitted(rw.score, rw.cap)
  BY DEF RewardInv, RewardTyped
<1>2. /\ rw'.cap = rw.cap /\ rw'.score = s /\ rw'.issued = rw.issued + i /\ rw'.collected = rw.collected + f
      /\ rw'.minted = rw.minted + t /\ rw'.last = l
  OBVIOUS
<1>3. RewardTyped'
  <2>1. rw' = [cap |-> rw'.cap, score |-> rw'.score, issued |-> rw'.issued, collected |-> rw'.collected, minted |-> rw'.minted,
               last |-> rw'.last]
    OBVIOUS
  <2>2. rw'.cap \in Nat /\ rw'.score \in Nat /\ rw'.issued \in Nat /\ rw'.collected \in Nat /\ rw'.minted \in Nat
    BY <1>1, <1>2
  <2> QED
    BY <2>1, <2>2 DEF RewardTyped
<1>4. LastSound'
  BY <1>2 DEF LastSound
<1>5. rw'.minted = rw'.issued + rw'.collected
  BY <1>1, <1>2
<1>6. limit \in Nat
  BY RewardsAssumption
<1>7. ASSUME s <= limit PROVE rw.issued + i = TotalEmitted(s, rw.cap)
  <2> HIDE DEF limit
  <2>1. CASE s = rw.score /\ i = 0
    BY <1>1, <1>7, <2>1
  <2>2. CASE s = rw.score + 1 /\ i = CappedReward(rw.score, rw.cap)
    <3>1. rw.score < limit /\ rw.score <= limit
      BY <1>1, <1>6, <1>7, <2>2
    <3>2. TotalEmitted(rw.score + 1, rw.cap) = TotalEmitted(rw.score, rw.cap) + CappedReward(rw.score, rw.cap)
      BY <1>1, <3>1, CappedIs DEF limit
    <3> QED
      BY <1>1, <2>2, <3>1, <3>2
  <2> QED
    BY <2>1, <2>2
<1>8. (rw.score <= HalvingInterval * HalvingModulus => rw.issued = TotalEmitted(rw.score, rw.cap))'
  BY <1>2, <1>7
<1> QED
  BY <1>3, <1>4, <1>5, <1>8 DEF RewardInv

LEMMA MineKeeps ==
  ASSUME RewardInv, NEW txs \in FeeBlocks, NEW blue \in BOOLEAN, NEW pool \in BOOLEAN, NEW nodes \in 0 .. 2,
         MineBlock(txs, blue, nodes, pool)
  PROVE  RewardInv'
<1> DEFINE fees == CalculateAcceptedFees(txs)
           reward == CappedReward(rw.score, rw.cap)
           total == BlockTotalReward(txs, rw.score, rw.cap, blue)
           outputs == CreateCoinbaseTx(pool, nodes, total)
           l == [total |-> total, nodes |-> nodes, pool |-> pool, outputs |-> outputs]
           s == IF blue THEN rw.score + 1 ELSE rw.score
           i == IF blue THEN reward ELSE 0
           f == IF blue THEN fees ELSE 0
<1>1. /\ rw = [cap |-> rw.cap, score |-> rw.score, issued |-> rw.issued, collected |-> rw.collected, minted |-> rw.minted,
               last |-> rw.last]
      /\ rw.cap \in Nat /\ rw.score \in Nat /\ rw.issued \in Nat /\ rw.collected \in Nat /\ rw.minted \in Nat
  BY DEF RewardInv, RewardTyped
<1>2. fees \in Nat /\ reward \in Nat
  BY <1>1, FeesAre, CappedIs
<1>3. total = IF ~blue THEN 0 ELSE IF fees = NoReward THEN NoReward
              ELSE IF reward + fees < NoReward THEN reward + fees ELSE NoReward
  BY DEF BlockTotalReward, AtMost
<1>4. IF total = NoReward THEN rw' = [rw EXCEPT !.last = NoCoinbase]
      ELSE rw' = [rw EXCEPT !.score = IF blue THEN @ + 1 ELSE @, !.issued = IF blue THEN @ + reward ELSE @,
                            !.collected = IF blue THEN @ + fees ELSE @, !.minted = @ + CoinbaseValue(outputs), !.last = l]
  BY DEF MineBlock
<1>5. NoReward \in Nat /\ NoReward # 0
  BY RewardsAssumption DEF NoReward
<1>6. nodes \in Nat
  OBVIOUS
<1> HIDE DEF fees, reward, total
<1>7. total \in Nat
  BY <1>2, <1>3, <1>5
<1>8. GoodCoinbase(outputs, total, pool)
  BY <1>6, <1>7, CoinbaseIs
<1>9. CoinbaseValue(outputs) = total
  BY <1>8 DEF GoodCoinbase
<1>10. l.total = total /\ l.pool = pool /\ l.outputs = outputs
  OBVIOUS
<1> HIDE DEF outputs, l
<1>11. CASE total = NoReward
  BY <1>4, <1>11, MineRefused
<1>12. CASE total # NoReward
  <2>1. rw' = [cap |-> rw.cap, score |-> IF blue THEN rw.score + 1 ELSE rw.score,
               issued |-> IF blue THEN rw.issued + reward ELSE rw.issued,
               collected |-> IF blue THEN rw.collected + fees ELSE rw.collected, minted |-> rw.minted + total, last |-> l]
    BY <1>1, <1>4, <1>9, <1>12
  <2>2. rw' = [cap |-> rw.cap, score |-> s, issued |-> rw.issued + i, collected |-> rw.collected + f,
               minted |-> rw.minted + total, last |-> l]
    BY <1>1, <1>2, <2>1
  <2>4. s \in Nat /\ i \in Nat /\ f \in Nat
    BY <1>1, <1>2
  <2>7. /\ blue => s = rw.score + 1 /\ i = reward /\ f = fees
        /\ ~blue => s = rw.score /\ i = 0 /\ f = 0
    OBVIOUS
  <2> HIDE DEF s, i, f
  <2>3. total = i + f
    <3>1. CASE blue
      <4>1. total = reward + fees
        BY <1>2, <1>3, <1>12, <3>1
      <4> QED
        BY <2>7, <3>1, <4>1
    <3>2. CASE ~blue
      BY <1>3, <2>7, <3>2
    <3> QED
      BY <3>1, <3>2
  <2>5. (s = rw.score /\ i = 0) \/ (s = rw.score + 1 /\ i = CappedReward(rw.score, rw.cap))
    <3>1. blue => s = rw.score + 1 /\ i = CappedReward(rw.score, rw.cap)
      BY <2>7 DEF reward
    <3>2. ~blue => s = rw.score /\ i = 0
      BY <2>7
    <3> QED
      BY <3>1, <3>2
  <2>6. GoodCoinbase(l.outputs, l.total, l.pool)
    BY <1>8, <1>10
  <2> QED
    BY <1>7, <2>2, <2>3, <2>4, <2>5, <2>6, MinePaid
<1> QED
  BY <1>11, <1>12

(* For any base reward, interval, supply and fees, and tables that follow  *)
(* the loop, the subsidies paid are what total_emitted says and never more *)
(* than the supply, as long as the count of the halvings keeps its width;  *)
(* and at any score the coinbases mint subsidies and fees to the unit and  *)
(* validate.                                                               *)
THEOREM RewardsAlwaysConserve == RewardSpec => []RewardsConserve
<1>1. RwInit => RewardInv
  <2> SUFFICES ASSUME RwInit PROVE RewardInv
    OBVIOUS
  <2>1. PICK cap \in Supplies :
          rw = [cap |-> cap, score |-> 0, issued |-> 0, collected |-> 0, minted |-> 0, last |-> NoCoinbase]
    BY DEF RwInit
  <2>2. cap \in Nat
    BY RewardsAssumption
  <2>3. rw.cap = cap /\ rw.score = 0 /\ rw.issued = 0 /\ rw.collected = 0 /\ rw.minted = 0 /\ rw.last = NoCoinbase
    BY <2>1
  <2>4. RewardTyped
    BY <2>1, <2>2, <2>3 DEF RewardTyped
  <2>5. TotalEmitted(rw.score, rw.cap) = 0
    BY <2>2, <2>3, CappedIs
  <2> QED
    BY <2>3, <2>4, <2>5 DEF RewardInv, LastSound
<1>2. RewardInv /\ [RwNext]_rw => RewardInv'
  <2> SUFFICES ASSUME RewardInv, [RwNext]_rw PROVE RewardInv'
    OBVIOUS
  <2>1. CASE UNCHANGED rw
    BY <2>1, Zenon DEF RewardInv, RewardTyped, LastSound
  <2>2. CASE RwNext
    BY <2>2, MineKeeps, Zenon DEF RwNext
  <2> QED
    BY <2>1, <2>2
<1>3. RewardInv => RewardsConserve
  BY RewardInvGives
<1> QED
  BY <1>1, <1>2, <1>3, PTL DEF RewardSpec

-----------------------------------------------------------------------------
(* Contracts *)
ContractSpec == VmInit /\ [][VmNext]_vm

\* the fields of a run, its amounts of gas with them
VmShape(v) ==
  /\ DOMAIN v = {"tree", "snapshot", "phase", "limit", "meter", "points", "refund", "used", "contracts", "spent"}
  /\ v.limit \in Nat /\ v.points \in Int /\ v.refund \in Nat /\ v.used \in Int /\ v.spent \in Nat /\ v.contracts \in Nat

\* both counts of the gas start from the limit: until the engine has its points the meter has booked every
\* charge, then the points have, and the meter has booked no more than they
GasBooked(v) ==
  /\ v.phase \in {"idle", "loading", "run"}
  /\ v.phase # "idle" => /\ v.meter = [remaining |-> v.limit - v.meter.consumed, consumed |-> v.meter.consumed]
                         /\ v.meter.consumed \in Nat
  /\ v.phase = "loading" => v.meter.consumed = v.spent /\ v.spent <= v.limit
  /\ v.phase = "run" => v.points = v.limit - v.spent /\ v.points >= 0 /\ v.meter.consumed <= v.spent

\* a contract that is done has failed, and the tree is the one it found, or has an amount to show
Settled(v) ==
  v.phase = "idle" => \/ v.used = -1 /\ v.tree = v.snapshot
                      \/ v.used >= 0 /\ v.used <= v.spent /\ v.spent <= v.limit /\ 5 * v.used >= 4 * v.spent

VmInv(v) == VmShape(v) /\ GasBooked(v) /\ Settled(v)

LEMMA FailSettles ==
  ASSUME NEW v, VmShape(v)
  PROVE  VmInv(Fail(v))
<1> DEFINE f == Fail(v)
<1>1. /\ DOMAIN f = DOMAIN v /\ f.tree = v.snapshot /\ f.snapshot = v.snapshot /\ f.phase = "idle" /\ f.used = -1
      /\ f.limit = v.limit /\ f.points = v.points /\ f.refund = v.refund /\ f.spent = v.spent /\ f.contracts = v.contracts
  BY DEF VmShape, Fail
<1> HIDE DEF f
<1>2. VmShape(f) /\ GasBooked(f) /\ Settled(f)
  BY <1>1 DEF VmShape, GasBooked, Settled
<1> QED
  BY <1>2 DEF VmInv, f

LEMMA ChargeBooks ==
  ASSUME NEW v, NEW cost \in Nat, VmInv(v), v.phase = "run", Affordable(v, cost)
  PROVE  /\ VmInv(Charge(v, cost)) /\ Charge(v, cost).phase = "run"
<1> DEFINE c == Charge(v, cost)
<1>1. /\ DOMAIN c = DOMAIN v /\ c.phase = "run" /\ c.used = v.used /\ c.limit = v.limit
      /\ c.points = v.points - cost /\ c.refund = v.refund /\ c.spent = v.spent + cost /\ c.contracts = v.contracts
      /\ c.meter = ConsumeHost(v.meter, cost)
  BY DEF VmInv, VmShape, Charge
<1> HIDE DEF c
<1>2. VmShape(c)
  BY <1>1 DEF VmInv, VmShape
<1>3. c.points >= 0
  BY <1>1 DEF Affordable, VmInv, VmShape
<1>4. GasBooked(c)
  BY <1>1, <1>3 DEF VmInv, VmShape, GasBooked, ConsumeHost
<1>5. Settled(c)
  BY <1>1 DEF Settled
<1> QED
  BY <1>1, <1>2, <1>4, <1>5 DEF VmInv, c

LEMMA BeginKeeps ==
  ASSUME NEW limit \in Limits, NEW payload \in PayloadCosts, VmInv(vm), BeginContract(limit, payload)
  PROVE  VmInv(vm')
<1> DEFINE m == ConsumeHost(ConsumeHost([remaining |-> limit, consumed |-> 0], INTRINSIC_GAS), payload)
           started == [vm EXCEPT !.contracts = @ + 1, !.snapshot = vm.tree, !.limit = limit, !.refund = 0,
                                 !.spent = INTRINSIC_GAS + payload, !.phase = "loading", !.meter = m]
<1>1. vm' = IF started.meter.remaining < 0 THEN Fail(started) ELSE started
  BY DEF BeginContract
<1>2. /\ DOMAIN started = DOMAIN vm /\ started.contracts = vm.contracts + 1 /\ started.limit = limit /\ started.refund = 0
      /\ started.spent = INTRINSIC_GAS + payload /\ started.phase = "loading" /\ started.meter = m
      /\ started.points = vm.points /\ started.used = vm.used
  BY DEF VmInv, VmShape
<1>3. limit \in Nat /\ payload \in Nat /\ INTRINSIC_GAS \in Nat
  BY GasAssumption
<1>4. m = [remaining |-> limit - (INTRINSIC_GAS + payload), consumed |-> INTRINSIC_GAS + payload]
  BY <1>3 DEF ConsumeHost
<1> HIDE DEF m, started
<1>5. VmShape(started)
  BY <1>2, <1>3 DEF VmInv, VmShape
<1>6. CASE started.meter.remaining < 0
  BY <1>1, <1>5, <1>6, FailSettles
<1>7. CASE ~(started.meter.remaining < 0)
  <2>1. INTRINSIC_GAS + payload <= limit
    BY <1>2, <1>3, <1>4, <1>7
  <2>2. GasBooked(started)
    BY <1>2, <1>3, <1>4, <2>1 DEF GasBooked
  <2>3. Settled(started)
    BY <1>2 DEF Settled
  <2> QED
    BY <1>1, <1>5, <1>7, <2>2, <2>3 DEF VmInv
<1> QED
  BY <1>6, <1>7

LEMMA InstantiateKeeps ==
  ASSUME VmInv(vm), Instantiate
  PROVE  VmInv(vm')
<1>1. /\ DOMAIN vm' = DOMAIN vm /\ vm'.phase = "run" /\ vm'.points = RemainingForWasm(vm) /\ vm'.limit = vm.limit
      /\ vm'.refund = vm.refund /\ vm'.used = vm.used /\ vm'.spent = vm.spent /\ vm'.contracts = vm.contracts
      /\ vm'.meter = vm.meter
  BY DEF Instantiate, VmInv, VmShape
<1>2. RemainingForWasm(vm) = vm.limit - vm.spent /\ vm.spent <= vm.limit
  BY DEF Instantiate, VmInv, VmShape, GasBooked, RemainingForWasm
<1>3. VmShape(vm')
  BY <1>1, <1>2 DEF VmInv, VmShape
<1>4. GasBooked(vm')
  BY <1>1, <1>2 DEF Instantiate, VmInv, VmShape, GasBooked
<1>5. Settled(vm')
  BY <1>1 DEF Settled
<1> QED
  BY <1>3, <1>4, <1>5 DEF VmInv

LEMMA ComputeKeeps ==
  ASSUME NEW cost \in OpcodeCosts, VmInv(vm), Compute(cost)
  PROVE  VmInv(vm')
<1>1. cost \in Nat
  BY GasAssumption
<1>2. CASE vm.points < cost
  BY <1>2, FailSettles DEF Compute, VmInv
<1>3. CASE ~(vm.points < cost)
  <2>1. /\ DOMAIN vm' = DOMAIN vm /\ vm'.phase = "run" /\ vm'.points = vm.points - cost /\ vm'.limit = vm.limit
        /\ vm'.refund = vm.refund /\ vm'.used = vm.used /\ vm'.spent = vm.spent + cost /\ vm'.contracts = vm.contracts
        /\ vm'.meter = vm.meter
    BY <1>3 DEF Compute, VmInv, VmShape
  <2>2. VmShape(vm')
    BY <1>1, <2>1 DEF VmInv, VmShape
  <2>3. GasBooked(vm')
    BY <1>1, <1>3, <2>1 DEF Compute, VmInv, VmShape, GasBooked
  <2>4. Settled(vm')
    BY <2>1 DEF Settled
  <2> QED
    BY <2>2, <2>3, <2>4 DEF VmInv
<1> QED
  BY <1>2, <1>3

LEMMA ReadKeeps ==
  ASSUME NEW k, VmInv(vm), StateRead(k)
  PROVE  VmInv(vm')
<1>1. CASE ~Affordable(vm, STATE_READ_COST) \/ k \in vm.tree.pruned
  BY <1>1, FailSettles DEF StateRead, VmInv
<1>2. CASE ~(~Affordable(vm, STATE_READ_COST) \/ k \in vm.tree.pruned)
  BY <1>2, ChargeBooks, GasAssumption DEF StateRead
<1> QED
  BY <1>1, <1>2

\* what the tree holds does not matter while a contract runs
LEMMA TreeIsFree ==
  ASSUME NEW v, NEW t, VmInv(v), v.phase = "run"
  PROVE  VmInv([v EXCEPT !.tree = t])
<1> DEFINE w == [v EXCEPT !.tree = t]
<1>1. /\ DOMAIN w = DOMAIN v /\ w.phase = "run" /\ w.points = v.points /\ w.limit = v.limit /\ w.refund = v.refund
      /\ w.used = v.used /\ w.spent = v.spent /\ w.contracts = v.contracts /\ w.meter = v.meter
  BY DEF VmInv, VmShape
<1> HIDE DEF w
<1>2. VmShape(w)
  BY <1>1 DEF VmInv, VmShape
<1>3. GasBooked(w)
  BY <1>1 DEF VmInv, GasBooked
<1>4. Settled(w)
  BY <1>1 DEF Settled
<1> QED
  BY <1>2, <1>3, <1>4 DEF VmInv, w

LEMMA WriteKeeps ==
  ASSUME NEW k, NEW v, VmInv(vm), StateWrite(k, v)
  PROVE  VmInv(vm')
<1>1. CASE k \in vm.tree.pruned \/ ~Affordable(vm, WriteCost(k))
  BY <1>1, FailSettles DEF StateWrite, VmInv
<1>2. CASE ~(k \in vm.tree.pruned \/ ~Affordable(vm, WriteCost(k)))
  <2> DEFINE c == Charge(vm, WriteCost(k))
             t == [leaves |-> (k :> v) @@ c.tree.leaves, pruned |-> c.tree.pruned]
  <2>1. WriteCost(k) \in Nat
    BY GasAssumption DEF WriteCost
  <2>2. VmInv(c) /\ c.phase = "run"
    BY <1>2, <2>1, ChargeBooks DEF StateWrite
  <2>3. vm' = [c EXCEPT !.tree = t]
    BY <1>2 DEF StateWrite
  <2> HIDE DEF c, t
  <2> QED
    BY <2>2, <2>3, TreeIsFree
<1> QED
  BY <1>1, <1>2

LEMMA DestructKeeps ==
  ASSUME NEW k, VmInv(vm), SelfDestruct(k)
  PROVE  VmInv(vm')
<1>1. /\ DOMAIN vm' = DOMAIN vm /\ vm'.phase = vm.phase /\ vm'.points = vm.points /\ vm'.limit = vm.limit
      /\ vm'.refund = vm.refund + SELF_DESTRUCT_REFUND
      /\ vm'.used = vm.used /\ vm'.spent = vm.spent /\ vm'.contracts = vm.contracts /\ vm'.meter = vm.meter
  BY DEF SelfDestruct, VmInv, VmShape
<1>2. VmShape(vm')
  BY <1>1, GasAssumption DEF VmInv, VmShape
<1>3. GasBooked(vm')
  BY <1>1 DEF VmInv, GasBooked
<1>4. Settled(vm')
  BY <1>1 DEF SelfDestruct, Settled
<1> QED
  BY <1>2, <1>3, <1>4 DEF VmInv

LEMMA AtMostAFifth ==
  ASSUME NEW total \in Nat, NEW refund \in Nat
  PROVE  /\ Finalize(total, refund) \in Nat /\ Finalize(total, refund) <= total
         /\ 5 * Finalize(total, refund) >= 4 * total
<1> DEFINE fifth == total \div 5
<1>1. fifth \in Nat /\ 5 * fifth <= total
  OBVIOUS
<1>2. Finalize(total, refund) = total - (IF refund < fifth THEN refund ELSE fifth)
  BY DEF Finalize
<1> HIDE DEF fifth
<1> QED
  BY <1>1, <1>2

LEMMA ReturnKeeps ==
  ASSUME VmInv(vm), Return
  PROVE  VmInv(vm')
<1> DEFINE total == vm.limit - vm.points
           paid == Finalize(total, vm.refund)
<1>1. /\ DOMAIN vm' = DOMAIN vm /\ vm'.phase = "idle" /\ vm'.points = vm.points /\ vm'.limit = vm.limit
      /\ vm'.refund = vm.refund /\ vm'.used = paid /\ vm'.spent = vm.spent /\ vm'.contracts = vm.contracts
  BY DEF Return, VmInv, VmShape
<1>2. total = vm.spent /\ vm.spent <= vm.limit
  BY DEF Return, VmInv, VmShape, GasBooked
<1> HIDE DEF total
<1>3. paid \in Nat /\ paid <= vm.spent /\ 5 * paid >= 4 * vm.spent
  BY <1>2, AtMostAFifth DEF VmInv, VmShape
<1> HIDE DEF paid
<1>4. VmShape(vm')
  BY <1>1, <1>3 DEF VmInv, VmShape
<1>5. GasBooked(vm') /\ Settled(vm')
  BY <1>1, <1>2, <1>3 DEF GasBooked, Settled
<1> QED
  BY <1>4, <1>5 DEF VmInv

\* In every execution of the machine, whatever its contracts do and whatever the prices of gas are: a contract
\* that runs out of gas, traps or meets an error leaves the tree as it found it; the points of the engine are
\* the limit less every charge and never exceed what the meter has left; and a contract that returns has used
\* what it was charged, less at most a fifth.
THEOREM ContractsAlwaysMetered == ContractSpec => []ContractsMetered
<1>1. VmInit => VmInv(vm)
  BY DEF VmInit, VmInv, VmShape, GasBooked, Settled
<1>2. VmInv(vm) /\ [VmNext]_vm => VmInv(vm)'
  <2> SUFFICES ASSUME VmInv(vm), [VmNext]_vm PROVE VmInv(vm')
    OBVIOUS
  <2>1. CASE UNCHANGED vm
    BY <2>1
  <2>2. ASSUME NEW l \in Limits, NEW p \in PayloadCosts, BeginContract(l, p) PROVE VmInv(vm')
    BY <2>2, BeginKeeps
  <2>3. CASE LoadFails \/ Trap
    BY <2>3, FailSettles DEF LoadFails, Trap, VmInv
  <2>4. CASE Instantiate
    BY <2>4, InstantiateKeeps
  <2>5. CASE Return
    BY <2>5, ReturnKeeps
  <2>6. ASSUME NEW c \in OpcodeCosts, Compute(c) PROVE VmInv(vm')
    BY <2>6, ComputeKeeps
  <2>7. ASSUME NEW k \in StateKey, StateRead(k) \/ SelfDestruct(k) PROVE VmInv(vm')
    BY <2>7, ReadKeeps, DestructKeeps
  <2>8. ASSUME NEW k \in StateKey, NEW v \in StateValue, StateWrite(k, v) PROVE VmInv(vm')
    BY <2>8, WriteKeeps
  <2> QED
    BY <2>1, <2>2, <2>3, <2>4, <2>5, <2>6, <2>7, <2>8 DEF VmNext
<1>3. VmInv(vm) => ContractsMetered
  BY DEF VmInv, VmShape, GasBooked, Settled, ContractsMetered, FailureLeavesTree, GasCountsAgree
<1> QED
  BY <1>1, <1>2, <1>3, PTL DEF ContractSpec

(* The parallel index *)

HeldSteps == {"counts_held", "uncount_held", "verify_held"}
CallSteps == AsksAllShards \union AsksShard \union AsksStats \union {"idle"}
NamingSteps == {"insert", "put", "update", "remove", "recount"}
IndexCalls == [at : CallSteps, tx : Txid \union {0}, st : IndexStatus, old : IndexStatus, todo : Seq(Txid)]

PiShape(g) ==
  /\ DOMAIN g = {"entries", "count", "shard", "stats", "pc", "calls", "dirty", "raced"}
  /\ g.entries \in [Txid -> IndexStatus \union {"none"}] /\ g.count \in [IndexStatus -> Nat]
  /\ g.shard \in SUBSET Txid /\ g.stats \in SUBSET Client /\ g.pc \in [Client -> IndexCalls]
  /\ \A h \in Client : g.pc[h].at \in NamingSteps => g.pc[h].tx \in Txid
  /\ g.calls \in Nat /\ g.dirty \in BOOLEAN /\ g.raced \in BOOLEAN

\* who holds the locks
LocksHeld(g) ==
  /\ g.stats = {h \in Client : g.pc[h].at \in HeldSteps}
  /\ \A h, k \in Client : g.pc[h].at \in HeldSteps /\ g.pc[k].at \in HeldSteps => h = k
  /\ g.shard = {g.pc[h].tx : h \in {k \in Client : g.pc[k].at = "recount"}}
  /\ \A h, k \in Client : g.pc[h].at = "recount" /\ g.pc[k].at = "recount" /\ g.pc[h].tx = g.pc[k].tx => h = k

\* what has passed the size check
PastCheck(g) == {h \in Client : g.pc[h].at = "put"}
RoomKept(g) == Cardinality(Entered(g)) + Cardinality(PastCheck(g)) < MaxEntries + Cardinality(Client)

\* a clear that runs beside no call
ClearsAlone(g) ==
  \A h \in Client : g.pc[h].at \in {"clear", "reset"} =>
    /\ \A k \in Client \ {h} : g.pc[k].at = "idle"
    /\ g.pc[h].at = "reset" => \A t \in Txid : g.entries[t] = "none"

\* the threads that have still to count an entry as s, and to take one off
WillAdd(c, s) == \/ c.at \in {"counts", "counts_held"} /\ s = "Pending"
                 \/ c.at = "recount" /\ c.st = s
WillTake(c, s) == \/ c.at = "recount" /\ c.old = s
                  \/ c.at \in {"uncount", "uncount_held"} /\ c.st = s
Adding(g, s) == {h \in Client : WillAdd(g.pc[h], s)}
Taking(g, s) == {h \in Client : WillTake(g.pc[h], s)}
HavingIn(g, s) == {t \in Txid : g.entries[t] = s}
Due(g, s) == g.count[s] + Cardinality(Adding(g, s))
Had(g, s) == Cardinality(HavingIn(g, s)) + Cardinality(Taking(g, s))
NoReset(g) == \A h \in Client : g.pc[h].at # "reset"
CountsDue(g) == ~g.raced => \A s \in IndexStatus :
                  Due(g, s) >= Had(g, s) /\ (~g.dirty /\ NoReset(g) => Due(g, s) = Had(g, s))

PiInv(g) == PiShape(g) /\ LocksHeld(g) /\ RoomKept(g) /\ (~g.raced => ClearsAlone(g)) /\ CountsDue(g)

One(P) == IF P THEN 1 ELSE 0

\* the number of elements, with one of them told apart
LEMMA SplitOff ==
  ASSUME NEW D, IsFiniteSet(D), NEW S \in SUBSET D, NEW x
  PROVE  /\ Cardinality(S) \in Nat /\ Cardinality(S \ {x}) \in Nat
         /\ Cardinality(S) = Cardinality(S \ {x}) + One(x \in S)
<1>1. IsFiniteSet(S) /\ IsFiniteSet(S \ {x})
  BY FS_Subset
<1>2. Cardinality(S) \in Nat /\ Cardinality(S \ {x}) \in Nat
  BY <1>1, FS_CardinalityType
<1>3. CASE x \in S
  BY <1>2, <1>3, OneLess DEF One
<1>4. CASE x \notin S
  <2>1. S \ {x} = S
    BY <1>4
  <2> QED
    BY <1>2, <1>4, <2>1 DEF One
<1> QED
  BY <1>3, <1>4

LEMMA SplitBoth ==
  ASSUME NEW D, IsFiniteSet(D), NEW S \in SUBSET D, NEW T \in SUBSET D, NEW x, S \ {x} = T \ {x}
  PROVE  \E a \in Nat : Cardinality(S) = a + One(x \in S) /\ Cardinality(T) = a + One(x \in T)
<1>1. Cardinality(S \ {x}) \in Nat /\ Cardinality(S) = Cardinality(S \ {x}) + One(x \in S)
  BY SplitOff
<1>2. Cardinality(T) = Cardinality(S \ {x}) + One(x \in T)
  <2>1. Cardinality(T) = Cardinality(T \ {x}) + One(x \in T)
    BY SplitOff
  <2> QED
    BY <2>1
<1> QED
  BY <1>1, <1>2

\* what a step of one thread changes of those numbers
Numbers(g, k, h, t, s) ==
  \E a, b, c \in Nat :
    /\ Cardinality(Adding(g, s)) = a + One(WillAdd(g.pc[h], s))
    /\ Cardinality(Adding(k, s)) = a + One(WillAdd(k.pc[h], s))
    /\ Cardinality(Taking(g, s)) = b + One(WillTake(g.pc[h], s))
    /\ Cardinality(Taking(k, s)) = b + One(WillTake(k.pc[h], s))
    /\ Cardinality(HavingIn(g, s)) = c + One(t \in Txid /\ g.entries[t] = s)
    /\ Cardinality(HavingIn(k, s)) = c + One(t \in Txid /\ k.entries[t] = s)
LEMMA NumbersMove ==
  ASSUME NEW g, NEW k, NEW h \in Client, NEW t, NEW s,
         \A j \in Client \ {h} : k.pc[j] = g.pc[j], \A u \in Txid \ {t} : k.entries[u] = g.entries[u]
  PROVE  Numbers(g, k, h, t, s)
<1>1. IsFiniteSet(Client) /\ IsFiniteSet(Txid)
  BY IndexAssumption
<1>2. /\ Adding(g, s) \in SUBSET Client /\ Adding(k, s) \in SUBSET Client
      /\ Taking(g, s) \in SUBSET Client /\ Taking(k, s) \in SUBSET Client
      /\ HavingIn(g, s) \in SUBSET Txid /\ HavingIn(k, s) \in SUBSET Txid
  BY DEF Adding, Taking, HavingIn
<1>3. Adding(g, s) \ {h} = Adding(k, s) \ {h}
  BY DEF Adding
<1>4. Taking(g, s) \ {h} = Taking(k, s) \ {h}
  BY DEF Taking
<1>5. HavingIn(g, s) \ {t} = HavingIn(k, s) \ {t}
  BY DEF HavingIn
<1>6. /\ h \in Adding(g, s) <=> WillAdd(g.pc[h], s)
      /\ h \in Adding(k, s) <=> WillAdd(k.pc[h], s)
      /\ h \in Taking(g, s) <=> WillTake(g.pc[h], s)
      /\ h \in Taking(k, s) <=> WillTake(k.pc[h], s)
      /\ t \in HavingIn(g, s) <=> t \in Txid /\ g.entries[t] = s
      /\ t \in HavingIn(k, s) <=> t \in Txid /\ k.entries[t] = s
  BY DEF Adding, Taking, HavingIn
<1>7. PICK a \in Nat : /\ Cardinality(Adding(g, s)) = a + One(h \in Adding(g, s))
                     /\ Cardinality(Adding(k, s)) = a + One(h \in Adding(k, s))
  BY <1>1, <1>2, <1>3, SplitBoth
<1>8. PICK b \in Nat : /\ Cardinality(Taking(g, s)) = b + One(h \in Taking(g, s))
                     /\ Cardinality(Taking(k, s)) = b + One(h \in Taking(k, s))
  BY <1>1, <1>2, <1>4, SplitBoth
<1>9. PICK c \in Nat : /\ Cardinality(HavingIn(g, s)) = c + One(t \in HavingIn(g, s))
                     /\ Cardinality(HavingIn(k, s)) = c + One(t \in HavingIn(k, s))
  BY <1>1, <1>2, <1>5, SplitBoth
<1>10. /\ One(h \in Adding(g, s)) = One(WillAdd(g.pc[h], s))
       /\ One(h \in Adding(k, s)) = One(WillAdd(k.pc[h], s))
       /\ One(h \in Taking(g, s)) = One(WillTake(g.pc[h], s))
       /\ One(h \in Taking(k, s)) = One(WillTake(k.pc[h], s))
       /\ One(t \in HavingIn(g, s)) = One(t \in Txid /\ g.entries[t] = s)
       /\ One(t \in HavingIn(k, s)) = One(t \in Txid /\ k.entries[t] = s)
  BY <1>6 DEF One
<1> QED
  BY <1>7, <1>8, <1>9, <1>10 DEF Numbers

SameOthers(g, k, h) == \A j \in Client \ {h} : k.pc[j] = g.pc[j]
SameEntries(g, k, t) == \A u \in Txid \ {t} : k.entries[u] = g.entries[u]
\* what a step does to the locks, and to the counts, the thread and the entry t
LockShift(g, k, h) ==
  /\ k.stats = IF k.pc[h].at \in HeldSteps THEN {h} ELSE g.stats \ {h}
  /\ k.pc[h].at \in HeldSteps => g.stats = {}
  /\ k.shard = IF k.pc[h].at = "recount" THEN g.shard \union {k.pc[h].tx}
               ELSE IF g.pc[h].at = "recount" THEN g.shard \ {g.pc[h].tx} ELSE g.shard
  /\ k.pc[h].at = "recount" => g.pc[h].at # "recount" /\ k.pc[h].tx \notin g.shard
CountsShift(g, k, h, t) ==
  \A s \in IndexStatus :
    LET before == g.count[s] + One(WillAdd(g.pc[h], s)) + One(t \in Txid /\ k.entries[t] = s) + One(WillTake(k.pc[h], s))
        after == k.count[s] + One(WillAdd(k.pc[h], s)) + One(t \in Txid /\ g.entries[t] = s) + One(WillTake(g.pc[h], s))
    IN  after >= before /\ (~k.dirty => after = before)

LEMMA LocksMove ==
  ASSUME NEW g, NEW k, PiShape(g), PiShape(k), LocksHeld(g), NEW h \in Client,
         SameOthers(g, k, h), LockShift(g, k, h)
  PROVE  LocksHeld(k)
<1> USE DEF SameOthers, LockShift
<1>1. k.stats = {j \in Client : k.pc[j].at \in HeldSteps}
  BY DEF LocksHeld
<1>2. \A i, j \in Client : k.pc[i].at \in HeldSteps /\ k.pc[j].at \in HeldSteps => i = j
  BY DEF LocksHeld
<1>3. ASSUME NEW i \in Client, NEW j \in Client, k.pc[i].at = "recount", k.pc[j].at = "recount", k.pc[i].tx = k.pc[j].tx
      PROVE  i = j
  <2>1. CASE i # h /\ j # h
    BY <1>3, <2>1 DEF LocksHeld
  <2>2. CASE i = h /\ j # h
    BY <1>3, <2>2 DEF LocksHeld
  <2>3. CASE j = h /\ i # h
    BY <1>3, <2>3 DEF LocksHeld
  <2> QED
    BY <2>1, <2>2, <2>3
<1>4. k.shard = {k.pc[j].tx : j \in {i \in Client : k.pc[i].at = "recount"}}
  <2>1. ASSUME NEW j \in Client, k.pc[j].at = "recount" PROVE k.pc[j].tx \in k.shard
    <3>1. CASE j = h
      BY <2>1, <3>1
    <3>2. CASE j # h
      <4>1. g.pc[j].at = "recount" /\ k.pc[j].tx = g.pc[j].tx
        BY <2>1, <3>2
      <4>2. g.pc[j].tx \in g.shard
        BY <4>1 DEF LocksHeld
      <4>3. g.pc[h].at = "recount" => g.pc[j].tx # g.pc[h].tx
        BY <3>2, <4>1 DEF LocksHeld
      <4> QED
        BY <4>1, <4>2, <4>3
    <3> QED
      BY <3>1, <3>2
  <2>2. ASSUME NEW x \in k.shard PROVE \E j \in Client : k.pc[j].at = "recount" /\ k.pc[j].tx = x
    <3>1. CASE k.pc[h].at = "recount" /\ x = k.pc[h].tx
      BY <3>1
    <3>2. CASE ~(k.pc[h].at = "recount" /\ x = k.pc[h].tx)
      <4>1. x \in g.shard /\ ~(g.pc[h].at = "recount" /\ x = g.pc[h].tx)
        BY <2>2, <3>2
      <4>2. PICK j \in Client : g.pc[j].at = "recount" /\ g.pc[j].tx = x
        BY <4>1 DEF LocksHeld
      <4> QED
        BY <4>1, <4>2
    <3> QED
      BY <3>1, <3>2
  <2> QED
    BY <2>1, <2>2
<1> QED
  BY <1>1, <1>2, <1>3, <1>4 DEF LocksHeld

LEMMA RoomMove ==
  ASSUME NEW g, NEW k, RoomKept(g), NEW h \in Client, NEW t,
         SameOthers(g, k, h), SameEntries(g, k, t),
         t \in Txid /\ k.entries[t] # "none" => (t \in Txid /\ g.entries[t] # "none") \/ (g.pc[h].at = "put" /\ k.pc[h].at # "put"),
         k.pc[h].at = "put" => g.pc[h].at = "put"
  PROVE  RoomKept(k)
<1> USE DEF SameOthers, SameEntries
<1>1. IsFiniteSet(Client) /\ IsFiniteSet(Txid) /\ MaxEntries \in Nat
  BY IndexAssumption
<1>2. Cardinality(Client) \in Nat
  BY <1>1, FS_CardinalityType
<1>3. PastCheck(g) \in SUBSET Client /\ PastCheck(k) \in SUBSET Client /\ PastCheck(g) \ {h} = PastCheck(k) \ {h}
  BY DEF PastCheck
<1>4. Entered(g) \in SUBSET Txid /\ Entered(k) \in SUBSET Txid /\ Entered(g) \ {t} = Entered(k) \ {t}
  BY DEF Entered
<1>5. PICK a \in Nat : /\ Cardinality(PastCheck(g)) = a + One(h \in PastCheck(g))
                       /\ Cardinality(PastCheck(k)) = a + One(h \in PastCheck(k))
  BY <1>1, <1>3, SplitBoth
<1>6. PICK b \in Nat : /\ Cardinality(Entered(g)) = b + One(t \in Entered(g))
                       /\ Cardinality(Entered(k)) = b + One(t \in Entered(k))
  BY <1>1, <1>4, SplitBoth
<1>7. One(t \in Entered(k)) + One(h \in PastCheck(k)) <= One(t \in Entered(g)) + One(h \in PastCheck(g))
  BY DEF One, Entered, PastCheck
<1>8. \A P : One(P) \in Nat
  BY DEF One
<1>9. One(t \in Entered(k)) \in Nat /\ One(h \in PastCheck(k)) \in Nat /\ One(t \in Entered(g)) \in Nat /\ One(h \in PastCheck(g)) \in Nat
  BY DEF One
<1> QED
  BY <1>1, <1>2, <1>5, <1>6, <1>7, <1>9 DEF RoomKept

LEMMA ClearsMove ==
  ASSUME NEW g, NEW k, ClearsAlone(g), NEW h \in Client, g.pc[h].at # "idle",
         SameOthers(g, k, h),
         k.pc[h].at \in {"clear", "reset"} => g.pc[h].at \in {"clear", "reset"},
         k.pc[h].at = "reset" => \A t \in Txid : k.entries[t] = "none"
  PROVE  ClearsAlone(k)
<1> USE DEF SameOthers
<1> SUFFICES ASSUME NEW j \in Client, k.pc[j].at \in {"clear", "reset"}
             PROVE  /\ \A i \in Client \ {j} : k.pc[i].at = "idle"
                    /\ k.pc[j].at = "reset" => \A t \in Txid : k.entries[t] = "none"
  BY DEF ClearsAlone
<1>1. j = h
  BY DEF ClearsAlone
<1> QED
  BY <1>1 DEF ClearsAlone

LEMMA CountsMove ==
  ASSUME NEW g, NEW k, PiShape(g), PiShape(k), CountsDue(g), NEW h \in Client, NEW t,
         SameOthers(g, k, h), SameEntries(g, k, t),
         ~k.raced => ~g.raced, ~k.dirty => ~g.dirty, g.pc[h].at # "reset",
         CountsShift(g, k, h, t)
  PROVE  CountsDue(k)
<1> SUFFICES ASSUME ~k.raced, NEW s \in IndexStatus
             PROVE  Due(k, s) >= Had(k, s) /\ (~k.dirty /\ NoReset(k) => Due(k, s) = Had(k, s))
  BY DEF CountsDue
<1>1. Due(g, s) >= Had(g, s) /\ (~g.dirty /\ NoReset(g) => Due(g, s) = Had(g, s))
  BY DEF CountsDue
<1>2. NoReset(k) => NoReset(g)
  BY DEF NoReset, SameOthers
<1>0. Numbers(g, k, h, t, s)
  BY NumbersMove DEF SameOthers, SameEntries
<1>3. PICK a, b, c \in Nat :
           /\ Cardinality(Adding(g, s)) = a + One(WillAdd(g.pc[h], s))
           /\ Cardinality(Adding(k, s)) = a + One(WillAdd(k.pc[h], s))
           /\ Cardinality(Taking(g, s)) = b + One(WillTake(g.pc[h], s))
           /\ Cardinality(Taking(k, s)) = b + One(WillTake(k.pc[h], s))
           /\ Cardinality(HavingIn(g, s)) = c + One(t \in Txid /\ g.entries[t] = s)
           /\ Cardinality(HavingIn(k, s)) = c + One(t \in Txid /\ k.entries[t] = s)
  BY <1>0 DEF Numbers
<1> DEFINE ag == One(WillAdd(g.pc[h], s))
           ak == One(WillAdd(k.pc[h], s))
           bg == One(WillTake(g.pc[h], s))
           bk == One(WillTake(k.pc[h], s))
           cg == One(t \in Txid /\ g.entries[t] = s)
           ck == One(t \in Txid /\ k.entries[t] = s)
           ng == g.count[s]
           nk == k.count[s]
<1>4. ag \in Nat /\ ak \in Nat /\ bg \in Nat /\ bk \in Nat /\ cg \in Nat /\ ck \in Nat
  BY DEF One
<1>5. ng \in Nat /\ nk \in Nat
  BY DEF PiShape
<1>6. nk + ak + cg + bg >= ng + ag + ck + bk /\ (~k.dirty => nk + ak + cg + bg = ng + ag + ck + bk)
  BY DEF CountsShift
<1>7. Due(g, s) = ng + (a + ag) /\ Had(g, s) = (c + cg) + (b + bg) /\ Due(k, s) = nk + (a + ak) /\ Had(k, s) = (c + ck) + (b + bk)
  BY <1>3 DEF Due, Had
<1> HIDE DEF ag, ak, bg, bk, cg, ck, ng, nk
<1>8. Due(k, s) >= Had(k, s)
  BY <1>1, <1>4, <1>5, <1>6, <1>7
<1>9. ASSUME ~k.dirty, NoReset(k) PROVE Due(k, s) = Had(k, s)
  <2>1. Due(g, s) = Had(g, s)
    BY <1>1, <1>2, <1>9
  <2>2. nk + ak + cg + bg = ng + ag + ck + bk
    BY <1>6, <1>9
  <2> QED
    BY <1>4, <1>5, <1>7, <2>1, <2>2
<1> QED
  BY <1>8, <1>9

\* a step that is no clear: what it does to the thread, an entry and the counts
LEMMA StepKeeps ==
  ASSUME NEW g, NEW k, PiInv(g), PiShape(k), NEW h \in Client, NEW t, g.pc[h].at \notin {"idle", "clear", "reset"},
         k.pc[h].at \notin {"clear", "reset"}, k.raced = g.raced, ~k.dirty => ~g.dirty,
         SameOthers(g, k, h), SameEntries(g, k, t), LockShift(g, k, h), RoomKept(k), CountsShift(g, k, h, t)
  PROVE  PiInv(k)
<1>1. LocksHeld(k)
  BY LocksMove DEF PiInv
<1>2. ~k.raced => ClearsAlone(k)
  BY ClearsMove DEF PiInv
<1>3. CountsDue(k)
  <2>1. PiShape(g) /\ CountsDue(g) /\ (~k.raced => ~g.raced) /\ g.pc[h].at # "reset"
    BY DEF PiInv
  <2> QED
    BY <2>1, CountsMove
<1> QED
  BY <1>1, <1>2, <1>3 DEF PiInv

\* what moving and finishing leave alone
SameIndex(g, k) == k.entries = g.entries /\ k.count = g.count /\ k.shard = g.shard /\ k.stats = g.stats /\ k.dirty = g.dirty /\ k.raced = g.raced

LEMMA MoveFacts ==
  ASSUME NEW g, PiShape(g), NEW h \in Client, NEW step \in CallSteps, step \in NamingSteps => g.pc[h].tx \in Txid
  PROVE  LET k == MoveTo(g, h, step)
         IN  /\ PiShape(k) /\ SameIndex(g, k) /\ SameOthers(g, k, h)
             /\ k.pc[h].at = step /\ k.pc[h].tx = g.pc[h].tx /\ k.pc[h].st = g.pc[h].st /\ k.pc[h].old = g.pc[h].old
<1> DEFINE k == MoveTo(g, h, step)
<1>2. g.pc[h] \in IndexCalls
  BY DEF PiShape
<1>3. [g.pc[h] EXCEPT !.at = step] \in IndexCalls
  BY <1>2 DEF IndexCalls
<1>4. k.pc = [g.pc EXCEPT ![h] = [@ EXCEPT !.at = step]] /\ SameIndex(g, k) /\ k.calls = g.calls /\ DOMAIN k = DOMAIN g
  BY DEF MoveTo, PiShape, SameIndex
<1>5. k.pc \in [Client -> IndexCalls] /\ k.pc[h] = [g.pc[h] EXCEPT !.at = step] /\ SameOthers(g, k, h)
  BY <1>3, <1>4 DEF PiShape, SameOthers
<1>6. k.pc[h].at = step /\ k.pc[h].tx = g.pc[h].tx /\ k.pc[h].st = g.pc[h].st /\ k.pc[h].old = g.pc[h].old
  BY <1>2, <1>5 DEF IndexCalls
<1>7. \A j \in Client : k.pc[j].at \in NamingSteps => k.pc[j].tx \in Txid
  BY <1>5, <1>6 DEF PiShape, SameOthers
<1>8. PiShape(k)
  BY <1>4, <1>5, <1>7 DEF PiShape, SameIndex
<1> HIDE DEF k
<1> QED
  BY <1>4, <1>5, <1>6, <1>8 DEF k

LEMMA SetCallFacts ==
  ASSUME NEW g, PiShape(g), NEW h \in Client, NEW c \in IndexCalls, c.at \in NamingSteps => c.tx \in Txid
  PROVE  LET k == [g EXCEPT !.pc[h] = c] IN PiShape(k) /\ SameIndex(g, k) /\ SameOthers(g, k, h) /\ k.pc[h] = c
<1> DEFINE k == [g EXCEPT !.pc[h] = c]
<1>1. k.pc = [g.pc EXCEPT ![h] = c] /\ SameIndex(g, k) /\ k.calls = g.calls /\ DOMAIN k = DOMAIN g
  BY DEF PiShape, SameIndex
<1>2. k.pc \in [Client -> IndexCalls] /\ k.pc[h] = c /\ SameOthers(g, k, h)
  BY <1>1 DEF PiShape, SameOthers
<1>3. \A j \in Client : k.pc[j].at \in NamingSteps => k.pc[j].tx \in Txid
  BY <1>2 DEF PiShape, SameOthers
<1>4. PiShape(k)
  BY <1>1, <1>2, <1>3 DEF PiShape, SameIndex
<1> HIDE DEF k
<1> QED
  BY <1>1, <1>2, <1>4 DEF k

LEMMA NotCallingTyped == NotCalling \in IndexCalls /\ NotCalling.at = "idle"
  BY DEF NotCalling, IndexCalls, CallSteps, IndexStatus

LEMMA CallForTyped ==
  ASSUME NEW step \in CallSteps, NEW t \in Txid \union {0}, NEW st \in IndexStatus, NEW todo \in Seq(Txid)
  PROVE  /\ CallFor(step, t, st, todo) \in IndexCalls
         /\ CallFor(step, t, st, todo).at = step /\ CallFor(step, t, st, todo).tx = t
  BY NotCallingTyped DEF CallFor, NotCalling, IndexCalls, IndexStatus

LEMMA FinishFacts ==
  ASSUME NEW g, PiShape(g), NEW h \in Client
  PROVE  LET k == Finish(g, h)
         IN PiShape(k) /\ SameIndex(g, k) /\ SameOthers(g, k, h) /\ k.pc[h].at \in {"idle", "remove"}
<1> DEFINE todo == g.pc[h].todo
           next == [NotCalling EXCEPT !.at = "remove", !.tx = Head(todo), !.todo = Tail(todo)]
<1>1. todo \in Seq(Txid)
  BY DEF PiShape, IndexCalls
<1>2. CASE todo = <<>>
  <2>1. Finish(g, h) = [g EXCEPT !.pc[h] = NotCalling]
    BY <1>2 DEF Finish
  <2>2. NotCalling.at \notin NamingSteps
    BY NotCallingTyped DEF NamingSteps
  <2> QED
    BY <2>1, <2>2, NotCallingTyped, SetCallFacts
<1>3. CASE todo # <<>>
  <2>1. Finish(g, h) = [g EXCEPT !.pc[h] = next]
    BY <1>3 DEF Finish
  <2>2. Head(todo) \in Txid /\ Tail(todo) \in Seq(Txid)
    BY <1>1, <1>3
  <2>3. next \in IndexCalls /\ next.at = "remove" /\ next.tx \in Txid
    BY <2>2 DEF NotCalling, IndexCalls, CallSteps, IndexStatus, AsksShard
  <2> HIDE DEF next
  <2>4. LET k == [g EXCEPT !.pc[h] = next] IN PiShape(k) /\ SameIndex(g, k) /\ SameOthers(g, k, h) /\ k.pc[h] = next
    BY <2>3, SetCallFacts
  <2> QED
    BY <2>1, <2>3, <2>4
<1> QED
  BY <1>2, <1>3

LEMMA PiStarts ==
  ASSUME PiInit
  PROVE  PiInv(pi)
<1>1. NotCalling \in IndexCalls /\ NotCalling.at = "idle"
  BY NotCallingTyped
<1>2. \A h \in Client : pi.pc[h] = NotCalling
  BY DEF PiInit
<1>3. PiShape(pi)
  BY <1>1 DEF PiInit, PiShape, EmptyIndex, NoCounts, NamingSteps
<1>4. \A h \in Client : pi.pc[h].at = "idle"
  BY <1>1, <1>2
<1>5. LocksHeld(pi)
  BY <1>4 DEF LocksHeld, PiInit, HeldSteps
<1>6. Entered(pi) = {} /\ PastCheck(pi) = {}
  BY <1>4 DEF Entered, PastCheck, PiInit, EmptyIndex
<1>7. Cardinality(Client) \in Nat /\ Cardinality(Client) # 0 /\ MaxEntries \in Nat
  BY IndexAssumption, FS_CardinalityType, FS_EmptySet
<1>8. RoomKept(pi)
  BY <1>6, <1>7, FS_EmptySet DEF RoomKept
<1>9. ClearsAlone(pi)
  BY <1>4 DEF ClearsAlone
<1>10. CountsDue(pi)
  <2>1. ASSUME NEW s \in IndexStatus PROVE Adding(pi, s) = {} /\ Taking(pi, s) = {} /\ HavingIn(pi, s) = {} /\ pi.count[s] = 0
    <3>1. Adding(pi, s) = {} /\ Taking(pi, s) = {}
      BY <1>4 DEF Adding, Taking, WillAdd, WillTake
    <3>2. HavingIn(pi, s) = {} /\ pi.count[s] = 0
      BY DEF HavingIn, PiInit, EmptyIndex, NoCounts, IndexStatus
    <3> QED
      BY <3>1, <3>2
  <2> QED
    BY <2>1, FS_EmptySet DEF CountsDue, Due, Had
<1> QED
  BY <1>3, <1>5, <1>8, <1>9, <1>10 DEF PiInv

\* a new call
LEMMA StartKeeps ==
  ASSUME PiInv(pi), NEW h \in Client, NEW c \in IndexCalls, StartCall(h, c), c.at \in {"insert", "update", "remove", "clear", "verify"},
         c.at \in NamingSteps => c.tx \in Txid
  PROVE  PiInv(pi')
<1> DEFINE g == pi
           k == pi'
           m == [g EXCEPT !.pc[h] = c]
<1>1. PiShape(g)
  BY DEF PiInv
<1>2. PiShape(m) /\ SameIndex(g, m) /\ SameOthers(g, m, h) /\ m.pc[h] = c
  BY <1>1, SetCallFacts
<1>3. /\ DOMAIN k = DOMAIN g /\ k.pc = m.pc /\ k.entries = g.entries /\ k.count = g.count /\ k.shard = g.shard /\ k.stats = g.stats
      /\ k.dirty = g.dirty /\ k.raced = (g.raced \/ Races(h, c.at)) /\ k.calls = g.calls + 1 /\ g.pc[h].at = "idle"
  BY <1>1 DEF StartCall, PiShape
<1>4. g.raced \in BOOLEAN /\ g.calls \in Nat
  BY <1>1 DEF PiShape
<1>5. k.raced \in BOOLEAN /\ k.calls \in Nat
  BY <1>3, <1>4
<1>6. PiShape(k)
  BY <1>1, <1>2, <1>3, <1>5 DEF PiShape
<1>7. SameOthers(g, k, h) /\ k.pc[h] = c
  BY <1>2, <1>3 DEF SameOthers
<1> HIDE DEF m
<1>8. LocksHeld(k)
  <2>1. k.pc[h].at \notin HeldSteps /\ k.pc[h].at # "recount"
    BY <1>7 DEF HeldSteps
  <2>2. h \notin g.stats
    BY <1>3 DEF PiInv, LocksHeld, HeldSteps
  <2>3. LocksHeld(g)
    BY DEF PiInv
  <2>4. /\ k.stats = IF k.pc[h].at \in HeldSteps THEN {h} ELSE g.stats \ {h}
        /\ k.shard = IF k.pc[h].at = "recount" THEN g.shard \union {k.pc[h].tx}
                     ELSE IF g.pc[h].at = "recount" THEN g.shard \ {g.pc[h].tx} ELSE g.shard
    BY <1>3, <2>1, <2>2
  <2> HIDE DEF g, k
  <2> QED
    BY <1>1, <1>6, <1>7, <2>1, <2>3, <2>4, LocksMove DEF LockShift
<1>9. RoomKept(k)
  <2>1. RoomKept(g) /\ k.pc[h].at # "put"
    BY <1>7 DEF PiInv
  <2> QED
    BY <1>3, <1>7, <2>1, RoomMove DEF SameEntries
<1>10. ASSUME ~k.raced PROVE ClearsAlone(k)
  <2>1. ~Races(h, c.at) /\ ~g.raced
    BY <1>3, <1>10
  <2>2. \A j \in Client : g.pc[j].at \notin {"clear", "reset"}
    BY <2>1 DEF Races, Clears
  <2>3. c.at = "clear" => \A j \in Client \ {h} : g.pc[j].at = "idle"
    BY <2>1 DEF Races
  <2> QED
    BY <1>7, <2>2, <2>3 DEF ClearsAlone, SameOthers
<1>11. CountsDue(k)
  <2>1. \A s \in IndexStatus : ~WillAdd(g.pc[h], s) /\ ~WillAdd(k.pc[h], s) /\ ~WillTake(g.pc[h], s) /\ ~WillTake(k.pc[h], s)
    BY <1>3, <1>7 DEF WillAdd, WillTake
  <2>2. CountsDue(g) /\ (~k.raced => ~g.raced) /\ g.pc[h].at # "reset"
    BY <1>3 DEF PiInv
  <2>3. CountsShift(g, k, h, 0)
    <3> SUFFICES ASSUME NEW s \in IndexStatus
                 PROVE  LET before == g.count[s] + One(WillAdd(g.pc[h], s)) + One(0 \in Txid /\ k.entries[0] = s) + One(WillTake(k.pc[h], s))
                            after == k.count[s] + One(WillAdd(k.pc[h], s)) + One(0 \in Txid /\ g.entries[0] = s) + One(WillTake(g.pc[h], s))
                        IN  after >= before /\ (~k.dirty => after = before)
      BY DEF CountsShift
    <3>1. g.count[s] \in Nat /\ k.count[s] = g.count[s]
      BY <1>1, <1>3 DEF PiShape
    <3> QED
      BY <1>3, <2>1, <3>1 DEF One
  <2> QED
    BY <1>1, <1>3, <1>6, <1>7, <2>2, <2>3, CountsMove DEF SameEntries
<1> QED
  BY <1>6, <1>8, <1>9, <1>10, <1>11 DEF PiInv

\* nothing is counted, entered or taken out
LEMMA ShiftSame ==
  ASSUME NEW g, NEW k, PiShape(g), NEW h \in Client, NEW t, k.count = g.count, k.entries = g.entries,
         \A s \in IndexStatus : (WillAdd(g.pc[h], s) <=> WillAdd(k.pc[h], s)) /\ (WillTake(g.pc[h], s) <=> WillTake(k.pc[h], s))
  PROVE  CountsShift(g, k, h, t)
<1> SUFFICES ASSUME NEW s \in IndexStatus
             PROVE  LET before == g.count[s] + One(WillAdd(g.pc[h], s)) + One(t \in Txid /\ k.entries[t] = s) + One(WillTake(k.pc[h], s))
                        after == k.count[s] + One(WillAdd(k.pc[h], s)) + One(t \in Txid /\ g.entries[t] = s) + One(WillTake(g.pc[h], s))
                    IN  after >= before /\ (~k.dirty => after = before)
  BY DEF CountsShift
<1>1. g.count[s] \in Nat /\ k.count[s] = g.count[s]
  BY DEF PiShape
<1>2. /\ One(WillAdd(g.pc[h], s)) = One(WillAdd(k.pc[h], s)) /\ One(WillTake(g.pc[h], s)) = One(WillTake(k.pc[h], s))
      /\ One(t \in Txid /\ k.entries[t] = s) = One(t \in Txid /\ g.entries[t] = s)
  BY DEF One
<1>3. /\ One(WillAdd(g.pc[h], s)) \in Nat /\ One(WillTake(g.pc[h], s)) \in Nat /\ One(t \in Txid /\ g.entries[t] = s) \in Nat
  BY DEF One
<1> QED
  BY <1>1, <1>2, <1>3

\* a call that returns, or moves on to its next removal, has nothing left to count
LEMMA NothingDue ==
  ASSUME NEW c, c.at \in {"idle", "remove", "insert", "put", "update", "verify", "verify_held", "clear", "reset"}
  PROVE  \A s : ~WillAdd(c, s) /\ ~WillTake(c, s)
  BY DEF WillAdd, WillTake

LEMMA CheckKeeps ==
  ASSUME PiInv(pi), NEW h \in Client, InsertCheck(h)
  PROVE  PiInv(pi')
<1> DEFINE g == pi
           k == pi'
<1>1. PiShape(g) /\ g.pc[h].at = "insert" /\ h \notin g.stats /\ g.pc[h].tx \in Txid
  BY DEF PiInv, PiShape, InsertCheck, Reaches, LocksHeld, HeldSteps, NamingSteps
<1>2. "put" \in CallSteps
  BY DEF CallSteps, AsksShard
<1>3. PiShape(k) /\ SameIndex(g, k) /\ SameOthers(g, k, h) /\ k.pc[h].at \in {"idle", "remove", "put"}
  <2>1. CASE Cardinality(Entered(pi)) >= MaxEntries
    BY <1>1, <2>1, FinishFacts DEF InsertCheck
  <2>2. CASE ~(Cardinality(Entered(pi)) >= MaxEntries)
    <3>1. k = MoveTo(g, h, "put")
      BY <2>2 DEF InsertCheck
    <3> HIDE DEF g, k
    <3> QED
      BY <1>1, <1>2, <3>1, MoveFacts
  <2> QED
    BY <2>1, <2>2
<1>4. k.pc[h].at = "put" => ~(Cardinality(Entered(pi)) >= MaxEntries)
  BY <1>1, FinishFacts DEF InsertCheck
<1>5. RoomKept(k)
  <2>1. CASE k.pc[h].at = "put"
    <3>1. Entered(k) = Entered(g) /\ IsFiniteSet(Entered(g))
      BY <1>3, IndexAssumption, FS_Subset DEF SameIndex, Entered
    <3>2. PastCheck(k) \subseteq Client
      BY DEF PastCheck
    <3>3. Cardinality(PastCheck(k)) <= Cardinality(Client) /\ Cardinality(PastCheck(k)) \in Nat /\ Cardinality(Client) \in Nat
      BY <3>2, IndexAssumption, FS_Subset, FS_CardinalityType
    <3>4. Cardinality(Entered(g)) \in Nat /\ MaxEntries \in Nat
      BY <3>1, IndexAssumption, FS_CardinalityType
    <3> QED
      BY <1>4, <2>1, <3>1, <3>3, <3>4 DEF RoomKept
  <2>2. CASE k.pc[h].at # "put"
    <3>1. RoomKept(g) /\ k.entries = g.entries /\ SameEntries(g, k, 0)
      BY <1>3 DEF PiInv, SameIndex, SameEntries
    <3> HIDE DEF g, k
    <3> QED
      BY <1>3, <2>2, <3>1, RoomMove
  <2> QED
    BY <2>1, <2>2
<1>6. CountsShift(g, k, h, 0)
  <2>1. k.count = g.count /\ k.entries = g.entries
    BY <1>3 DEF SameIndex
  <2>2. \A s : ~WillAdd(g.pc[h], s) /\ ~WillTake(g.pc[h], s) /\ ~WillAdd(k.pc[h], s) /\ ~WillTake(k.pc[h], s)
    BY <1>1, <1>3, NothingDue
  <2> HIDE DEF g, k
  <2> QED
    BY <1>1, <2>1, <2>2, ShiftSame
<1> QED
  <2>1. PiInv(g) /\ k.raced = g.raced /\ k.dirty = g.dirty /\ SameEntries(g, k, 0)
    BY <1>1, <1>3 DEF SameIndex, SameEntries
  <2>2. LockShift(g, k, h)
    BY <1>1, <1>3 DEF LockShift, HeldSteps, SameIndex
  <2>3. (~k.dirty => ~g.dirty) /\ g.pc[h].at \notin {"idle", "clear", "reset"} /\ k.pc[h].at \notin {"clear", "reset"}
    BY <1>1, <1>3, <2>1
  <2> HIDE DEF g, k
  <2>4. PiInv(k)
    BY <1>3, <1>5, <1>6, <2>1, <2>2, <2>3, StepKeeps
  <2> QED
    BY <2>4 DEF k

\* a step that lets nobody past the size check
LEMMA StepMoves ==
  ASSUME NEW g, NEW k, PiInv(g), PiShape(k), NEW h \in Client, NEW t, g.pc[h].at \notin {"idle", "clear", "reset"},
         k.pc[h].at \notin {"clear", "reset", "put"}, k.raced = g.raced, ~k.dirty => ~g.dirty,
         SameOthers(g, k, h), SameEntries(g, k, t), LockShift(g, k, h), CountsShift(g, k, h, t),
         t \in Txid /\ k.entries[t] # "none" => g.entries[t] # "none" \/ g.pc[h].at = "put"
  PROVE  PiInv(k)
<1>1. RoomKept(g)
  BY DEF PiInv
<1>2. RoomKept(k)
  BY <1>1, RoomMove
<1> QED
  BY <1>2, StepKeeps

\* taking the counts, and what holds them
LEMMA StatsFacts ==
  ASSUME PiInv(pi), NEW h \in Client
  PROVE  /\ PiShape(pi) /\ (pi.pc[h].at \in HeldSteps => pi.stats = {h})
         /\ (pi.pc[h].at \notin HeldSteps => h \notin pi.stats)
  BY DEF PiInv, LocksHeld

LEMMA TakeStatsKeeps ==
  ASSUME PiInv(pi), NEW h \in Client, NEW step \in DOMAIN WithStats, TakeStats(h, step)
  PROVE  PiInv(pi')
<1> DEFINE g == pi
           m == [pi EXCEPT !.stats = {h}]
           k == pi'
<1>1. PiShape(g) /\ g.pc[h].at = step /\ g.stats = {} /\ step \in {"counts", "uncount", "verify"}
  BY StatsFacts DEF TakeStats, Reaches, Waits, AsksStats, WithStats
<1>2. PiShape(m) /\ SameOthers(g, m, h) /\ m.pc = g.pc /\ m.stats = {h} /\ m.entries = g.entries /\ m.count = g.count /\ m.shard = g.shard
      /\ m.dirty = g.dirty /\ m.raced = g.raced
  BY <1>1 DEF PiShape, SameOthers
<1>3. WithStats[step] \in HeldSteps /\ WithStats[step] \notin NamingSteps /\ WithStats[step] \in CallSteps
  BY <1>1 DEF WithStats, HeldSteps, NamingSteps, CallSteps, AsksAllShards
<1>4. k = MoveTo(m, h, WithStats[step])
  BY DEF TakeStats
<1> HIDE DEF m
<1>5. /\ PiShape(k) /\ SameIndex(m, k) /\ SameOthers(m, k, h)
      /\ k.pc[h].at = WithStats[step] /\ k.pc[h].tx = m.pc[h].tx /\ k.pc[h].st = m.pc[h].st /\ k.pc[h].old = m.pc[h].old
  BY <1>2, <1>3, <1>4, MoveFacts
<1>6. SameOthers(g, k, h) /\ SameEntries(g, k, 0) /\ k.raced = g.raced /\ k.dirty = g.dirty /\ k.entries = g.entries /\ k.count = g.count
  BY <1>2, <1>5 DEF SameIndex, SameOthers, SameEntries
<1>7. LockShift(g, k, h)
  BY <1>1, <1>2, <1>3, <1>5 DEF LockShift, SameIndex, HeldSteps
<1>8. \A s \in IndexStatus : (WillAdd(g.pc[h], s) <=> WillAdd(k.pc[h], s)) /\ (WillTake(g.pc[h], s) <=> WillTake(k.pc[h], s))
  BY <1>1, <1>2, <1>3, <1>5 DEF WillAdd, WillTake, WithStats, HeldSteps
<1>9. CountsShift(g, k, h, 0)
  <2> HIDE DEF g, k
  <2> QED
    BY <1>1, <1>6, <1>8, ShiftSame
<1>10. /\ g.pc[h].at \notin {"idle", "clear", "reset"} /\ k.pc[h].at \notin {"clear", "reset", "put"} /\ (~k.dirty => ~g.dirty)
       /\ PiInv(g) /\ (0 \in Txid /\ k.entries[0] # "none" => g.entries[0] # "none" \/ g.pc[h].at = "put")
  BY <1>1, <1>3, <1>5, <1>6 DEF HeldSteps
<1> HIDE DEF g, k
<1>11. PiInv(k)
  BY <1>5, <1>6, <1>7, <1>9, <1>10, StepMoves
<1> QED
  BY <1>11 DEF k

\* a step that ends a call, or its part for one transaction: what is left to be counted is counted
CountedNow(g, m, h) ==
  \A s \in IndexStatus : /\ m.count[s] + One(WillTake(g.pc[h], s)) >= g.count[s] + One(WillAdd(g.pc[h], s))
                         /\ ~m.dirty => m.count[s] + One(WillTake(g.pc[h], s)) = g.count[s] + One(WillAdd(g.pc[h], s))
LEMMA FinishKeeps ==
  ASSUME NEW g, NEW m, NEW k, NEW h \in Client, PiInv(g), PiShape(m), k = Finish(m, h), g.pc[h].at \notin {"idle", "clear", "reset"},
         m.pc = g.pc, m.entries = g.entries, m.raced = g.raced, ~m.dirty => ~g.dirty,
         m.stats = g.stats \ {h}, m.shard = IF g.pc[h].at = "recount" THEN g.shard \ {g.pc[h].tx} ELSE g.shard,
         CountedNow(g, m, h)
  PROVE  PiInv(k)
<1>1. PiShape(k) /\ SameIndex(m, k) /\ SameOthers(m, k, h) /\ k.pc[h].at \in {"idle", "remove"}
  BY FinishFacts
<1>2. SameOthers(g, k, h) /\ SameEntries(g, k, 0) /\ k.raced = g.raced /\ (~k.dirty => ~g.dirty) /\ k.entries = g.entries
  BY <1>1 DEF SameIndex, SameOthers, SameEntries
<1>3. LockShift(g, k, h)
  BY <1>1 DEF LockShift, SameIndex, HeldSteps
<1>4. CountsShift(g, k, h, 0)
  <2> SUFFICES ASSUME NEW s \in IndexStatus
               PROVE  LET before == g.count[s] + One(WillAdd(g.pc[h], s)) + One(0 \in Txid /\ k.entries[0] = s) + One(WillTake(k.pc[h], s))
                          after == k.count[s] + One(WillAdd(k.pc[h], s)) + One(0 \in Txid /\ g.entries[0] = s) + One(WillTake(g.pc[h], s))
                      IN  after >= before /\ (~k.dirty => after = before)
    BY DEF CountsShift
  <2>1. ~WillAdd(k.pc[h], s) /\ ~WillTake(k.pc[h], s)
    BY <1>1, NothingDue
  <2>2. g.count[s] \in Nat /\ m.count[s] \in Nat /\ k.count[s] = m.count[s] /\ k.dirty = m.dirty
    BY <1>1 DEF PiInv, PiShape, SameIndex
  <2>3. One(WillAdd(k.pc[h], s)) = 0 /\ One(WillTake(k.pc[h], s)) = 0
    BY <2>1 DEF One
  <2>4. One(0 \in Txid /\ k.entries[0] = s) = One(0 \in Txid /\ g.entries[0] = s) /\ One(0 \in Txid /\ g.entries[0] = s) \in Nat
    BY <1>2 DEF One
  <2>5. One(WillAdd(g.pc[h], s)) \in Nat /\ One(WillTake(g.pc[h], s)) \in Nat
    BY DEF One
  <2>6. /\ m.count[s] + One(WillTake(g.pc[h], s)) >= g.count[s] + One(WillAdd(g.pc[h], s))
        /\ ~m.dirty => m.count[s] + One(WillTake(g.pc[h], s)) = g.count[s] + One(WillAdd(g.pc[h], s))
    BY DEF CountedNow
  <2> QED
    BY <2>2, <2>3, <2>4, <2>5, <2>6
<1>5. k.pc[h].at \notin {"clear", "reset", "put"} /\ (0 \in Txid /\ k.entries[0] # "none" => g.entries[0] # "none" \/ g.pc[h].at = "put")
  BY <1>1, <1>2
<1> QED
  BY <1>1, <1>2, <1>3, <1>4, <1>5, StepMoves

LEMMA InsertStatsKeeps ==
  ASSUME PiInv(pi), NEW h \in Client, InsertStats(h)
  PROVE  PiInv(pi')
<1> DEFINE m == [pi EXCEPT !.count["Pending"] = @ + 1, !.stats = {}]
<1>1. PiShape(pi) /\ pi.pc[h].at = "counts_held" /\ pi.stats = {h}
  BY StatsFacts DEF InsertStats, Reaches, HeldSteps
<1>2. pi.count["Pending"] \in Nat /\ "Pending" \in IndexStatus
  BY <1>1 DEF PiShape, IndexStatus
<1>3. /\ PiShape(m) /\ m.pc = pi.pc /\ m.entries = pi.entries /\ m.raced = pi.raced /\ m.dirty = pi.dirty /\ m.stats = {} /\ m.shard = pi.shard
      /\ \A s \in IndexStatus : m.count[s] = pi.count[s] + One(s = "Pending")
  <2>1. m.count = [pi.count EXCEPT !["Pending"] = @ + 1] /\ m.count \in [IndexStatus -> Nat]
    BY <1>1, <1>2 DEF PiShape
  <2>2. \A s \in IndexStatus : m.count[s] = pi.count[s] + One(s = "Pending")
    BY <1>1, <2>1 DEF PiShape, One
  <2> QED
    BY <1>1, <2>1, <2>2 DEF PiShape
<1>4. pi' = Finish(m, h)
  BY DEF InsertStats
<1> HIDE DEF m
<1>5. ASSUME NEW s \in IndexStatus
      PROVE  m.count[s] + One(WillTake(pi.pc[h], s)) = pi.count[s] + One(WillAdd(pi.pc[h], s))
  <2>1. pi.count[s] \in Nat
    BY <1>1 DEF PiShape
  <2> QED
    BY <1>1, <1>3, <2>1 DEF One, WillAdd, WillTake
<1>6. \A s \in IndexStatus : m.count[s] \in Nat /\ One(WillTake(pi.pc[h], s)) \in Nat
  BY <1>3 DEF PiShape, One
<1>7. CountedNow(pi, m, h)
  BY <1>5, <1>6 DEF CountedNow
<1>8. /\ pi.pc[h].at \notin {"idle", "clear", "reset"} /\ (~m.dirty => ~pi.dirty) /\ m.stats = pi.stats \ {h}
      /\ m.shard = IF pi.pc[h].at = "recount" THEN pi.shard \ {pi.pc[h].tx} ELSE pi.shard
  BY <1>1, <1>3
<1> QED
  BY <1>3, <1>4, <1>7, <1>8, FinishKeeps

\* what a decrement leaves
LEMMA DecrementFacts ==
  ASSUME NEW g, PiShape(g), NEW s \in IndexStatus
  PROVE  LET d == Decrement(g, s)
         IN  /\ PiShape(d) /\ d.pc = g.pc /\ d.entries = g.entries /\ d.raced = g.raced /\ d.stats = g.stats /\ d.shard = g.shard /\ d.calls = g.calls
             /\ ~d.dirty => ~g.dirty
             /\ \A u \in IndexStatus : /\ d.count[u] + One(u = s) >= g.count[u]
                                       /\ ~d.dirty => d.count[u] + One(u = s) = g.count[u]
<1> DEFINE d == Decrement(g, s)
<1>1. g.count \in [IndexStatus -> Nat] /\ g.dirty \in BOOLEAN
  BY DEF PiShape
<1>2. /\ DOMAIN d = DOMAIN g /\ d.pc = g.pc /\ d.entries = g.entries /\ d.raced = g.raced /\ d.stats = g.stats /\ d.shard = g.shard /\ d.calls = g.calls
      /\ d.count = [g.count EXCEPT ![s] = IF @ = 0 THEN 0 ELSE @ - 1] /\ d.dirty = (g.dirty \/ g.count[s] = 0)
  BY DEF Decrement, PiShape
<1>3. d.count \in [IndexStatus -> Nat] /\ d.dirty \in BOOLEAN
  BY <1>1, <1>2
<1>4. PiShape(d)
  BY <1>2, <1>3 DEF PiShape
<1>5. ASSUME NEW u \in IndexStatus
      PROVE  d.count[u] + One(u = s) >= g.count[u] /\ (~d.dirty => d.count[u] + One(u = s) = g.count[u])
  <2>1. CASE u # s
    <3>1. d.count[u] = g.count[u] /\ One(u = s) = 0 /\ g.count[u] \in Nat
      BY <1>1, <1>2, <2>1 DEF One
    <3> HIDE DEF d
    <3> QED
      BY <3>1
  <2>2. CASE u = s
    <3>1. d.count[s] = (IF g.count[s] = 0 THEN 0 ELSE g.count[s] - 1) /\ One(u = s) = 1 /\ g.count[s] \in Nat
      BY <1>1, <1>2, <2>2 DEF One
    <3>2. ~d.dirty => g.count[s] # 0
      BY <1>2
    <3> HIDE DEF d
    <3> QED
      BY <2>2, <3>1, <3>2
  <2> QED
    BY <2>1, <2>2
<1> HIDE DEF d
<1> QED
  BY <1>2, <1>4, <1>5 DEF d

LEMMA RemoveStatsKeeps ==
  ASSUME PiInv(pi), NEW h \in Client, RemoveStats(h)
  PROVE  PiInv(pi')
<1> DEFINE st == pi.pc[h].st
           d == Decrement(pi, st)
           m == [d EXCEPT !.stats = {}]
<1>1. PiShape(pi) /\ pi.pc[h].at = "uncount_held" /\ pi.stats = {h}
  BY StatsFacts DEF RemoveStats, Reaches, HeldSteps
<1>2. st \in IndexStatus
  BY <1>1 DEF PiShape, IndexCalls
<1>3. /\ PiShape(d) /\ d.pc = pi.pc /\ d.entries = pi.entries /\ d.raced = pi.raced /\ d.stats = pi.stats /\ d.shard = pi.shard
      /\ ~d.dirty => ~pi.dirty
      /\ \A u \in IndexStatus : /\ d.count[u] + One(u = st) >= pi.count[u]
                                /\ ~d.dirty => d.count[u] + One(u = st) = pi.count[u]
  BY <1>1, <1>2, DecrementFacts
<1>4. pi' = Finish(m, h)
  BY DEF RemoveStats
<1> HIDE DEF d
<1>5. PiShape(m) /\ m.pc = d.pc /\ m.entries = d.entries /\ m.raced = d.raced /\ m.dirty = d.dirty /\ m.stats = {} /\ m.shard = d.shard /\ m.count = d.count
  BY <1>3 DEF PiShape
<1> HIDE DEF m
<1>6. ASSUME NEW s \in IndexStatus
      PROVE  One(WillTake(pi.pc[h], s)) = One(s = st) /\ One(WillAdd(pi.pc[h], s)) = 0 /\ pi.count[s] \in Nat
  BY <1>1 DEF One, WillAdd, WillTake, PiShape
<1>7. CountedNow(pi, m, h)
  <2> SUFFICES ASSUME NEW s \in IndexStatus
               PROVE  /\ m.count[s] + One(WillTake(pi.pc[h], s)) >= pi.count[s] + One(WillAdd(pi.pc[h], s))
                      /\ ~m.dirty => m.count[s] + One(WillTake(pi.pc[h], s)) = pi.count[s] + One(WillAdd(pi.pc[h], s))
    BY DEF CountedNow
  <2>1. d.count[s] + One(s = st) >= pi.count[s] /\ (~d.dirty => d.count[s] + One(s = st) = pi.count[s])
    BY <1>3
  <2> QED
    BY <1>5, <1>6, <2>1
<1>8. /\ pi.pc[h].at \notin {"idle", "clear", "reset"} /\ (~m.dirty => ~pi.dirty) /\ m.stats = pi.stats \ {h}
      /\ m.shard = IF pi.pc[h].at = "recount" THEN pi.shard \ {pi.pc[h].tx} ELSE pi.shard
      /\ m.pc = pi.pc /\ m.entries = pi.entries /\ m.raced = pi.raced
  BY <1>1, <1>3, <1>5
<1> QED
  BY <1>4, <1>5, <1>7, <1>8, FinishKeeps

LEMMA UpdateStatsKeeps ==
  ASSUME PiInv(pi), NEW h \in Client, UpdateStats(h)
  PROVE  PiInv(pi')
<1> DEFINE st == pi.pc[h].st
           old == pi.pc[h].old
           d == Decrement(pi, old)
           m == [d EXCEPT !.count[st] = @ + 1, !.shard = @ \ {pi.pc[h].tx}]
<1>1. PiShape(pi) /\ pi.pc[h].at = "recount" /\ h \notin pi.stats
  BY StatsFacts DEF UpdateStats, Reaches, HeldSteps
<1>2. st \in IndexStatus /\ old \in IndexStatus
  BY <1>1 DEF PiShape, IndexCalls
<1>3. /\ PiShape(d) /\ d.pc = pi.pc /\ d.entries = pi.entries /\ d.raced = pi.raced /\ d.stats = pi.stats /\ d.shard = pi.shard
      /\ ~d.dirty => ~pi.dirty
      /\ \A u \in IndexStatus : /\ d.count[u] + One(u = old) >= pi.count[u]
                                /\ ~d.dirty => d.count[u] + One(u = old) = pi.count[u]
  BY <1>1, <1>2, DecrementFacts
<1>4. pi' = Finish(m, h)
  BY DEF UpdateStats
<1> HIDE DEF d
<1>5. /\ DOMAIN m = DOMAIN d /\ m.pc = d.pc /\ m.entries = d.entries /\ m.raced = d.raced /\ m.dirty = d.dirty /\ m.stats = d.stats /\ m.calls = d.calls
      /\ m.shard = d.shard \ {pi.pc[h].tx} /\ m.count = [d.count EXCEPT ![st] = @ + 1]
  BY <1>3 DEF PiShape
<1>6. d.count \in [IndexStatus -> Nat]
  BY <1>3 DEF PiShape
<1>7. m.count \in [IndexStatus -> Nat] /\ \A s \in IndexStatus : m.count[s] = d.count[s] + One(s = st) /\ d.count[s] \in Nat
  BY <1>2, <1>5, <1>6 DEF One
<1> HIDE DEF m
<1>8. PiShape(m)
  BY <1>3, <1>5, <1>7 DEF PiShape
<1>9. ASSUME NEW s \in IndexStatus
      PROVE  One(WillTake(pi.pc[h], s)) = One(s = old) /\ One(WillAdd(pi.pc[h], s)) = One(s = st) /\ pi.count[s] \in Nat
             /\ One(s = old) \in Nat /\ One(s = st) \in Nat
  BY <1>1 DEF One, WillAdd, WillTake, PiShape
<1>10. CountedNow(pi, m, h)
  <2> SUFFICES ASSUME NEW s \in IndexStatus
               PROVE  /\ m.count[s] + One(WillTake(pi.pc[h], s)) >= pi.count[s] + One(WillAdd(pi.pc[h], s))
                      /\ ~m.dirty => m.count[s] + One(WillTake(pi.pc[h], s)) = pi.count[s] + One(WillAdd(pi.pc[h], s))
    BY DEF CountedNow
  <2>1. d.count[s] + One(s = old) >= pi.count[s] /\ (~d.dirty => d.count[s] + One(s = old) = pi.count[s])
    BY <1>3
  <2> QED
    BY <1>5, <1>7, <1>9, <2>1
<1>11. /\ pi.pc[h].at \notin {"idle", "clear", "reset"} /\ (~m.dirty => ~pi.dirty) /\ m.stats = pi.stats \ {h}
       /\ m.shard = IF pi.pc[h].at = "recount" THEN pi.shard \ {pi.pc[h].tx} ELSE pi.shard
       /\ m.pc = pi.pc /\ m.entries = pi.entries /\ m.raced = pi.raced
  BY <1>1, <1>3, <1>5
<1> QED
  BY <1>4, <1>8, <1>10, <1>11, FinishKeeps

LEMMA VerifyKeeps ==
  ASSUME PiInv(pi), NEW h \in Client, VerifyConsistency(h)
  PROVE  PiInv(pi')
<1> DEFINE m == [pi EXCEPT !.stats = {}]
<1>1. PiShape(pi) /\ pi.pc[h].at = "verify_held" /\ pi.stats = {h}
  BY StatsFacts DEF VerifyConsistency, Reaches, HeldSteps
<1>2. PiShape(m) /\ m.pc = pi.pc /\ m.entries = pi.entries /\ m.raced = pi.raced /\ m.dirty = pi.dirty /\ m.stats = {} /\ m.shard = pi.shard /\ m.count = pi.count
  BY <1>1 DEF PiShape
<1>3. pi' = Finish(m, h)
  BY DEF VerifyConsistency
<1> HIDE DEF m
<1>4. CountedNow(pi, m, h)
  BY <1>1, <1>2 DEF CountedNow, One, WillAdd, WillTake, PiShape
<1>5. /\ pi.pc[h].at \notin {"idle", "clear", "reset"} /\ (~m.dirty => ~pi.dirty) /\ m.stats = pi.stats \ {h}
      /\ m.shard = IF pi.pc[h].at = "recount" THEN pi.shard \ {pi.pc[h].tx} ELSE pi.shard
  BY <1>1, <1>2
<1> QED
  BY <1>2, <1>3, <1>4, <1>5, FinishKeeps

LEMMA InsertMapKeeps ==
  ASSUME PiInv(pi), NEW h \in Client, InsertMap(h)
  PROVE  PiInv(pi')
<1> DEFINE t == pi.pc[h].tx
           m == [pi EXCEPT !.entries[t] = "Pending", !.dirty = @ \/ t \in Entered(pi)]
           k == pi'
<1>1. PiShape(pi) /\ pi.pc[h].at = "put" /\ h \notin pi.stats /\ t \in Txid
  BY StatsFacts DEF PiShape, InsertMap, Reaches, HeldSteps, NamingSteps
<1>2. /\ DOMAIN m = DOMAIN pi /\ m.pc = pi.pc /\ m.count = pi.count /\ m.raced = pi.raced /\ m.stats = pi.stats /\ m.shard = pi.shard /\ m.calls = pi.calls
      /\ m.entries = [pi.entries EXCEPT ![t] = "Pending"] /\ m.dirty = (pi.dirty \/ t \in Entered(pi))
  BY <1>1 DEF PiShape
<1>3. pi.dirty \in BOOLEAN /\ m.dirty \in BOOLEAN /\ "Pending" \in IndexStatus
  BY <1>1, <1>2 DEF PiShape, IndexStatus
<1>4. m.entries \in [Txid -> IndexStatus \union {"none"}] /\ m.entries[t] = "Pending" /\ SameEntries(pi, m, t)
  BY <1>1, <1>2, <1>3 DEF PiShape, SameEntries
<1>5. k = MoveTo(m, h, "counts") /\ "counts" \in CallSteps /\ "counts" \notin NamingSteps
  BY DEF InsertMap, CallSteps, AsksStats, NamingSteps
<1> HIDE DEF m
<1>6. PiShape(m)
  BY <1>1, <1>2, <1>3, <1>4 DEF PiShape
<1>7. PiShape(k) /\ SameIndex(m, k) /\ SameOthers(m, k, h) /\ k.pc[h].at = "counts"
  BY <1>5, <1>6, MoveFacts
<1>8. SameOthers(pi, k, h) /\ SameEntries(pi, k, t) /\ k.raced = pi.raced /\ (~k.dirty => ~pi.dirty) /\ k.entries[t] = "Pending" /\ k.count = pi.count
  BY <1>2, <1>4, <1>7 DEF SameIndex, SameOthers, SameEntries
<1>9. LockShift(pi, k, h)
  BY <1>1, <1>2, <1>7 DEF LockShift, SameIndex, HeldSteps
<1>10. CountsShift(pi, k, h, t)
  <2> SUFFICES ASSUME NEW s \in IndexStatus
               PROVE  LET before == pi.count[s] + One(WillAdd(pi.pc[h], s)) + One(t \in Txid /\ k.entries[t] = s) + One(WillTake(k.pc[h], s))
                          after == k.count[s] + One(WillAdd(k.pc[h], s)) + One(t \in Txid /\ pi.entries[t] = s) + One(WillTake(pi.pc[h], s))
                      IN  after >= before /\ (~k.dirty => after = before)
    BY DEF CountsShift
  <2>1. pi.count[s] \in Nat /\ k.count[s] = pi.count[s]
    BY <1>1, <1>8 DEF PiShape
  <2>2. One(WillAdd(pi.pc[h], s)) = 0 /\ One(WillTake(pi.pc[h], s)) = 0 /\ One(WillTake(k.pc[h], s)) = 0
    BY <1>1, <1>7 DEF One, WillAdd, WillTake
  <2>3. One(WillAdd(k.pc[h], s)) = One(t \in Txid /\ k.entries[t] = s) /\ One(t \in Txid /\ k.entries[t] = s) \in Nat
    BY <1>1, <1>7, <1>8 DEF One, WillAdd
  <2>4. One(t \in Txid /\ pi.entries[t] = s) \in Nat
    BY DEF One
  <2>5. ~k.dirty => One(t \in Txid /\ pi.entries[t] = s) = 0
    <3>1. k.dirty = (pi.dirty \/ t \in Entered(pi))
      BY <1>2, <1>7 DEF SameIndex
    <3>2. s # "none"
      BY DEF IndexStatus
    <3> QED
      BY <1>1, <3>1, <3>2 DEF One, Entered
  <2> HIDE DEF t, k
  <2> QED
    BY <2>1, <2>2, <2>3, <2>4, <2>5
<1>11. pi.pc[h].at \notin {"idle", "clear", "reset"} /\ k.pc[h].at \notin {"clear", "reset", "put"}
  BY <1>1, <1>7
<1> HIDE DEF k, t
<1>12. PiInv(k)
  BY <1>1, <1>7, <1>8, <1>9, <1>10, <1>11, StepMoves
<1> QED
  BY <1>12 DEF k

LEMMA UpdateEntryKeeps ==
  ASSUME PiInv(pi), NEW h \in Client, UpdateEntry(h)
  PROVE  PiInv(pi')
<1> DEFINE t == pi.pc[h].tx
           st == pi.pc[h].st
           k == pi'
<1>1. PiShape(pi) /\ pi.pc[h].at = "update" /\ h \notin pi.stats /\ t \in Txid /\ t \notin pi.shard
  BY StatsFacts DEF PiShape, UpdateEntry, Reaches, HeldSteps, NamingSteps, Waits, AsksShard
<1>2. pi.pc[h] \in IndexCalls /\ st \in IndexStatus
  BY <1>1 DEF PiShape, IndexCalls
<1>3. CASE t \notin Entered(pi)
  <2>1. k = [pi EXCEPT !.pc[h] = NotCalling] /\ NotCalling.at \notin NamingSteps
    BY <1>3, NotCallingTyped DEF UpdateEntry, NamingSteps
  <2>2. PiShape(k) /\ SameIndex(pi, k) /\ SameOthers(pi, k, h) /\ k.pc[h] = NotCalling
    BY <1>1, <2>1, NotCallingTyped, SetCallFacts
  <2>3. k.pc[h].at = "idle" /\ k.raced = pi.raced /\ (~k.dirty => ~pi.dirty) /\ SameEntries(pi, k, 0) /\ k.count = pi.count /\ k.entries = pi.entries
    BY <2>2, NotCallingTyped DEF SameIndex, SameEntries
  <2>4. LockShift(pi, k, h)
    BY <1>1, <2>2, <2>3 DEF LockShift, SameIndex, HeldSteps
  <2>5. CountsShift(pi, k, h, 0)
    <3>1. \A s : ~WillAdd(pi.pc[h], s) /\ ~WillTake(pi.pc[h], s) /\ ~WillAdd(k.pc[h], s) /\ ~WillTake(k.pc[h], s)
      BY <1>1, <2>3, NothingDue
    <3> HIDE DEF k
    <3> QED
      BY <1>1, <2>3, <3>1, ShiftSame
  <2>6. pi.pc[h].at \notin {"idle", "clear", "reset"} /\ k.pc[h].at \notin {"clear", "reset", "put"}
        /\ (0 \in Txid /\ k.entries[0] # "none" => pi.entries[0] # "none" \/ pi.pc[h].at = "put")
    BY <1>1, <2>3
  <2> HIDE DEF k
  <2>7. PiInv(k)
    BY <2>2, <2>3, <2>4, <2>5, <2>6, StepMoves
  <2> QED
    BY <2>7 DEF k
<1>4. CASE t \in Entered(pi)
  <2> DEFINE old == pi.entries[t]
             c == [pi.pc[h] EXCEPT !.at = "recount", !.old = old]
             m == [pi EXCEPT !.pc[h] = c]
  <2>1. old \in IndexStatus
    BY <1>1, <1>4 DEF Entered, PiShape
  <2>2. c \in IndexCalls /\ c.at = "recount" /\ c.tx = t /\ c.st = st /\ c.old = old
    BY <1>2, <2>1 DEF IndexCalls, CallSteps, AsksStats
  <2>3. /\ k.entries = [pi.entries EXCEPT ![t] = st] /\ k.shard = pi.shard \union {t} /\ k.pc = m.pc /\ DOMAIN k = DOMAIN pi
        /\ k.count = pi.count /\ k.stats = pi.stats /\ k.calls = pi.calls /\ k.dirty = pi.dirty /\ k.raced = pi.raced
    BY <1>1, <1>4 DEF UpdateEntry, PiShape
  <2> HIDE DEF c
  <2>4. PiShape(m) /\ SameOthers(pi, m, h) /\ m.pc[h] = c
    BY <1>1, <2>2, SetCallFacts
  <2> HIDE DEF m
  <2>5. k.pc[h] = c /\ SameOthers(pi, k, h)
    BY <2>3, <2>4 DEF SameOthers
  <2>6. k.entries \in [Txid -> IndexStatus \union {"none"}] /\ k.entries[t] = st /\ SameEntries(pi, k, t)
    BY <1>1, <1>2, <2>3 DEF PiShape, SameEntries
  <2>7. pi.shard \in SUBSET Txid /\ k.shard \in SUBSET Txid
    BY <1>1, <2>3 DEF PiShape
  <2>8. PiShape(k)
    BY <1>1, <2>3, <2>4, <2>6, <2>7 DEF PiShape
  <2>9. LockShift(pi, k, h)
    BY <1>1, <2>2, <2>3, <2>5 DEF LockShift, HeldSteps
  <2>10. CountsShift(pi, k, h, t)
    <3> SUFFICES ASSUME NEW s \in IndexStatus
                 PROVE  LET before == pi.count[s] + One(WillAdd(pi.pc[h], s)) + One(t \in Txid /\ k.entries[t] = s) + One(WillTake(k.pc[h], s))
                            after == k.count[s] + One(WillAdd(k.pc[h], s)) + One(t \in Txid /\ pi.entries[t] = s) + One(WillTake(pi.pc[h], s))
                        IN  after >= before /\ (~k.dirty => after = before)
      BY DEF CountsShift
    <3>1. pi.count[s] \in Nat /\ k.count[s] = pi.count[s]
      BY <1>1, <2>3 DEF PiShape
    <3>2. One(WillAdd(pi.pc[h], s)) = 0 /\ One(WillTake(pi.pc[h], s)) = 0
      BY <1>1 DEF One, WillAdd, WillTake
    <3>3. One(WillAdd(k.pc[h], s)) = One(t \in Txid /\ k.entries[t] = s) /\ One(t \in Txid /\ k.entries[t] = s) \in Nat
      BY <1>1, <2>2, <2>5, <2>6 DEF One, WillAdd
    <3>4. One(WillTake(k.pc[h], s)) = One(t \in Txid /\ pi.entries[t] = s) /\ One(t \in Txid /\ pi.entries[t] = s) \in Nat
      BY <1>1, <2>2, <2>5 DEF One, WillTake
    <3> HIDE DEF t, k
    <3> QED
      BY <3>1, <3>2, <3>3, <3>4
  <2>11. pi.pc[h].at \notin {"idle", "clear", "reset"} /\ k.pc[h].at \notin {"clear", "reset", "put"} /\ (~k.dirty => ~pi.dirty) /\ k.raced = pi.raced
         /\ (t \in Txid /\ k.entries[t] # "none" => pi.entries[t] # "none" \/ pi.pc[h].at = "put")
    BY <1>1, <1>4, <2>2, <2>3, <2>5 DEF Entered
  <2> HIDE DEF k, t
  <2>12. PiInv(k)
    BY <2>5, <2>6, <2>8, <2>9, <2>10, <2>11, StepMoves
  <2> QED
    BY <2>12 DEF k
<1> QED
  BY <1>3, <1>4

LEMMA RemoveMapKeeps ==
  ASSUME PiInv(pi), NEW h \in Client, RemoveMap(h)
  PROVE  PiInv(pi')
<1> DEFINE t == pi.pc[h].tx
           k == pi'
<1>1. PiShape(pi) /\ pi.pc[h].at = "remove" /\ h \notin pi.stats /\ t \in Txid
  BY StatsFacts DEF PiShape, RemoveMap, Reaches, HeldSteps, NamingSteps
<1>2. pi.pc[h] \in IndexCalls
  BY <1>1 DEF PiShape
<1>3. CASE t \notin Entered(pi)
  <2>1. k = Finish(pi, h)
    BY <1>3 DEF RemoveMap
  <2>2. CountedNow(pi, pi, h)
    BY <1>1 DEF CountedNow, One, WillAdd, WillTake, PiShape
  <2>3. /\ pi.pc[h].at \notin {"idle", "clear", "reset"} /\ pi.stats = pi.stats \ {h}
        /\ pi.shard = IF pi.pc[h].at = "recount" THEN pi.shard \ {pi.pc[h].tx} ELSE pi.shard
    BY <1>1
  <2> QED
    BY <1>1, <2>1, <2>2, <2>3, FinishKeeps
<1>4. CASE t \in Entered(pi)
  <2> DEFINE st == pi.entries[t]
             c == [pi.pc[h] EXCEPT !.at = "uncount", !.st = st]
             m == [pi EXCEPT !.pc[h] = c]
  <2>1. st \in IndexStatus
    BY <1>1, <1>4 DEF Entered, PiShape
  <2>2. c \in IndexCalls /\ c.at = "uncount" /\ c.st = st
    BY <1>2, <2>1 DEF IndexCalls, CallSteps, AsksStats
  <2>3. /\ k.entries = [pi.entries EXCEPT ![t] = "none"] /\ k.shard = pi.shard /\ k.pc = m.pc /\ DOMAIN k = DOMAIN pi
        /\ k.count = pi.count /\ k.stats = pi.stats /\ k.calls = pi.calls /\ k.dirty = pi.dirty /\ k.raced = pi.raced
    BY <1>1, <1>4 DEF RemoveMap, PiShape
  <2> HIDE DEF c
  <2>4. PiShape(m) /\ SameOthers(pi, m, h) /\ m.pc[h] = c
    BY <1>1, <2>2, SetCallFacts DEF NamingSteps
  <2> HIDE DEF m
  <2>5. k.pc[h] = c /\ SameOthers(pi, k, h)
    BY <2>3, <2>4 DEF SameOthers
  <2>6. k.entries \in [Txid -> IndexStatus \union {"none"}] /\ k.entries[t] = "none" /\ SameEntries(pi, k, t)
    BY <1>1, <1>2, <2>3 DEF PiShape, SameEntries
  <2>7. PiShape(k)
    BY <1>1, <2>3, <2>4, <2>6 DEF PiShape
  <2>8. LockShift(pi, k, h)
    BY <1>1, <2>2, <2>3, <2>5 DEF LockShift, HeldSteps
  <2>9. CountsShift(pi, k, h, t)
    <3> SUFFICES ASSUME NEW s \in IndexStatus
                 PROVE  LET before == pi.count[s] + One(WillAdd(pi.pc[h], s)) + One(t \in Txid /\ k.entries[t] = s) + One(WillTake(k.pc[h], s))
                            after == k.count[s] + One(WillAdd(k.pc[h], s)) + One(t \in Txid /\ pi.entries[t] = s) + One(WillTake(pi.pc[h], s))
                        IN  after >= before /\ (~k.dirty => after = before)
      BY DEF CountsShift
    <3>1. pi.count[s] \in Nat /\ k.count[s] = pi.count[s] /\ s # "none"
      BY <1>1, <2>3 DEF PiShape, IndexStatus
    <3>2. One(WillAdd(pi.pc[h], s)) = 0 /\ One(WillTake(pi.pc[h], s)) = 0 /\ One(WillAdd(k.pc[h], s)) = 0
      BY <1>1, <2>2, <2>5 DEF One, WillAdd, WillTake
    <3>3. One(t \in Txid /\ k.entries[t] = s) = 0
      BY <2>6, <3>1 DEF One
    <3>4. One(WillTake(k.pc[h], s)) = One(t \in Txid /\ pi.entries[t] = s) /\ One(t \in Txid /\ pi.entries[t] = s) \in Nat
      BY <1>1, <2>2, <2>5 DEF One, WillTake
    <3> HIDE DEF t, k
    <3> QED
      BY <3>1, <3>2, <3>3, <3>4
  <2>10. pi.pc[h].at \notin {"idle", "clear", "reset"} /\ k.pc[h].at \notin {"clear", "reset", "put"} /\ (~k.dirty => ~pi.dirty) /\ k.raced = pi.raced
         /\ (t \in Txid /\ k.entries[t] # "none" => pi.entries[t] # "none" \/ pi.pc[h].at = "put")
    BY <1>1, <1>4, <2>2, <2>3, <2>5 DEF Entered
  <2> HIDE DEF k, t
  <2>11. PiInv(k)
    BY <2>5, <2>6, <2>7, <2>8, <2>9, <2>10, StepMoves
  <2> QED
    BY <2>11 DEF k
<1> QED
  BY <1>3, <1>4

\* with nobody else at work there is nothing left to count
LEMMA NobodyElse ==
  ASSUME NEW k, NEW h \in Client, \A j \in Client \ {h} : k.pc[j].at = "idle", k.pc[h].at \in {"idle", "remove", "reset"},
         \A t \in Txid : k.entries[t] = "none", NEW s \in IndexStatus, k.count[s] \in Nat
  PROVE  Had(k, s) = 0 /\ Due(k, s) = k.count[s]
<1>1. Adding(k, s) = {} /\ Taking(k, s) = {}
  <2>1. \A j \in Client : k.pc[j].at \in {"idle", "remove", "reset"}
    OBVIOUS
  <2> QED
    BY <2>1 DEF Adding, Taking, WillAdd, WillTake
<1>2. HavingIn(k, s) = {}
  BY DEF HavingIn, IndexStatus
<1> QED
  BY <1>1, <1>2, FS_EmptySet DEF Had, Due

LEMMA ClearMapKeeps ==
  ASSUME PiInv(pi), NEW h \in Client, ClearMap(h)
  PROVE  PiInv(pi')
<1> DEFINE m == [pi EXCEPT !.entries = EmptyIndex]
           k == pi'
<1>1. PiShape(pi) /\ pi.pc[h].at = "clear" /\ h \notin pi.stats
  BY StatsFacts DEF ClearMap, Reaches, HeldSteps
<1>2. /\ PiShape(m) /\ m.pc = pi.pc /\ m.count = pi.count /\ m.raced = pi.raced /\ m.stats = pi.stats /\ m.shard = pi.shard /\ m.dirty = pi.dirty
      /\ m.entries = EmptyIndex
  BY <1>1 DEF PiShape, EmptyIndex
<1>3. k = MoveTo(m, h, "reset") /\ "reset" \in CallSteps /\ "reset" \notin NamingSteps
  BY DEF ClearMap, CallSteps, AsksStats, NamingSteps
<1> HIDE DEF m
<1>4. PiShape(k) /\ SameIndex(m, k) /\ SameOthers(m, k, h) /\ k.pc[h].at = "reset"
  BY <1>2, <1>3, MoveFacts
<1>5. SameOthers(pi, k, h) /\ k.raced = pi.raced /\ k.count = pi.count /\ \A t \in Txid : k.entries[t] = "none"
  BY <1>2, <1>4 DEF SameIndex, SameOthers, EmptyIndex
<1>6. LockShift(pi, k, h)
  BY <1>1, <1>2, <1>4 DEF LockShift, SameIndex, HeldSteps
<1>7. LocksHeld(k)
  <2>1. LocksHeld(pi)
    BY DEF PiInv
  <2> HIDE DEF k
  <2> QED
    BY <1>1, <1>4, <1>5, <1>6, <2>1, LocksMove
<1>8. RoomKept(k)
  <2>1. Entered(k) = {}
    BY <1>5 DEF Entered
  <2>2. PastCheck(k) \subseteq PastCheck(pi) /\ PastCheck(pi) \subseteq Client
    BY <1>4, <1>5 DEF PastCheck, SameOthers
  <2>3. IsFiniteSet(PastCheck(pi)) /\ IsFiniteSet(Entered(pi))
    BY <2>2, IndexAssumption, FS_Subset DEF Entered
  <2>4. /\ Cardinality(PastCheck(k)) \in Nat /\ Cardinality(PastCheck(pi)) \in Nat /\ Cardinality(PastCheck(k)) <= Cardinality(PastCheck(pi))
        /\ Cardinality(Entered(pi)) \in Nat /\ MaxEntries \in Nat /\ Cardinality(Client) \in Nat
    BY <2>2, <2>3, IndexAssumption, FS_Subset, FS_CardinalityType
  <2>5. Cardinality(Entered(pi)) + Cardinality(PastCheck(pi)) < MaxEntries + Cardinality(Client)
    BY DEF PiInv, RoomKept
  <2> QED
    BY <2>1, <2>4, <2>5, FS_EmptySet DEF RoomKept
<1>9. ASSUME ~k.raced PROVE ClearsAlone(k)
  <2>1. ClearsAlone(pi)
    BY <1>5, <1>9 DEF PiInv
  <2>2. pi.pc[h].at # "idle" /\ pi.pc[h].at \in {"clear", "reset"}
    BY <1>1
  <2> HIDE DEF k
  <2> QED
    BY <1>5, <2>1, <2>2, ClearsMove
<1>10. CountsDue(k)
  <2> SUFFICES ASSUME ~k.raced, NEW s \in IndexStatus
               PROVE  Due(k, s) >= Had(k, s) /\ (~k.dirty /\ NoReset(k) => Due(k, s) = Had(k, s))
    BY DEF CountsDue
  <2>1. \A j \in Client \ {h} : k.pc[j].at = "idle"
    BY <1>4, <1>9 DEF ClearsAlone
  <2>2. k.count[s] \in Nat
    BY <1>4 DEF PiShape
  <2>3. Had(k, s) = 0 /\ Due(k, s) = k.count[s]
    <3> HIDE DEF k
    <3> QED
      BY <1>4, <1>5, <2>1, <2>2, NobodyElse
  <2>4. ~NoReset(k)
    BY <1>4 DEF NoReset
  <2> QED
    BY <2>2, <2>3, <2>4
<1> QED
  BY <1>4, <1>7, <1>8, <1>9, <1>10 DEF PiInv

LEMMA ClearCountsKeeps ==
  ASSUME PiInv(pi), NEW h \in Client, ClearCounts(h)
  PROVE  PiInv(pi')
<1> DEFINE m == [pi EXCEPT !.count = NoCounts]
           k == pi'
<1>1. PiShape(pi) /\ pi.pc[h].at = "reset" /\ h \notin pi.stats
  BY StatsFacts DEF ClearCounts, Reaches, HeldSteps
<1>2. /\ PiShape(m) /\ m.pc = pi.pc /\ m.entries = pi.entries /\ m.raced = pi.raced /\ m.stats = pi.stats /\ m.shard = pi.shard /\ m.dirty = pi.dirty
      /\ m.count = NoCounts
  BY <1>1 DEF PiShape, NoCounts
<1>3. k = Finish(m, h)
  BY DEF ClearCounts
<1> HIDE DEF m
<1>4. PiShape(k) /\ SameIndex(m, k) /\ SameOthers(m, k, h) /\ k.pc[h].at \in {"idle", "remove"}
  BY <1>2, <1>3, FinishFacts
<1>5. SameOthers(pi, k, h) /\ k.raced = pi.raced /\ k.entries = pi.entries /\ SameEntries(pi, k, 0) /\ \A s \in IndexStatus : k.count[s] = 0
  BY <1>2, <1>4 DEF SameIndex, SameOthers, SameEntries, NoCounts
<1>6. LockShift(pi, k, h)
  BY <1>1, <1>2, <1>4 DEF LockShift, SameIndex, HeldSteps
<1>7. LocksHeld(k)
  <2>1. LocksHeld(pi)
    BY DEF PiInv
  <2> HIDE DEF k
  <2> QED
    BY <1>1, <1>4, <1>5, <1>6, <2>1, LocksMove
<1>8. RoomKept(k)
  <2>1. RoomKept(pi) /\ k.pc[h].at # "put"
    BY <1>4 DEF PiInv
  <2> HIDE DEF k
  <2> QED
    BY <1>5, <2>1, RoomMove
<1>9. ASSUME ~k.raced
      PROVE  ClearsAlone(k) /\ (\A j \in Client \ {h} : k.pc[j].at = "idle") /\ \A t \in Txid : k.entries[t] = "none"
  <2>1. ClearsAlone(pi)
    BY <1>5, <1>9 DEF PiInv
  <2>2. (\A j \in Client \ {h} : pi.pc[j].at = "idle") /\ \A t \in Txid : pi.entries[t] = "none"
    BY <1>1, <2>1 DEF ClearsAlone
  <2>3. \A j \in Client : k.pc[j].at \notin {"clear", "reset"}
    BY <1>4, <1>5, <2>2 DEF SameOthers
  <2> QED
    BY <1>5, <2>2, <2>3 DEF ClearsAlone, SameOthers
<1>10. CountsDue(k)
  <2> SUFFICES ASSUME ~k.raced, NEW s \in IndexStatus
               PROVE  Due(k, s) >= Had(k, s) /\ (~k.dirty /\ NoReset(k) => Due(k, s) = Had(k, s))
    BY DEF CountsDue
  <2>1. k.count[s] = 0 /\ k.count[s] \in Nat
    BY <1>5
  <2>2. Had(k, s) = 0 /\ Due(k, s) = k.count[s]
    <3> HIDE DEF k
    <3> QED
      BY <1>4, <1>9, <2>1, NobodyElse
  <2> QED
    BY <2>1, <2>2
<1> QED
  BY <1>4, <1>7, <1>8, <1>9, <1>10 DEF PiInv

LEMMA PiCallKeeps ==
  ASSUME PiInv(pi), NEW h \in Client, PiCall(h)
  PROVE  PiInv(pi')
<1>1. "insert" \in CallSteps /\ "remove" \in CallSteps /\ "update" \in CallSteps /\ "clear" \in CallSteps /\ "verify" \in CallSteps
  BY DEF CallSteps, AsksAllShards, AsksShard, AsksStats
<1>2. "clear" \notin NamingSteps /\ "verify" \notin NamingSteps
  BY DEF NamingSteps
<1>12. <<>> \in Seq(Txid) /\ "Pending" \in IndexStatus /\ 0 \in Txid \union {0} /\ \A st \in IndexStatus \ {"Pending"} : st \in IndexStatus
  BY DEF IndexStatus
<1>3. ASSUME NEW step \in {"insert", "remove", "update"}, NEW t \in Txid, NEW st \in IndexStatus, NEW todo \in Seq(Txid),
             StartCall(h, CallFor(step, t, st, todo))
      PROVE  PiInv(pi')
  <2> DEFINE c == CallFor(step, t, st, todo)
  <2>1. c \in IndexCalls /\ c.at = step /\ c.tx = t
    BY <1>1, CallForTyped
  <2> HIDE DEF c
  <2>2. StartCall(h, c)
    BY <1>3 DEF c
  <2>3. c.at \in {"insert", "update", "remove", "clear", "verify"} /\ (c.at \in NamingSteps => c.tx \in Txid)
    BY <2>1
  <2> QED
    BY <2>1, <2>2, <2>3, StartKeeps
<1>4. ASSUME NEW step \in {"clear", "verify"}, StartCall(h, CallFor(step, 0, "Pending", <<>>))
      PROVE  PiInv(pi')
  <2> DEFINE c == CallFor(step, 0, "Pending", <<>>)
  <2>4. step \in CallSteps
    BY <1>1
  <2>1. c \in IndexCalls /\ c.at = step
    <3> DEFINE none == <<>>
    <3>1. none \in Seq(Txid)
      BY <1>12
    <3> HIDE DEF none
    <3>2. CallFor(step, 0, "Pending", none) \in IndexCalls /\ CallFor(step, 0, "Pending", none).at = step
      BY <1>12, <2>4, <3>1, CallForTyped
    <3> QED
      BY <3>2 DEF none
  <2> HIDE DEF c
  <2>2. StartCall(h, c)
    BY <1>4 DEF c
  <2>3. c.at \in {"insert", "update", "remove", "clear", "verify"} /\ (c.at \in NamingSteps => c.tx \in Txid)
    BY <1>2, <2>1
  <2> QED
    BY <2>1, <2>2, <2>3, StartKeeps
<1>5. ASSUME NEW S \in SUBSET Txid, RemoveListed(h, S)
      PROVE  PiInv(pi')
  <2>1. PICK order \in SetToSeqs(S) : StartCall(h, CallFor("remove", Head(order), "Pending", Tail(order)))
    BY <1>5 DEF RemoveListed
  <2>2. IsFiniteSet(S) /\ S # {}
    BY <1>5, IndexAssumption, FS_Subset DEF RemoveListed
  <2>3. Cardinality(S) \in Nat /\ Cardinality(S) # 0
    BY <2>2, FS_CardinalityType, FS_EmptySet
  <2>4. order \in [1 .. Cardinality(S) -> S]
    BY <2>1 DEF SetToSeqs
  <2>5. order \in Seq(Txid) /\ Len(order) = Cardinality(S)
    BY <2>3, <2>4
  <2>6. order # <<>>
    BY <2>3, <2>5
  <2>7. Head(order) \in Txid /\ Tail(order) \in Seq(Txid) /\ "Pending" \in IndexStatus
    BY <2>5, <2>6 DEF IndexStatus
  <2> QED
    BY <1>3, <2>1, <2>7
<1>6. CASE \E t \in Txid : StartCall(h, CallFor("insert", t, "Pending", <<>>)) \/ StartCall(h, CallFor("remove", t, "Pending", <<>>))
  <2>1. PICK t \in Txid : StartCall(h, CallFor("insert", t, "Pending", <<>>)) \/ StartCall(h, CallFor("remove", t, "Pending", <<>>))
    BY <1>6
  <2> QED
    BY <1>3, <1>12, <2>1
<1>7. CASE \E t \in Txid : \E st \in IndexStatus \ {"Pending"} : StartCall(h, CallFor("update", t, st, <<>>))
  <2>1. PICK t \in Txid, st \in IndexStatus \ {"Pending"} : StartCall(h, CallFor("update", t, st, <<>>))
    BY <1>7
  <2> QED
    BY <1>3, <1>12, <2>1
<1>8. CASE \E t \in Txid : NotifyConfirmed(h, t)
  <2>1. PICK t \in Txid : StartCall(h, CallFor("update", t, "Confirmed", <<t>>))
    BY <1>8 DEF NotifyConfirmed
  <2>2. <<t>> \in Seq(Txid) /\ "Confirmed" \in IndexStatus
    BY DEF IndexStatus
  <2> QED
    BY <1>3, <2>1, <2>2
<1>9. CASE \E step \in {"clear", "verify"} : StartCall(h, CallFor(step, 0, "Pending", <<>>))
  BY <1>4, <1>9
<1>10. CASE SyncWithStorage(h)
  BY <1>5, <1>10 DEF SyncWithStorage, Entered
<1>11. CASE CleanupOld(h)
  BY <1>5, <1>11 DEF CleanupOld, Entered
<1> QED
  BY <1>6, <1>7, <1>8, <1>9, <1>10, <1>11 DEF PiCall

LEMMA PiKeeps ==
  ASSUME PiInv(pi), PiNext
  PROVE  PiInv(pi')
<1>1. PICK h \in Client : PiCall(h) \/ PiStep(h)
  BY DEF PiNext
<1> QED
  BY <1>1, PiCallKeeps, CheckKeeps, InsertMapKeeps, InsertStatsKeeps, TakeStatsKeeps, UpdateEntryKeeps, UpdateStatsKeeps, RemoveMapKeeps,
     RemoveStatsKeeps, ClearMapKeeps, ClearCountsKeeps, VerifyKeeps DEF PiStep

LEMMA PiSound ==
  ASSUME PiInv(pi)
  PROVE  CountsSound /\ OnlyUpdatesWedge
<1>1. PiShape(pi) /\ LocksHeld(pi)
  BY DEF PiInv
<1>2. IsFiniteSet(Entered(pi)) /\ IsFiniteSet(PastCheck(pi))
  BY IndexAssumption, FS_Subset DEF Entered, PastCheck
<1>3. Cardinality(Entered(pi)) < MaxEntries + Cardinality(Client)
  <2>1. Cardinality(Entered(pi)) \in Nat /\ Cardinality(PastCheck(pi)) \in Nat /\ Cardinality(Client) \in Nat /\ MaxEntries \in Nat
    BY <1>2, IndexAssumption, FS_CardinalityType
  <2> QED
    BY <2>1 DEF PiInv, RoomKept
<1>4. ASSUME AtRest, ~pi.raced, NEW s \in IndexStatus
      PROVE  pi.count[s] >= Having(s) /\ (~pi.dirty => pi.count[s] = Having(s))
  <2>1. Adding(pi, s) = {} /\ Taking(pi, s) = {} /\ NoReset(pi)
    BY <1>4 DEF AtRest, Adding, Taking, WillAdd, WillTake, NoReset
  <2>2. Having(s) = Cardinality(HavingIn(pi, s)) /\ IsFiniteSet(HavingIn(pi, s))
    BY IndexAssumption, FS_Subset DEF Having, HavingIn
  <2>3. Having(s) \in Nat /\ pi.count[s] \in Nat
    BY <1>1, <2>2, FS_CardinalityType DEF PiShape
  <2>4. Due(pi, s) = pi.count[s] /\ Had(pi, s) = Having(s)
    BY <2>1, <2>2, <2>3, FS_EmptySet DEF Due, Had
  <2>5. Due(pi, s) >= Had(pi, s) /\ (~pi.dirty /\ NoReset(pi) => Due(pi, s) = Had(pi, s))
    BY <1>4 DEF PiInv, CountsDue
  <2> QED
    BY <2>1, <2>4, <2>5
<1>5. ASSUME ~AtRest, \A h \in Client : pi.pc[h].at # "idle" => Waits(h)
      PROVE  /\ \E h \in Client : pi.pc[h].at = "recount"
             /\ \E h \in pi.stats : pi.pc[h].at # "recount"
  <2>1. PICK h0 \in Client : pi.pc[h0].at # "idle"
    BY <1>5 DEF AtRest
  <2>2. pi.shard # {}
    <3> SUFFICES ASSUME pi.shard = {} PROVE FALSE
      OBVIOUS
    <3>1. pi.stats # {}
      BY <1>5, <2>1 DEF Waits
    <3>2. PICK j \in Client : pi.pc[j].at \in HeldSteps
      BY <1>1, <3>1 DEF LocksHeld
    <3>3. Waits(j)
      BY <1>5, <3>2 DEF HeldSteps
    <3> QED
      BY <3>2, <3>3 DEF Waits, HeldSteps, AsksStats
  <2>3. PICK h1 \in Client : pi.pc[h1].at = "recount"
    BY <1>1, <2>2 DEF LocksHeld
  <2>4. Waits(h1)
    BY <1>5, <2>3
  <2>5. pi.stats # {}
    BY <2>3, <2>4 DEF Waits, AsksAllShards, AsksShard
  <2>6. PICK h2 \in pi.stats : pi.pc[h2].at \in HeldSteps
    BY <1>1, <2>5 DEF LocksHeld
  <2> QED
    BY <2>3, <2>6 DEF HeldSteps
<1> QED
  BY <1>3, <1>4, <1>5 DEF CountsSound, OnlyUpdatesWedge

-----------------------------------------------------------------------------
(* The multi-dimensional index *)

DimCalls == [op : {"none", "insert", "remove", "reset"}, at : 0 .. 5, rec : SUBSET Records, next : SUBSET Records]

\* an insert has one record; a remove one, and the one that an update inserts after it, of the same hash
CallSound(c) ==
  /\ c.op = "insert" => c.at \in 1 .. 5 /\ c.next = {} /\ \E r \in Records : c.rec = {r}
  /\ c.op = "remove" => /\ c.at \in 1 .. 5
                        /\ \E r \in Records : c.rec = {r} /\ (c.next = {} \/ \E s \in Records : c.next = {s} /\ s.tx = r.tx)
  /\ c.op = "reset" => c.at \in 1 .. 5
Section(g, m, x) == {r \in g.map[m] : r.tx = x}
DiShape(g) ==
  /\ DOMAIN g = {"map", "total", "calls", "call", "stale", "raced"}
  /\ g.map \in [Maps -> SUBSET Records] /\ g.total \in Nat /\ g.calls \in Nat /\ g.stale \in BOOLEAN /\ g.raced \in BOOLEAN
  /\ g.call \in [Client -> DimCalls] /\ \A p \in Client : CallSound(g.call[p])
  /\ \A m \in Maps : IsFiniteSet(g.map[m])
\* the map by hash has one record under a hash
OnePerHash(g) == \A r, s \in g.map[Hash] : r.tx = s.tx => r = s

\* calls that overlap are about different hashes, and none of them is a reset
TxsOf(c) == {r.tx : r \in c.rec \union c.next}
CallsApart(g) ==
  \A p, q \in Client : p # q /\ g.call[p].op # "none" /\ g.call[q].op # "none" =>
    g.call[p].op # "reset" /\ TxsOf(g.call[p]) \intersect TxsOf(g.call[q]) = {}
NoResets(g) == \A p \in Client : g.call[p].op # "reset"
ResetsDone(g) == \A p \in Client : g.call[p].op = "reset" => \A m \in Maps : m < g.call[p].at => g.map[m] = {}

\* the records of a hash: the same in all maps, or moving from one to the next
Moving(c, r) == c.op \in {"insert", "remove"} /\ c.at >= 2 /\ r \in c.rec
Half(g, c, r) ==
  \A m \in Maps : Section(g, m, r.tx) = IF (c.op = "insert") = (m < c.at) THEN {r} ELSE {}
SectionSound(g, x) ==
  /\ \A p \in Client : \A r \in Records : Moving(g.call[p], r) /\ r.tx = x => Half(g, g.call[p], r)
  /\ \/ \E p \in Client : \E r \in Records : Moving(g.call[p], r) /\ r.tx = x
     \/ \A m \in Maps : Section(g, m, x) = Section(g, Hash, x)

\* what the total has counted: it counts a record last, both when it comes and when it goes
Adds(c, r) == Moving(c, r) /\ c.op = "insert"
Takes(c, r) == Moving(c, r) /\ c.op = "remove"
CountedRecords(g) ==
  {r \in Records : \/ r \in g.map[Hash] /\ \A p \in Client : ~Adds(g.call[p], r)
                   \/ \E p \in Client : Takes(g.call[p], r)}
TotalSound(g) == IsFiniteSet(CountedRecords(g)) /\ g.total = Cardinality(CountedRecords(g))

DimSound(g) == CallsApart(g) /\ ResetsDone(g) /\ (NoResets(g) => (\A x \in Nat : SectionSound(g, x)) /\ TotalSound(g))
DiInv(g) == DiShape(g) /\ OnePerHash(g) /\ (~g.stale /\ ~g.raced => DimSound(g))

LEMMA RecordParts == \A r \in Records : r.tx \in Nat /\ r.fee \in Nat /\ r.time \in Nat /\ r.deps \in Nat
  BY DimensionAssumption

LEMMA MapNames == Hash \in Maps /\ Eco \in Maps /\ Temp \in Maps /\ Deps \in Maps
                  /\ Hash = 1 /\ \A m \in Maps : m \in Nat /\ (m = Hash \/ m = Eco \/ m = Temp \/ m = Deps) /\ (m # Hash => m >= 2)
  BY DEF Hash, Eco, Temp, Deps, Maps

\* a key names its hash, and under a hash and a map there is one key for a record
LEMMA KeysName ==
  ASSUME NEW m \in Maps, NEW r, NEW s, KeyIn(m, r) = KeyIn(m, s)
  PROVE  r.tx = s.tx
<1>1. m = 1 \/ m = 2 \/ m = 3 \/ m = 4
  BY DEF Maps
<1>2. CASE m = 1
  BY <1>2 DEF KeyIn, Hash
<1>3. CASE m = 2
  BY <1>3 DEF KeyIn, Hash, Eco
<1>4. CASE m = 3
  BY <1>4 DEF KeyIn, Hash, Eco, Temp
<1>5. CASE m = 4
  BY <1>5 DEF KeyIn, Hash, Eco, Temp, Deps
<1> QED
  BY <1>1, <1>2, <1>3, <1>4, <1>5

LEMMA HashKey == \A r, s : (KeyIn(Hash, r) = KeyIn(Hash, s)) <=> (r.tx = s.tx)
<1> SUFFICES ASSUME NEW r, NEW s PROVE (KeyIn(1, r) = KeyIn(1, s)) <=> (r.tx = s.tx)
  BY DEF Hash
<1>1. KeyIn(1, r) = <<r.tx>> /\ KeyIn(1, s) = <<s.tx>>
  BY DEF KeyIn, Hash, Eco, Temp, Deps
<1>2. (<<r.tx>> = <<s.tx>>) <=> (r.tx = s.tx)
  OBVIOUS
<1> QED
  BY <1>1, <1>2

LEMMA DiStarts ==
  ASSUME DiInit
  PROVE  DiInv(di)
<1>1. Resting \in DimCalls /\ Resting.op = "none" /\ CallSound(Resting) /\ Resting.rec = {} /\ Resting.next = {}
  BY DEF Resting, DimCalls, CallSound
<1>2. \A p \in Client : di.call[p] = Resting
  BY DEF DiInit
<1>3. \A m \in Maps : di.map[m] = {}
  BY DEF DiInit
<1>4. DiShape(di)
  <2>1. \A m \in Maps : IsFiniteSet(di.map[m])
    BY <1>3, FS_EmptySet
  <2>2. \A p \in Client : CallSound(di.call[p])
    BY <1>1, <1>2
  <2>3. di.call \in [Client -> DimCalls]
    BY <1>1 DEF DiInit
  <2>4. di.map \in [Maps -> SUBSET Records] /\ di.total \in Nat /\ di.calls \in Nat /\ di.stale \in BOOLEAN /\ di.raced \in BOOLEAN
    BY DEF DiInit
  <2>5. DOMAIN di = {"map", "total", "calls", "call", "stale", "raced"}
    BY DEF DiInit
  <2> QED
    BY <2>1, <2>2, <2>3, <2>4, <2>5 DEF DiShape
<1>5. OnePerHash(di)
  BY <1>3, MapNames DEF OnePerHash
<1>6. CallsApart(di) /\ ResetsDone(di)
  BY <1>1, <1>2 DEF CallsApart, ResetsDone
<1>7. \A p \in Client, r \in Records : ~Moving(di.call[p], r)
  BY <1>1, <1>2 DEF Moving
<1>8. \A x \in Nat : SectionSound(di, x)
  BY <1>3, <1>7, MapNames DEF SectionSound, Section
<1>9. CountedRecords(di) = {}
  BY <1>3, <1>7, MapNames DEF CountedRecords, Takes
<1>10. TotalSound(di)
  BY <1>9, FS_EmptySet DEF TotalSound, DiInit
<1> QED
  BY <1>4, <1>5, <1>6, <1>8, <1>10 DEF DiInv, DimSound

\* what a call does to a map concerns one hash
LEMMA PutFacts ==
  ASSUME NEW m \in Maps, NEW S \in SUBSET Records, IsFiniteSet(S), NEW r \in Records
  PROVE  /\ PutIn(S, m, r) \in SUBSET Records /\ IsFiniteSet(PutIn(S, m, r)) /\ r \in PutIn(S, m, r)
         /\ \A s \in Records : s.tx # r.tx => (s \in PutIn(S, m, r) <=> s \in S)
         /\ \A s \in PutIn(S, m, r) : s = r \/ s \in S
         /\ m = Hash => \A s \in PutIn(S, m, r) : s.tx = r.tx => s = r
<1> DEFINE C == {s \in S : KeyIn(m, s) # KeyIn(m, r)}
<1>1. IsFiniteSet(C)
  BY FS_Subset
<1>2. IsFiniteSet(C \union {r})
  BY <1>1, FS_AddElement
<1>3. PutIn(S, m, r) = C \union {r}
  BY DEF PutIn
<1>4. \A s \in Records : s.tx # r.tx => KeyIn(m, s) # KeyIn(m, r)
  BY KeysName
<1>5. m = Hash => \A s \in C : s.tx # r.tx
  BY HashKey
<1> QED
  BY <1>2, <1>3, <1>4, <1>5

LEMMA CutFacts ==
  ASSUME NEW m \in Maps, NEW S \in SUBSET Records, IsFiniteSet(S), NEW r \in Records
  PROVE  /\ CutFrom(S, m, r) \in SUBSET Records /\ IsFiniteSet(CutFrom(S, m, r)) /\ r \notin CutFrom(S, m, r)
         /\ \A s \in Records : s.tx # r.tx => (s \in CutFrom(S, m, r) <=> s \in S)
         /\ CutFrom(S, m, r) \subseteq S
         /\ m = Hash => \A s \in CutFrom(S, m, r) : s.tx # r.tx
<1>1. IsFiniteSet(CutFrom(S, m, r))
  BY FS_Subset DEF CutFrom
<1>2. \A s \in Records : s.tx # r.tx => KeyIn(m, s) # KeyIn(m, r)
  BY KeysName
<1>3. m = Hash => \A s \in CutFrom(S, m, r) : s.tx # r.tx
  BY HashKey DEF CutFrom
<1> QED
  BY <1>1, <1>2, <1>3 DEF CutFrom

\* a step of thread p in a call about the hash x
AboutOne(g, k, p, x) ==
  /\ \A q \in Client \ {p} : k.call[q] = g.call[q]
  /\ TxsOf(k.call[p]) \subseteq {x} /\ TxsOf(k.call[p]) \subseteq TxsOf(g.call[p]) /\ x \in TxsOf(g.call[p])
  /\ TxsOf(g.call[p]) \subseteq {x}
  /\ g.call[p].op \in {"insert", "remove"} /\ k.call[p].op # "reset"
  /\ \A m \in Maps : \A s \in Records : s.tx # x => (s \in k.map[m] <=> s \in g.map[m])

LEMMA ApartKeeps ==
  ASSUME NEW g, NEW k, NEW p \in Client, NEW x, AboutOne(g, k, p, x), CallsApart(g), ResetsDone(g)
  PROVE  CallsApart(k) /\ ResetsDone(k) /\ NoResets(g) /\ NoResets(k)
         /\ \A q \in Client \ {p} : g.call[q].op # "none" => x \notin TxsOf(g.call[q])
<1>1. \A q \in Client \ {p} : g.call[q].op # "none" => g.call[q].op # "reset" /\ x \notin TxsOf(g.call[q])
  BY DEF AboutOne, CallsApart
<1>2. NoResets(g) /\ NoResets(k)
  BY <1>1 DEF NoResets, AboutOne
<1>3. CallsApart(k)
  <2> SUFFICES ASSUME NEW a \in Client, NEW b \in Client, a # b, k.call[a].op # "none", k.call[b].op # "none"
               PROVE  k.call[a].op # "reset" /\ TxsOf(k.call[a]) \intersect TxsOf(k.call[b]) = {}
    BY DEF CallsApart
  <2>1. k.call[a].op # "reset"
    BY <1>2 DEF NoResets
  <2>2. CASE a # p /\ b # p
    BY <2>2 DEF AboutOne, CallsApart
  <2>3. CASE a = p
    BY <1>1, <2>1, <2>3 DEF AboutOne
  <2>4. CASE b = p
    BY <1>1, <2>1, <2>4 DEF AboutOne
  <2> QED
    BY <2>1, <2>2, <2>3, <2>4
<1> QED
  BY <1>1, <1>2, <1>3 DEF NoResets, ResetsDone

\* the records of other hashes stay where they are
LEMMA OthersKeep ==
  ASSUME NEW g, NEW k, NEW p \in Client, NEW x, AboutOne(g, k, p, x), DiShape(g), DiShape(k),
         NEW y \in Nat, y # x, SectionSound(g, y)
  PROVE  SectionSound(k, y)
<1>1. ASSUME NEW m \in Maps PROVE Section(k, m, y) = Section(g, m, y)
  <2>1. g.map[m] \subseteq Records /\ k.map[m] \subseteq Records
    BY DEF DiShape
  <2> QED
    BY <2>1 DEF Section, AboutOne
<1>2. ASSUME NEW q \in Client, NEW r \in Records, r.tx = y
      PROVE  /\ Moving(k.call[q], r) <=> Moving(g.call[q], r)
             /\ Moving(g.call[q], r) => k.call[q] = g.call[q]
  <2>1. CASE q # p
    BY <2>1 DEF AboutOne
  <2>2. CASE q = p
    <3>1. ~Moving(k.call[p], r) /\ ~Moving(g.call[p], r)
      BY <1>2 DEF AboutOne, TxsOf, Moving
    <3> QED
      BY <2>2, <3>1
  <2> QED
    BY <2>1, <2>2
<1>3. ASSUME NEW q \in Client, NEW r \in Records, Moving(k.call[q], r), r.tx = y PROVE Half(k, k.call[q], r)
  <2>1. Half(g, g.call[q], r) /\ k.call[q] = g.call[q]
    BY <1>2, <1>3 DEF SectionSound
  <2> QED
    BY <1>1, <1>3, <2>1 DEF Half
<1>4. \/ \E q \in Client : \E r \in Records : Moving(k.call[q], r) /\ r.tx = y
      \/ \A m \in Maps : Section(k, m, y) = Section(k, Hash, y)
  <2>1. CASE \E q \in Client : \E r \in Records : Moving(g.call[q], r) /\ r.tx = y
    BY <1>2, <2>1
  <2>2. CASE \A m \in Maps : Section(g, m, y) = Section(g, Hash, y)
    BY <1>1, <2>2, MapNames
  <2> QED
    BY <2>1, <2>2 DEF SectionSound
<1> QED
  BY <1>3, <1>4 DEF SectionSound

\* a step about x that leaves the records of x sound, and what is counted
LEMMA DimKeeps ==
  ASSUME NEW g, NEW k, NEW p \in Client, NEW x, DiInv(g), DiShape(k), OnePerHash(k), AboutOne(g, k, p, x),
         ~k.stale => ~g.stale, ~k.raced => ~g.raced,
         ~k.stale /\ ~k.raced => SectionSound(k, x) /\ TotalSound(k)
  PROVE  DiInv(k)
<1> SUFFICES ASSUME ~k.stale, ~k.raced PROVE DimSound(k)
  BY DEF DiInv
<1>1. DimSound(g) /\ DiShape(g)
  BY DEF DiInv
<1>2. CallsApart(k) /\ ResetsDone(k) /\ NoResets(g)
  BY <1>1, ApartKeeps DEF DimSound
<1>3. ASSUME NEW y \in Nat PROVE SectionSound(k, y)
  <2>1. CASE y = x
    BY <2>1
  <2>2. CASE y # x
    <3>1. SectionSound(g, y)
      BY <1>1, <1>2 DEF DimSound
    <3> QED
      BY <1>1, <2>2, <3>1, OthersKeep
  <2> QED
    BY <2>1, <2>2
<1> QED
  BY <1>2, <1>3 DEF DimSound

\* what the invariant says of the hash that a call is about, when the calls do not overlap
OwnCounted(g, p, s) == (s \in g.map[Hash] /\ ~Adds(g.call[p], s)) \/ Takes(g.call[p], s)
OwnSection(g, p, x) ==
  /\ \A r \in Records : Moving(g.call[p], r) => Half(g, g.call[p], r)
  /\ \/ \E r \in Records : Moving(g.call[p], r)
     \/ \A m \in Maps : Section(g, m, x) = Section(g, Hash, x)

LEMMA NoneElseMoves ==
  ASSUME NEW g, NEW k, NEW p \in Client, NEW x, AboutOne(g, k, p, x), CallsApart(g),
         NEW q \in Client \ {p}, NEW s \in Records, s.tx = x
  PROVE  ~Moving(g.call[q], s) /\ ~Moving(k.call[q], s)
<1>1. g.call[q].op # "none" => x \notin TxsOf(g.call[q])
  BY DEF AboutOne, CallsApart
<1>2. ~Moving(g.call[q], s)
  BY <1>1 DEF Moving, TxsOf
<1> QED
  BY <1>2 DEF AboutOne

LEMMA OwnFacts ==
  ASSUME NEW g, NEW k, NEW p \in Client, NEW x, AboutOne(g, k, p, x), CallsApart(g)
  PROVE  /\ \A s \in Records : s.tx = x => /\ s \in CountedRecords(g) <=> OwnCounted(g, p, s)
                                           /\ s \in CountedRecords(k) <=> OwnCounted(k, p, s)
         /\ SectionSound(g, x) => OwnSection(g, p, x)
         /\ OwnSection(k, p, x) => SectionSound(k, x)
<1>1. \A q \in Client : \A s \in Records : s.tx = x /\ q # p => ~Moving(g.call[q], s) /\ ~Moving(k.call[q], s)
  BY NoneElseMoves
<1>2. \A s \in Records : (Moving(g.call[p], s) => s.tx = x) /\ (Moving(k.call[p], s) => s.tx = x)
  BY DEF AboutOne, TxsOf, Moving
<1>3. \A s \in Records : s.tx = x => (s \in CountedRecords(g) <=> OwnCounted(g, p, s))
  BY <1>1 DEF CountedRecords, OwnCounted, Adds, Takes
<1>4. \A s \in Records : s.tx = x => (s \in CountedRecords(k) <=> OwnCounted(k, p, s))
  BY <1>1 DEF CountedRecords, OwnCounted, Adds, Takes
<1>5. SectionSound(g, x) => OwnSection(g, p, x)
  BY <1>1, <1>2 DEF SectionSound, OwnSection
<1>6. OwnSection(k, p, x) => SectionSound(k, x)
  BY <1>1, <1>2 DEF SectionSound, OwnSection
<1> QED
  BY <1>3, <1>4, <1>5, <1>6

LEMMA OthersCounted ==
  ASSUME NEW g, NEW k, NEW p \in Client, NEW x, AboutOne(g, k, p, x), NEW s \in Records, s.tx # x
  PROVE  s \in CountedRecords(g) <=> s \in CountedRecords(k)
<1>1. ~Moving(g.call[p], s) /\ ~Moving(k.call[p], s)
  BY DEF AboutOne, TxsOf, Moving
<1>2. \A q \in Client : Moving(g.call[q], s) \/ Moving(k.call[q], s) => g.call[q] = k.call[q]
  BY <1>1 DEF AboutOne
<1>3. s \in g.map[Hash] <=> s \in k.map[Hash]
  BY MapNames DEF AboutOne
<1>4. \A q \in Client : (Adds(g.call[q], s) <=> Adds(k.call[q], s)) /\ (Takes(g.call[q], s) <=> Takes(k.call[q], s))
  BY <1>2 DEF Adds, Takes
<1> QED
  BY <1>3, <1>4 DEF CountedRecords

\* a step that leaves what is counted and the total alone
LEMMA DimKeepsTotal ==
  ASSUME NEW g, NEW k, NEW p \in Client, NEW x \in Nat, DiInv(g), DiShape(k), OnePerHash(k), AboutOne(g, k, p, x),
         ~k.stale => ~g.stale, ~k.raced => ~g.raced, k.total = g.total,
         ~k.stale /\ ~k.raced /\ OwnSection(g, p, x) =>
           OwnSection(k, p, x) /\ \A s \in Records : s.tx = x => (OwnCounted(g, p, s) <=> OwnCounted(k, p, s))
  PROVE  DiInv(k)
<1> SUFFICES ASSUME ~k.stale, ~k.raced PROVE SectionSound(k, x) /\ TotalSound(k)
  BY DimKeeps
<1>1. DimSound(g) /\ CallsApart(g) /\ ResetsDone(g)
  BY DEF DiInv, DimSound
<1>2. NoResets(g)
  BY <1>1, ApartKeeps
<1>3. SectionSound(g, x) /\ TotalSound(g)
  BY <1>1, <1>2 DEF DimSound
<1>4. OwnSection(g, p, x)
  BY <1>1, <1>3, OwnFacts
<1>5. SectionSound(k, x)
  BY <1>1, <1>4, OwnFacts
<1>6. \A s \in Records : s \in CountedRecords(g) <=> s \in CountedRecords(k)
  BY <1>1, <1>4, OwnFacts, OthersCounted
<1>7. CountedRecords(g) = CountedRecords(k)
  BY <1>6 DEF CountedRecords
<1> QED
  BY <1>3, <1>5, <1>7 DEF TotalSound

\* a step that counts a record, or takes a counted one off
LEMMA DimKeepsOne ==
  ASSUME NEW g, NEW k, NEW p \in Client, NEW r \in Records, DiInv(g), DiShape(k), OnePerHash(k),
         AboutOne(g, k, p, r.tx), ~k.stale => ~g.stale, ~k.raced => ~g.raced,
         ~k.stale /\ ~k.raced /\ OwnSection(g, p, r.tx) =>
           /\ OwnSection(k, p, r.tx)
           /\ \A s \in Records : s.tx = r.tx /\ s # r => (OwnCounted(g, p, s) <=> OwnCounted(k, p, s))
           /\ \/ ~OwnCounted(g, p, r) /\ OwnCounted(k, p, r) /\ k.total = g.total + 1
              \/ OwnCounted(g, p, r) /\ ~OwnCounted(k, p, r) /\ k.total = (IF g.total = 0 THEN 0 ELSE g.total - 1)
  PROVE  DiInv(k)
<1>0. r.tx \in Nat
  BY RecordParts
<1> DEFINE x == r.tx
<1> SUFFICES ASSUME ~k.stale, ~k.raced PROVE SectionSound(k, x) /\ TotalSound(k)
  BY DimKeeps
<1>1. DimSound(g) /\ CallsApart(g) /\ ResetsDone(g)
  BY DEF DiInv, DimSound
<1>2. NoResets(g)
  BY <1>1, ApartKeeps
<1>3. SectionSound(g, x) /\ TotalSound(g)
  BY <1>0, <1>1, <1>2 DEF DimSound
<1>4. OwnSection(g, p, x)
  BY <1>1, <1>3, OwnFacts
<1>5. SectionSound(k, x)
  BY <1>1, <1>4, OwnFacts
<1>6. \A s \in Records : s # r => (s \in CountedRecords(g) <=> s \in CountedRecords(k))
  BY <1>1, <1>4, OwnFacts, OthersCounted
<1> DEFINE A == CountedRecords(g)
           B == CountedRecords(k)
<1>7. A \subseteq Records /\ B \subseteq Records
  BY DEF CountedRecords
<1>8. IsFiniteSet(A) /\ g.total = Cardinality(A)
  BY <1>3 DEF TotalSound
<1>9. CASE ~OwnCounted(g, p, r) /\ OwnCounted(k, p, r) /\ k.total = g.total + 1
  <2>1. r \notin A /\ r \in B
    BY <1>1, <1>9, OwnFacts
  <2>2. B = A \union {r}
    BY <1>6, <1>7, <2>1
  <2>3. IsFiniteSet(B) /\ Cardinality(B) = Cardinality(A) + 1
    BY <1>8, <2>1, <2>2, FS_AddElement
  <2> QED
    BY <1>5, <1>8, <1>9, <2>3 DEF TotalSound
<1>10. CASE OwnCounted(g, p, r) /\ ~OwnCounted(k, p, r) /\ k.total = (IF g.total = 0 THEN 0 ELSE g.total - 1)
  <2>1. r \in A /\ r \notin B
    BY <1>1, <1>10, OwnFacts
  <2>2. B = A \ {r}
    BY <1>6, <1>7, <2>1
  <2>3. IsFiniteSet(B) /\ Cardinality(B) = Cardinality(A) - 1
    BY <1>8, <2>1, <2>2, FS_RemoveElement
  <2>4. Cardinality(A) \in Nat /\ Cardinality(B) \in Nat
    BY <1>8, <2>3, FS_CardinalityType
  <2>5. k.total = Cardinality(B)
    BY <1>8, <1>10, <2>3, <2>4
  <2> QED
    BY <1>5, <2>3, <2>5 DEF TotalSound
<1> QED
  BY <1>4, <1>9, <1>10

\* what the steps of the calls share
StepsTo(g, k, p, m, S, c) ==
  /\ S \in SUBSET Records /\ IsFiniteSet(S) /\ c \in DimCalls /\ CallSound(c)
  /\ k.total \in Nat /\ k.stale \in BOOLEAN /\ k.raced \in BOOLEAN /\ k.calls \in {g.calls, g.calls + 1}
  /\ DOMAIN k = DOMAIN g /\ k.map = [g.map EXCEPT ![m] = S] /\ k.call = [g.call EXCEPT ![p] = c]
Stepped(g, k, p, m, S, c) ==
  /\ k.map[m] = S /\ (\A n \in Maps \ {m} : k.map[n] = g.map[n])
  /\ k.call[p] = c /\ \A q \in Client \ {p} : k.call[q] = g.call[q]

LEMMA StepShape ==
  ASSUME NEW g, NEW k, NEW p \in Client, DiShape(g), NEW m \in Maps, NEW S, NEW c, StepsTo(g, k, p, m, S, c)
  PROVE  DiShape(k) /\ Stepped(g, k, p, m, S, c)
<1>1. k.map[m] = S /\ \A n \in Maps \ {m} : k.map[n] = g.map[n]
  BY DEF DiShape, StepsTo
<1>2. k.call[p] = c /\ \A q \in Client \ {p} : k.call[q] = g.call[q]
  BY DEF DiShape, StepsTo
<1>3. k.map \in [Maps -> SUBSET Records] /\ k.call \in [Client -> DimCalls]
  BY DEF DiShape, StepsTo
<1>4. \A n \in Maps : IsFiniteSet(k.map[n])
  BY <1>1 DEF DiShape, StepsTo
<1>5. \A q \in Client : CallSound(k.call[q])
  BY <1>2 DEF DiShape, StepsTo
<1>6. DOMAIN k = {"map", "total", "calls", "call", "stale", "raced"} /\ k.calls \in Nat
  BY DEF DiShape, StepsTo
<1> QED
  BY <1>1, <1>2, <1>3, <1>4, <1>5, <1>6 DEF DiShape, StepsTo, Stepped

LEMMA InsertIntoKeeps ==
  ASSUME DiInv(di), NEW p \in Client, InsertInto(p)
  PROVE  DiInv(di')
<1> DEFINE g == di
           k == di'
           c == di.call[p]
           m == di.call[p].at
           d == [c EXCEPT !.at = c.at + 1]
<1>1. DiShape(g) /\ OnePerHash(g)
  BY DEF DiInv
<1>2. c \in DimCalls /\ CallSound(c) /\ c.op = "insert" /\ m \in Maps
  BY <1>1 DEF DiShape, InsertInto, AtMap, Maps
<1>3. PICK r \in Records : c.rec = {r} /\ c.next = {}
  BY <1>2 DEF CallSound
<1> DEFINE x == r.tx
           S == PutIn(g.map[m], m, r)
<1>4. /\ DOMAIN k = DOMAIN g /\ k.map = [g.map EXCEPT ![m] = S] /\ k.calls = g.calls /\ k.call = [g.call EXCEPT ![p] = d]
      /\ k.total = g.total /\ k.raced = g.raced /\ k.stale = (g.stale \/ (m = Hash /\ \E s \in g.map[Hash] : s.tx = r.tx))
  BY <1>1, <1>2, <1>3 DEF InsertInto, DiShape
<1>5. g.map[m] \in SUBSET Records /\ IsFiniteSet(g.map[m]) /\ g.total \in Nat /\ g.stale \in BOOLEAN /\ g.raced \in BOOLEAN
      /\ \A n \in Maps : g.map[n] \subseteq Records
  BY <1>1, <1>2 DEF DiShape
<1>6. /\ S \in SUBSET Records /\ IsFiniteSet(S) /\ r \in S
      /\ \A s \in Records : s.tx # r.tx => (s \in S <=> s \in g.map[m])
      /\ \A s \in S : s = r \/ s \in g.map[m]
      /\ m = Hash => \A s \in S : s.tx = r.tx => s = r
  BY <1>2, <1>5, PutFacts
<1>7. d \in DimCalls /\ d.op = "insert" /\ d.at = m + 1 /\ d.rec = {r} /\ d.next = {} /\ m \in 1 .. 4
  BY <1>2, <1>3 DEF DimCalls, Maps
<1>8. CallSound(d)
  BY <1>7 DEF CallSound
<1>9. k.stale \in BOOLEAN /\ k.raced \in BOOLEAN /\ k.total \in Nat
  BY <1>4, <1>5
<1> HIDE DEF g, k, c, m, d, S
<1>s. StepsTo(g, k, p, m, S, d)
  BY <1>4, <1>6, <1>7, <1>8, <1>9 DEF StepsTo
<1>t. DiShape(k) /\ Stepped(g, k, p, m, S, d)
  BY <1>1, <1>2, <1>s, StepShape
<1>10. /\ DiShape(k) /\ k.map[m] = S /\ (\A n \in Maps \ {m} : k.map[n] = g.map[n])
       /\ k.call[p] = d /\ \A q \in Client \ {p} : k.call[q] = g.call[q]
  BY <1>t DEF Stepped
<1>11. g.call[p] = c
  BY DEF g, c
<1>12. OnePerHash(k)
  <2>1. CASE m = Hash
    BY <1>1, <1>6, <1>10, <2>1 DEF OnePerHash
  <2>2. CASE m # Hash
    BY <1>1, <1>10, <2>2, MapNames DEF OnePerHash
  <2> QED
    BY <2>1, <2>2
<1>13. AboutOne(g, k, p, x)
  <2>1. TxsOf(c) = {x} /\ TxsOf(d) = {x}
    BY <1>3, <1>7 DEF TxsOf
  <2>2. \A n \in Maps : \A s \in Records : s.tx # x => (s \in k.map[n] <=> s \in g.map[n])
    BY <1>6, <1>10
  <2> QED
    BY <1>2, <1>7, <1>10, <1>11, <2>1, <2>2 DEF AboutOne
<1>14. x \in Nat
  BY RecordParts
<1>15. ASSUME ~k.stale, ~k.raced, OwnSection(g, p, x)
       PROVE  OwnSection(k, p, x) /\ \A s \in Records : s.tx = x => (OwnCounted(g, p, s) <=> OwnCounted(k, p, s))
  <2>1. \A s \in Records : Moving(d, s) <=> s = r
    BY <1>7 DEF Moving
  <2>2. \A s \in Records : Moving(c, s) <=> (s = r /\ m >= 2)
    BY <1>2, <1>3, <1>7 DEF Moving, m, c
  <2>3. \A n \in Maps : Section(g, n, x) = IF n < m THEN {r} ELSE {}
    <3>1. CASE m = 1
      <4>1. \A n \in Maps : Section(g, n, x) = Section(g, Hash, x)
        BY <1>11, <1>15, <2>2, <3>1 DEF OwnSection
      <4>2. Section(g, Hash, x) = {}
        BY <1>4, <1>15, <3>1, MapNames DEF Section
      <4>3. \A n \in Maps : ~(n < m)
        BY <3>1 DEF Maps
      <4> QED
        BY <4>1, <4>2, <4>3
    <3>2. CASE m # 1
      <4>1. Moving(c, r)
        BY <1>7, <2>2, <3>2
      <4>2. Half(g, c, r)
        BY <1>11, <1>15, <4>1 DEF OwnSection
      <4>3. c.at = m
        BY DEF c, m
      <4> QED
        BY <1>2, <4>2, <4>3 DEF Half
    <3> QED
      BY <3>1, <3>2
  <2>4. \A n \in Maps : Section(k, n, x) = IF n < m + 1 THEN {r} ELSE {}
    <3> SUFFICES ASSUME NEW n \in Maps PROVE Section(k, n, x) = IF n < m + 1 THEN {r} ELSE {}
      OBVIOUS
    <3>1. CASE n = m
      <4>1. Section(g, m, x) = {}
        BY <1>2, <2>3, <1>7
      <4>2. \A s \in k.map[m] : s.tx = x => s = r
        BY <1>6, <1>10, <4>1 DEF Section
      <4>3. Section(k, m, x) = {r}
        BY <1>6, <1>10, <4>2 DEF Section
      <4> QED
        BY <3>1, <4>3, <1>7
    <3>2. CASE n # m
      <4>1. Section(k, n, x) = Section(g, n, x)
        BY <1>10, <3>2 DEF Section
      <4>2. n < m + 1 <=> n < m
        BY <1>7, <3>2 DEF Maps
      <4> QED
        BY <2>3, <4>1, <4>2
    <3> QED
      BY <3>1, <3>2
  <2>5. Half(k, d, r)
    BY <1>7, <2>4 DEF Half
  <2>6. OwnSection(k, p, x)
    BY <1>10, <2>1, <2>5 DEF OwnSection
  <2>7. ASSUME NEW s \in Records, s.tx = x PROVE OwnCounted(g, p, s) <=> OwnCounted(k, p, s)
    <3>1. ~Takes(c, s) /\ ~Takes(d, s)
      BY <1>2, <1>7 DEF Takes
    <3>2. s \in k.map[Hash] /\ ~Adds(d, s) <=> FALSE
      <4>1. s \in k.map[Hash] => s \in {r}
        BY <2>4, <2>7, MapNames, <1>7 DEF Section
      <4> QED
        BY <2>1, <1>7, <4>1 DEF Adds
    <3>3. s \in g.map[Hash] /\ ~Adds(c, s) <=> FALSE
      <4>1. s \in g.map[Hash] => s \in {r} /\ m >= 2
        BY <2>3, <2>7, MapNames, <1>7 DEF Section
      <4> QED
        BY <2>2, <1>2, <4>1 DEF Adds
    <3> QED
      BY <1>10, <1>11, <3>1, <3>2, <3>3 DEF OwnCounted
  <2> QED
    BY <2>6, <2>7
<1>16. (~k.stale => ~g.stale) /\ (~k.raced => ~g.raced) /\ k.total = g.total /\ DiInv(g)
  BY <1>4 DEF g
<1>17. DiInv(k)
  BY <1>10, <1>12, <1>13, <1>14, <1>15, <1>16, DimKeepsTotal
<1> QED
  BY <1>17 DEF k

LEMMA RestingFacts == Resting \in DimCalls /\ CallSound(Resting) /\ Resting.op = "none" /\ Resting.rec = {} /\ Resting.next = {}
  BY DEF Resting, DimCalls, CallSound

\* a step that touches no map
SameMaps(g, k) == k.map = g.map
LEMMA MapsStay ==
  ASSUME NEW g, NEW k, DiShape(g), SameMaps(g, k)
  PROVE  /\ k.map = [g.map EXCEPT ![Hash] = g.map[Hash]] /\ g.map[Hash] \in SUBSET Records /\ IsFiniteSet(g.map[Hash])
         /\ \A n \in Maps : \A x : Section(k, n, x) = Section(g, n, x)
         /\ OnePerHash(g) => OnePerHash(k)
<1>1. k.map = [g.map EXCEPT ![Hash] = g.map[Hash]]
  BY DEF SameMaps, DiShape
<1>2. g.map[Hash] \in SUBSET Records /\ IsFiniteSet(g.map[Hash])
  BY MapNames DEF DiShape
<1> QED
  BY <1>1, <1>2 DEF SameMaps, Section, OnePerHash

LEMMA InsertTotalKeeps ==
  ASSUME DiInv(di), NEW p \in Client, InsertTotal(p)
  PROVE  DiInv(di')
<1> DEFINE g == di
           k == di'
           c == di.call[p]
           S == di.map[Hash]
<1>1. DiShape(g) /\ OnePerHash(g)
  BY DEF DiInv
<1>2. c \in DimCalls /\ CallSound(c) /\ c.op = "insert" /\ c.at = 5 /\ g.call[p] = c
  BY <1>1 DEF DiShape, InsertTotal, AtTotal
<1>3. PICK r \in Records : c.rec = {r} /\ c.next = {}
  BY <1>2 DEF CallSound
<1> DEFINE x == r.tx
<1>4. /\ DOMAIN k = DOMAIN g /\ k.map = g.map /\ k.calls = g.calls /\ k.call = [g.call EXCEPT ![p] = Resting]
      /\ k.total = g.total + 1 /\ k.raced = g.raced /\ k.stale = g.stale
      /\ k.total \in Nat /\ k.stale \in BOOLEAN /\ k.raced \in BOOLEAN
  BY <1>1 DEF InsertTotal, DiShape
<1>5. S = g.map[Hash]
  OBVIOUS
<1> HIDE DEF g, k, c, S
<1>6. SameMaps(g, k)
  BY <1>4 DEF SameMaps
<1>7. /\ k.map = [g.map EXCEPT ![Hash] = S] /\ S \in SUBSET Records /\ IsFiniteSet(S)
      /\ \A n \in Maps : \A y : Section(k, n, y) = Section(g, n, y)
      /\ OnePerHash(k)
  BY <1>1, <1>5, <1>6, MapsStay
<1>8. StepsTo(g, k, p, Hash, S, Resting)
  BY <1>4, <1>7, RestingFacts DEF StepsTo
<1>9. DiShape(k) /\ Stepped(g, k, p, Hash, S, Resting)
  BY <1>1, <1>8, MapNames, StepShape
<1>10. k.call[p] = Resting /\ \A q \in Client \ {p} : k.call[q] = g.call[q]
  BY <1>9 DEF Stepped
<1>11. AboutOne(g, k, p, x)
  <2>1. TxsOf(c) = {x} /\ TxsOf(Resting) = {}
    BY <1>3, RestingFacts DEF TxsOf
  <2> QED
    BY <1>2, <1>4, <1>10, <2>1, RestingFacts DEF AboutOne
<1>12. ASSUME OwnSection(g, p, x)
       PROVE  /\ OwnSection(k, p, x)
              /\ \A s \in Records : s.tx = x /\ s # r => (OwnCounted(g, p, s) <=> OwnCounted(k, p, s))
              /\ ~OwnCounted(g, p, r) /\ OwnCounted(k, p, r)
  <2>1. \A s \in Records : (Moving(c, s) <=> s = r) /\ ~Moving(Resting, s)
    BY <1>2, <1>3, RestingFacts DEF Moving
  <2>2. \A n \in Maps : Section(g, n, x) = {r}
    <3>1. Half(g, c, r)
      BY <1>2, <1>12, <2>1 DEF OwnSection
    <3>2. \A n \in Maps : n < c.at
      BY <1>2 DEF Maps
    <3> QED
      BY <1>2, <3>1, <3>2 DEF Half
  <2>3. OwnSection(k, p, x)
    BY <1>7, <1>10, <2>1, <2>2, MapNames DEF OwnSection
  <2>4. \A s \in Records : s.tx = x => (s \in g.map[Hash] <=> s = r)
    BY <2>2, MapNames DEF Section
  <2>5. \A s \in Records : s.tx = x => ~OwnCounted(g, p, s)
    BY <1>2, <2>1, <2>4 DEF OwnCounted, Adds, Takes
  <2>6. \A s \in Records : s.tx = x => (OwnCounted(k, p, s) <=> s = r)
    BY <1>4, <1>10, <2>1, <2>4 DEF OwnCounted, Adds, Takes
  <2> QED
    BY <2>3, <2>5, <2>6
<1>13. (~k.stale => ~g.stale) /\ (~k.raced => ~g.raced) /\ DiInv(g)
  BY <1>4 DEF g
<1>14. DiInv(k)
  BY <1>4, <1>7, <1>9, <1>11, <1>12, <1>13, DimKeepsOne
<1> QED
  BY <1>14 DEF k

LEMMA RemoveByKeyKeeps ==
  ASSUME DiInv(di), NEW p \in Client, RemoveByKey(p)
  PROVE  DiInv(di')
<1> DEFINE g == di
           k == di'
           c == di.call[p]
           m == di.call[p].at
           d == [c EXCEPT !.at = c.at + 1]
<1>1. DiShape(g) /\ OnePerHash(g)
  BY DEF DiInv
<1>2. c \in DimCalls /\ CallSound(c) /\ c.op = "remove" /\ m \in Maps /\ m \in 2 .. 4 /\ g.call[p] = c /\ c.at = m
  BY <1>1 DEF DiShape, RemoveByKey, AtMap, Maps
<1>3. PICK r \in Records : c.rec = {r} /\ (c.next = {} \/ \E s \in Records : c.next = {s} /\ s.tx = r.tx)
  BY <1>2 DEF CallSound
<1> DEFINE x == r.tx
           S == CutFrom(g.map[m], m, r)
<1>4. /\ DOMAIN k = DOMAIN g /\ k.map = [g.map EXCEPT ![m] = S] /\ k.calls = g.calls /\ k.call = [g.call EXCEPT ![p] = d]
      /\ k.total = g.total /\ k.raced = g.raced /\ k.stale = g.stale
  BY <1>1, <1>2, <1>3 DEF RemoveByKey, DiShape
<1>5. g.map[m] \in SUBSET Records /\ IsFiniteSet(g.map[m]) /\ g.total \in Nat /\ g.stale \in BOOLEAN /\ g.raced \in BOOLEAN
  BY <1>1, <1>2 DEF DiShape
<1>6. /\ S \in SUBSET Records /\ IsFiniteSet(S) /\ r \notin S
      /\ \A s \in Records : s.tx # r.tx => (s \in S <=> s \in g.map[m])
      /\ S \subseteq g.map[m]
  BY <1>2, <1>5, CutFacts
<1>7. d \in DimCalls /\ d.op = "remove" /\ d.at = m + 1 /\ d.rec = c.rec /\ d.next = c.next
  BY <1>2, <1>3 DEF DimCalls, Maps
<1>8. CallSound(d)
  BY <1>2, <1>3, <1>7 DEF CallSound
<1>9. k.stale \in BOOLEAN /\ k.raced \in BOOLEAN /\ k.total \in Nat
  BY <1>4, <1>5
<1> HIDE DEF g, k, c, m, d, S
<1>s. StepsTo(g, k, p, m, S, d)
  BY <1>4, <1>6, <1>7, <1>8, <1>9 DEF StepsTo
<1>t. DiShape(k) /\ Stepped(g, k, p, m, S, d)
  BY <1>1, <1>2, <1>s, StepShape
<1>10. /\ DiShape(k) /\ k.map[m] = S /\ (\A n \in Maps \ {m} : k.map[n] = g.map[n])
       /\ k.call[p] = d /\ \A q \in Client \ {p} : k.call[q] = g.call[q]
  BY <1>t DEF Stepped
<1>11. k.map[Hash] = g.map[Hash] /\ OnePerHash(k)
  BY <1>1, <1>2, <1>10, MapNames DEF OnePerHash
<1>12. AboutOne(g, k, p, x)
  <2>1. TxsOf(c) = {x} /\ TxsOf(d) = {x}
    BY <1>3, <1>7 DEF TxsOf
  <2>2. \A n \in Maps : \A s \in Records : s.tx # x => (s \in k.map[n] <=> s \in g.map[n])
    BY <1>6, <1>10
  <2> QED
    BY <1>2, <1>7, <1>10, <2>1, <2>2 DEF AboutOne
<1>13. x \in Nat
  BY RecordParts
<1>14. ASSUME OwnSection(g, p, x)
       PROVE  OwnSection(k, p, x) /\ \A s \in Records : s.tx = x => (OwnCounted(g, p, s) <=> OwnCounted(k, p, s))
  <2>1. \A s \in Records : (Moving(d, s) <=> s = r) /\ (Moving(c, s) <=> s = r)
    BY <1>2, <1>3, <1>7 DEF Moving
  <2>2. \A n \in Maps : Section(g, n, x) = IF n < m THEN {} ELSE {r}
    <3>1. Half(g, c, r)
      BY <1>2, <1>14, <2>1 DEF OwnSection
    <3> QED
      BY <1>2, <3>1 DEF Half
  <2>3. ASSUME NEW n \in Maps PROVE Section(k, n, x) = IF n < m + 1 THEN {} ELSE {r}
    <3>1. CASE n = m
      <4>1. Section(g, m, x) = {r}
        BY <1>2, <2>2
      <4>2. \A s \in S : s.tx # x
        BY <1>6, <4>1 DEF Section
      <4>3. Section(k, m, x) = {}
        BY <1>10, <4>2 DEF Section
      <4> QED
        BY <1>2, <3>1, <4>3
    <3>2. CASE n # m
      <4>1. Section(k, n, x) = Section(g, n, x)
        BY <1>10, <3>2 DEF Section
      <4>2. n < m + 1 <=> n < m
        BY <1>2, <3>2 DEF Maps
      <4> QED
        BY <2>2, <4>1, <4>2
    <3> QED
      BY <3>1, <3>2
  <2>4. Half(k, d, r)
    BY <1>7, <2>3 DEF Half
  <2>5. OwnSection(k, p, x)
    BY <1>10, <2>1, <2>4 DEF OwnSection
  <2>6. \A s \in Records : s.tx = x => (OwnCounted(g, p, s) <=> OwnCounted(k, p, s))
    BY <1>2, <1>7, <1>10, <1>11, <2>1 DEF OwnCounted, Adds, Takes
  <2> QED
    BY <2>5, <2>6
<1>15. (~k.stale => ~g.stale) /\ (~k.raced => ~g.raced) /\ k.total = g.total /\ DiInv(g)
  BY <1>4 DEF g
<1>16. DiInv(k)
  BY <1>10, <1>11, <1>12, <1>13, <1>14, <1>15, DimKeepsTotal
<1> QED
  BY <1>16 DEF k

\* what follows a remove: nothing, or the insert of an update
Followed(c) == IF c.next = {} THEN Resting ELSE [op |-> "insert", at |-> 1, rec |-> c.next, next |-> {}]
LEMMA FollowedFacts ==
  ASSUME NEW c \in DimCalls, CallSound(c), c.op = "remove"
  PROVE  /\ Followed(c) \in DimCalls /\ CallSound(Followed(c)) /\ Followed(c).op # "reset"
         /\ \A s : ~Moving(Followed(c), s)
         /\ TxsOf(Followed(c)) \subseteq TxsOf(c)
<1>1. CASE c.next = {}
  <2>1. Followed(c) = Resting
    BY <1>1 DEF Followed
  <2>2. \A s : ~Moving(Resting, s)
    BY RestingFacts DEF Moving
  <2>3. TxsOf(Resting) = {}
    BY RestingFacts DEF TxsOf
  <2> QED
    BY <2>1, <2>2, <2>3, RestingFacts
<1>2. CASE c.next # {}
  <2>1. Followed(c) = [op |-> "insert", at |-> 1, rec |-> c.next, next |-> {}]
    BY <1>2 DEF Followed
  <2>2. PICK s \in Records : c.next = {s}
    BY <1>2 DEF CallSound
  <2>3. Followed(c) \in DimCalls
    BY <2>1, <2>2 DEF DimCalls
  <2>4. Followed(c).op = "insert" /\ Followed(c).at = 1 /\ Followed(c).rec = {s} /\ Followed(c).next = {}
    BY <2>1, <2>2
  <2>5. CallSound(Followed(c))
    BY <2>4 DEF CallSound
  <2>6. \A y : ~Moving(Followed(c), y)
    BY <2>4 DEF Moving
  <2>7. TxsOf(Followed(c)) \subseteq TxsOf(c)
    BY <2>2, <2>4 DEF TxsOf
  <2> QED
    BY <2>3, <2>4, <2>5, <2>6, <2>7
<1> QED
  BY <1>1, <1>2

LEMMA RemoveTotalKeeps ==
  ASSUME DiInv(di), NEW p \in Client, RemoveTotal(p)
  PROVE  DiInv(di')
<1> DEFINE g == di
           k == di'
           c == di.call[p]
           S == di.map[Hash]
           d == Followed(c)
<1>1. DiShape(g) /\ OnePerHash(g)
  BY DEF DiInv
<1>2. c \in DimCalls /\ CallSound(c) /\ c.op = "remove" /\ c.at = 5 /\ g.call[p] = c
  BY <1>1 DEF DiShape, RemoveTotal, AtTotal
<1>3. PICK r \in Records : c.rec = {r} /\ (c.next = {} \/ \E s \in Records : c.next = {s} /\ s.tx = r.tx)
  BY <1>2 DEF CallSound
<1> DEFINE x == r.tx
<1>4. /\ DOMAIN k = DOMAIN g /\ k.map = g.map /\ k.calls = g.calls /\ k.call = [g.call EXCEPT ![p] = d]
      /\ k.total = (IF g.total = 0 THEN 0 ELSE g.total - 1) /\ k.raced = g.raced /\ k.stale = g.stale
  BY <1>1 DEF RemoveTotal, AfterRemove, Followed, DiShape
<1>5. k.total \in Nat /\ k.stale \in BOOLEAN /\ k.raced \in BOOLEAN
  BY <1>1, <1>4 DEF DiShape
<1>6. S = g.map[Hash]
  OBVIOUS
<1>7. d \in DimCalls /\ CallSound(d) /\ d.op # "reset" /\ (\A s : ~Moving(d, s)) /\ TxsOf(d) \subseteq TxsOf(c)
  BY <1>2, FollowedFacts
<1> HIDE DEF g, k, c, S, d
<1>8. SameMaps(g, k)
  BY <1>4 DEF SameMaps
<1>9. /\ k.map = [g.map EXCEPT ![Hash] = S] /\ S \in SUBSET Records /\ IsFiniteSet(S)
      /\ \A n \in Maps : \A y : Section(k, n, y) = Section(g, n, y)
      /\ OnePerHash(k)
  BY <1>1, <1>6, <1>8, MapsStay
<1>10. StepsTo(g, k, p, Hash, S, d)
  BY <1>4, <1>5, <1>7, <1>9 DEF StepsTo
<1>11. DiShape(k) /\ Stepped(g, k, p, Hash, S, d)
  BY <1>1, <1>10, MapNames, StepShape
<1>12. k.call[p] = d /\ \A q \in Client \ {p} : k.call[q] = g.call[q]
  BY <1>11 DEF Stepped
<1>13. AboutOne(g, k, p, x)
  <2>1. TxsOf(c) = {x}
    BY <1>3 DEF TxsOf
  <2> QED
    BY <1>2, <1>4, <1>7, <1>12, <2>1 DEF AboutOne
<1>14. ASSUME OwnSection(g, p, x)
       PROVE  /\ OwnSection(k, p, x)
              /\ \A s \in Records : s.tx = x /\ s # r => (OwnCounted(g, p, s) <=> OwnCounted(k, p, s))
              /\ OwnCounted(g, p, r) /\ ~OwnCounted(k, p, r)
  <2>1. \A s \in Records : Moving(c, s) <=> s = r
    BY <1>2, <1>3 DEF Moving
  <2>2. \A n \in Maps : Section(g, n, x) = {}
    <3>1. Half(g, c, r)
      BY <1>2, <1>14, <2>1 DEF OwnSection
    <3>2. \A n \in Maps : n < c.at
      BY <1>2 DEF Maps
    <3> QED
      BY <1>2, <3>1, <3>2 DEF Half
  <2>3. OwnSection(k, p, x)
    BY <1>7, <1>9, <1>12, <2>2, MapNames DEF OwnSection
  <2>4. \A s \in Records : s.tx = x => s \notin g.map[Hash]
    BY <2>2, MapNames DEF Section
  <2>5. \A s \in Records : s.tx = x => (OwnCounted(g, p, s) <=> s = r)
    BY <1>2, <2>1, <2>4 DEF OwnCounted, Adds, Takes
  <2>6. \A s \in Records : s.tx = x => ~OwnCounted(k, p, s)
    BY <1>4, <1>7, <1>12, <2>4 DEF OwnCounted, Adds, Takes
  <2> QED
    BY <2>3, <2>5, <2>6
<1>15. (~k.stale => ~g.stale) /\ (~k.raced => ~g.raced) /\ DiInv(g)
  BY <1>4 DEF g
<1>16. DiInv(k)
  BY <1>4, <1>9, <1>11, <1>13, <1>14, <1>15, DimKeepsOne
<1> QED
  BY <1>16 DEF k

LEMMA NotFoundKeeps ==
  ASSUME DiInv(di), NEW p \in Client, di.call[p].op = "remove", di.call[p].at = 1, di' = AfterRemove(p, di)
  PROVE  DiInv(di')
<1> DEFINE g == di
           k == di'
           c == di.call[p]
           S == di.map[Hash]
           d == Followed(c)
<1>1. DiShape(g) /\ OnePerHash(g)
  BY DEF DiInv
<1>2. c \in DimCalls /\ CallSound(c) /\ c.op = "remove" /\ c.at = 1 /\ g.call[p] = c
  BY <1>1 DEF DiShape
<1>3. PICK r \in Records : c.rec = {r} /\ (c.next = {} \/ \E s \in Records : c.next = {s} /\ s.tx = r.tx)
  BY <1>2 DEF CallSound
<1> DEFINE x == r.tx
<1>4. /\ DOMAIN k = DOMAIN g /\ k.map = g.map /\ k.calls = g.calls /\ k.call = [g.call EXCEPT ![p] = d]
      /\ k.total = g.total /\ k.raced = g.raced /\ k.stale = g.stale
  BY <1>1 DEF AfterRemove, Followed, DiShape
<1>5. k.total \in Nat /\ k.stale \in BOOLEAN /\ k.raced \in BOOLEAN
  BY <1>1, <1>4 DEF DiShape
<1>6. S = g.map[Hash]
  OBVIOUS
<1>7. d \in DimCalls /\ CallSound(d) /\ d.op # "reset" /\ (\A s : ~Moving(d, s)) /\ TxsOf(d) \subseteq TxsOf(c)
  BY <1>2, FollowedFacts
<1> HIDE DEF g, k, c, S, d
<1>8. SameMaps(g, k)
  BY <1>4 DEF SameMaps
<1>9. /\ k.map = [g.map EXCEPT ![Hash] = S] /\ S \in SUBSET Records /\ IsFiniteSet(S)
      /\ \A n \in Maps : \A y : Section(k, n, y) = Section(g, n, y)
      /\ OnePerHash(k)
  BY <1>1, <1>6, <1>8, MapsStay
<1>10. StepsTo(g, k, p, Hash, S, d)
  BY <1>4, <1>5, <1>7, <1>9 DEF StepsTo
<1>11. DiShape(k) /\ Stepped(g, k, p, Hash, S, d)
  BY <1>1, <1>10, MapNames, StepShape
<1>12. k.call[p] = d /\ \A q \in Client \ {p} : k.call[q] = g.call[q]
  BY <1>11 DEF Stepped
<1>13. AboutOne(g, k, p, x)
  <2>1. TxsOf(c) = {x}
    BY <1>3 DEF TxsOf
  <2> QED
    BY <1>2, <1>4, <1>7, <1>12, <2>1 DEF AboutOne
<1>14. ASSUME OwnSection(g, p, x)
       PROVE  OwnSection(k, p, x) /\ \A s \in Records : s.tx = x => (OwnCounted(g, p, s) <=> OwnCounted(k, p, s))
  <2>1. \A s \in Records : ~Moving(c, s)
    BY <1>2 DEF Moving
  <2>2. OwnSection(k, p, x)
    BY <1>2, <1>7, <1>9, <1>12, <1>14, <2>1, MapNames DEF OwnSection
  <2>3. \A s \in Records : OwnCounted(g, p, s) <=> OwnCounted(k, p, s)
    BY <1>2, <1>4, <1>7, <1>12, <2>1 DEF OwnCounted, Adds, Takes
  <2> QED
    BY <2>2, <2>3
<1>15. (~k.stale => ~g.stale) /\ (~k.raced => ~g.raced) /\ k.total = g.total /\ DiInv(g) /\ x \in Nat
  BY <1>4, RecordParts DEF g
<1>16. DiInv(k)
  BY <1>9, <1>11, <1>13, <1>14, <1>15, DimKeepsTotal
<1> QED
  BY <1>16 DEF k

LEMMA FoundCall ==
  ASSUME NEW c \in DimCalls, NEW F
  PROVE  [c EXCEPT !.at = 2, !.rec = F] = [op |-> c.op, at |-> 2, rec |-> F, next |-> c.next]
<1> DEFINE d == [c EXCEPT !.at = 2, !.rec = F]
           e == [op |-> c.op, at |-> 2, rec |-> F, next |-> c.next]
<1>1. DOMAIN c = {"op", "at", "rec", "next"}
  BY DEF DimCalls
<1>2. d = [n \in DOMAIN c |-> IF n = "rec" THEN F ELSE IF n = "at" THEN 2 ELSE c[n]]
  BY <1>1 DEF DimCalls
<1>3. e = [n \in {"op", "at", "rec", "next"} |-> IF n = "rec" THEN F ELSE IF n = "at" THEN 2 ELSE c[n]]
  BY <1>1
<1> QED
  BY <1>1, <1>2, <1>3

LEMMA RemoveByHashKeeps ==
  ASSUME DiInv(di), NEW p \in Client, RemoveByHash(p)
  PROVE  DiInv(di')
<1> DEFINE g == di
           k == di'
           c == di.call[p]
<1>1. DiShape(g) /\ OnePerHash(g)
  BY DEF DiInv
<1>2. c \in DimCalls /\ CallSound(c) /\ c.op = "remove" /\ c.at = 1 /\ g.call[p] = c
  BY <1>1 DEF DiShape, RemoveByHash
<1>3. PICK r \in Records : c.rec = {r} /\ (c.next = {} \/ \E s \in Records : c.next = {s} /\ s.tx = r.tx)
  BY <1>2 DEF CallSound
<1> DEFINE x == r.tx
           found == {s \in g.map[Hash] : s.tx = r.tx}
           d == [c EXCEPT !.at = 2, !.rec = found]
           S == CutFrom(g.map[Hash], Hash, r)
<1>4. CASE found = {}
  <2>1. di' = AfterRemove(p, di)
    BY <1>3, <1>4 DEF RemoveByHash
  <2> QED
    BY <1>2, <2>1, NotFoundKeeps
<1>5. CASE found # {}
  <2>1. PICK f \in found : TRUE
    BY <1>5
  <2>2. f \in g.map[Hash] /\ f.tx = x /\ g.map[Hash] \in SUBSET Records /\ IsFiniteSet(g.map[Hash])
    BY <1>1, <2>1, MapNames DEF DiShape
  <2>3. found = {f} /\ f \in Records
    BY <1>1, <2>2 DEF OnePerHash
  <2>a. k = [g EXCEPT !.map[Hash] = CutFrom(@, Hash, r), !.call[p].at = 2, !.call[p].rec = found]
    BY <1>3, <1>5 DEF RemoveByHash
  <2>9. Section(g, Hash, x) = {f}
    BY <2>3 DEF Section
  <2> HIDE DEF found
  <2>b. /\ DOMAIN k = DOMAIN g /\ k.map = [g.map EXCEPT ![Hash] = S] /\ k.calls = g.calls
        /\ k.total = g.total /\ k.raced = g.raced /\ k.stale = g.stale
    BY <1>1, <2>a DEF DiShape
  <2>c. k.call = [g.call EXCEPT ![p] = d]
    <3>1. k.call = [g.call EXCEPT ![p].at = 2, ![p].rec = found]
      BY <1>1, <2>a DEF DiShape
    <3> QED
      BY <1>1, <3>1 DEF DiShape
  <2>4. /\ DOMAIN k = DOMAIN g /\ k.map = [g.map EXCEPT ![Hash] = S] /\ k.calls = g.calls /\ k.call = [g.call EXCEPT ![p] = d]
        /\ k.total = g.total /\ k.raced = g.raced /\ k.stale = g.stale
    BY <2>b, <2>c
  <2>5. k.total \in Nat /\ k.stale \in BOOLEAN /\ k.raced \in BOOLEAN
    BY <1>1, <2>4 DEF DiShape
  <2>6. /\ S \in SUBSET Records /\ IsFiniteSet(S)
        /\ \A s \in Records : s.tx # r.tx => (s \in S <=> s \in g.map[Hash])
        /\ S \subseteq g.map[Hash]
        /\ \A s \in S : s.tx # r.tx
    BY <2>2, MapNames, CutFacts
  <2>7. d \in DimCalls /\ d.op = "remove" /\ d.at = 2 /\ d.rec = {f} /\ d.next = c.next
    <3>1. found \in SUBSET Records /\ 2 \in 0 .. 5
      BY <2>3
    <3>2. d = [op |-> c.op, at |-> 2, rec |-> found, next |-> c.next]
      BY <1>2, FoundCall
    <3>3. c.op \in {"none", "insert", "remove", "reset"} /\ c.next \in SUBSET Records
      BY <1>2 DEF DimCalls
    <3>4. d \in DimCalls
      BY <3>1, <3>2, <3>3 DEF DimCalls
    <3> QED
      BY <1>2, <2>3, <3>2, <3>4
  <2>8. CallSound(d)
    BY <1>3, <2>2, <2>3, <2>7 DEF CallSound
  <2> HIDE DEF g, k, c, d, S
  <2>10. StepsTo(g, k, p, Hash, S, d)
    BY <2>4, <2>5, <2>6, <2>7, <2>8 DEF StepsTo
  <2>11. DiShape(k) /\ Stepped(g, k, p, Hash, S, d)
    BY <1>1, <2>10, MapNames, StepShape
  <2>12. /\ k.map[Hash] = S /\ (\A n \in Maps \ {Hash} : k.map[n] = g.map[n])
         /\ k.call[p] = d /\ \A q \in Client \ {p} : k.call[q] = g.call[q]
    BY <2>11 DEF Stepped
  <2>13. OnePerHash(k)
    BY <1>1, <2>6, <2>12 DEF OnePerHash
  <2>14. AboutOne(g, k, p, x)
    <3>1. TxsOf(c) = {x} /\ TxsOf(d) = {x}
      BY <1>3, <2>2, <2>7 DEF TxsOf
    <3>2. \A n \in Maps : \A s \in Records : s.tx # x => (s \in k.map[n] <=> s \in g.map[n])
      BY <2>6, <2>12
    <3> QED
      BY <1>2, <2>7, <2>12, <3>1, <3>2 DEF AboutOne
  <2>15. ASSUME OwnSection(g, p, x)
         PROVE  OwnSection(k, p, x) /\ \A s \in Records : s.tx = x => (OwnCounted(g, p, s) <=> OwnCounted(k, p, s))
    <3>1. \A s \in Records : ~Moving(c, s) /\ (Moving(d, s) <=> s = f)
      BY <1>2, <2>7 DEF Moving
    <3>2. \A n \in Maps : Section(g, n, x) = {f}
      BY <1>2, <2>9, <2>15, <3>1 DEF OwnSection
    <3>3. ASSUME NEW n \in Maps PROVE Section(k, n, x) = IF n < 2 THEN {} ELSE {f}
      <4>1. CASE n = Hash
        <5>1. Section(k, Hash, x) = {}
          BY <2>6, <2>12 DEF Section
        <5> QED
          BY <4>1, <5>1, MapNames
      <4>2. CASE n # Hash
        <5>1. Section(k, n, x) = Section(g, n, x)
          BY <2>12, <4>2 DEF Section
        <5>2. ~(n < 2)
          BY <4>2 DEF Maps, Hash
        <5> QED
          BY <3>2, <5>1, <5>2
      <4> QED
        BY <4>1, <4>2
    <3>4. Half(k, d, f)
      BY <2>2, <2>7, <3>3 DEF Half
    <3>5. OwnSection(k, p, x)
      BY <2>3, <2>12, <3>1, <3>4 DEF OwnSection
    <3>6. \A s \in Records : s.tx = x => (s \in g.map[Hash] <=> s = f)
      BY <2>2, <3>2, MapNames DEF Section
    <3>7. \A s \in Records : s.tx = x => s \notin k.map[Hash]
      BY <2>6, <2>12
    <3>8. \A s \in Records : s.tx = x => (OwnCounted(g, p, s) <=> s = f)
      BY <1>2, <3>1, <3>6 DEF OwnCounted, Adds, Takes
    <3>9. \A s \in Records : s.tx = x => (OwnCounted(k, p, s) <=> s = f)
      BY <2>7, <2>12, <3>1, <3>7 DEF OwnCounted, Adds, Takes
    <3> QED
      BY <3>5, <3>8, <3>9
  <2>16. (~k.stale => ~g.stale) /\ (~k.raced => ~g.raced) /\ k.total = g.total /\ DiInv(g) /\ x \in Nat
    BY <2>4, RecordParts DEF g
  <2>17. DiInv(k)
    BY <2>11, <2>13, <2>14, <2>15, <2>16, DimKeepsTotal
  <2> QED
    BY <2>17 DEF k
<1> QED
  BY <1>4, <1>5

\* a reset has the index to itself unless it races
LEMMA ResetAlone ==
  ASSUME NEW g, NEW p \in Client, CallsApart(g), g.call[p].op = "reset"
  PROVE  \A q \in Client \ {p} : g.call[q].op = "none"
  BY DEF CallsApart

LEMMA ResetMapKeeps ==
  ASSUME DiInv(di), NEW p \in Client, ResetMap(p)
  PROVE  DiInv(di')
<1> DEFINE g == di
           k == di'
           c == di.call[p]
           m == di.call[p].at
           d == [c EXCEPT !.at = c.at + 1]
<1>1. DiShape(g) /\ OnePerHash(g)
  BY DEF DiInv
<1>2. c \in DimCalls /\ CallSound(c) /\ c.op = "reset" /\ m \in Maps /\ m \in 1 .. 4 /\ g.call[p] = c /\ c.at = m
  BY <1>1 DEF DiShape, ResetMap, AtMap, Maps
<1>3. /\ DOMAIN k = DOMAIN g /\ k.map = [g.map EXCEPT ![m] = {}] /\ k.calls = g.calls /\ k.call = [g.call EXCEPT ![p] = d]
      /\ k.total = g.total /\ k.raced = g.raced /\ k.stale = g.stale
  BY <1>1, <1>2 DEF ResetMap, DiShape
<1>4. k.total \in Nat /\ k.stale \in BOOLEAN /\ k.raced \in BOOLEAN
  BY <1>1, <1>3 DEF DiShape
<1>5. d \in DimCalls /\ d.op = "reset" /\ d.at = m + 1
  BY <1>2 DEF DimCalls, Maps
<1>6. CallSound(d)
  BY <1>2, <1>5 DEF CallSound
<1>7. IsFiniteSet({}) /\ {} \in SUBSET Records
  BY FS_EmptySet
<1> HIDE DEF g, k, c, m, d
<1>8. StepsTo(g, k, p, m, {}, d)
  BY <1>3, <1>4, <1>5, <1>6, <1>7 DEF StepsTo
<1>9. DiShape(k) /\ Stepped(g, k, p, m, {}, d)
  BY <1>1, <1>2, <1>8, StepShape
<1>10. /\ k.map[m] = {} /\ (\A n \in Maps \ {m} : k.map[n] = g.map[n])
       /\ k.call[p] = d /\ \A q \in Client \ {p} : k.call[q] = g.call[q]
  BY <1>9 DEF Stepped
<1>11. OnePerHash(k)
  BY <1>1, <1>10, MapNames DEF OnePerHash
<1>12. ASSUME ~k.stale, ~k.raced PROVE DimSound(k)
  <2>1. CallsApart(g) /\ ResetsDone(g)
    BY <1>3, <1>12 DEF DiInv, DimSound, g
  <2>2. \A q \in Client \ {p} : k.call[q].op = "none"
    BY <1>2, <1>10, <2>1, ResetAlone
  <2>3. CallsApart(k) /\ ~NoResets(k)
    BY <1>5, <1>10, <2>2 DEF CallsApart, NoResets
  <2>4. ASSUME NEW n \in Maps, n < m + 1 PROVE k.map[n] = {}
    <3>1. CASE n = m
      BY <1>10, <3>1
    <3>2. CASE n # m
      <4>1. n < m
        BY <1>2, <2>4, <3>2 DEF Maps
      <4>2. g.map[n] = {}
        BY <1>2, <2>1, <4>1 DEF ResetsDone
      <4> QED
        BY <1>10, <3>2, <4>2
    <3> QED
      BY <3>1, <3>2
  <2>5. ResetsDone(k)
    BY <1>5, <1>10, <2>2, <2>4 DEF ResetsDone
  <2> QED
    BY <2>3, <2>5 DEF DimSound
<1>13. DiInv(k)
  BY <1>9, <1>11, <1>12 DEF DiInv
<1> QED
  BY <1>13 DEF k

LEMMA ResetTotalKeeps ==
  ASSUME DiInv(di), NEW p \in Client, ResetTotal(p)
  PROVE  DiInv(di')
<1> DEFINE g == di
           k == di'
           c == di.call[p]
           S == di.map[Hash]
<1>1. DiShape(g) /\ OnePerHash(g)
  BY DEF DiInv
<1>2. c.op = "reset" /\ c.at = 5 /\ g.call[p] = c
  BY <1>1 DEF DiShape, ResetTotal, AtTotal
<1>3. /\ DOMAIN k = DOMAIN g /\ k.map = g.map /\ k.calls = g.calls /\ k.call = [g.call EXCEPT ![p] = Resting]
      /\ k.total = 0 /\ k.raced = g.raced /\ k.stale = g.stale
  BY <1>1 DEF ResetTotal, DiShape
<1>4. k.total \in Nat /\ k.stale \in BOOLEAN /\ k.raced \in BOOLEAN
  BY <1>1, <1>3 DEF DiShape
<1>5. S = g.map[Hash]
  OBVIOUS
<1> HIDE DEF g, k, c, S
<1>6. SameMaps(g, k)
  BY <1>3 DEF SameMaps
<1>7. /\ k.map = [g.map EXCEPT ![Hash] = S] /\ S \in SUBSET Records /\ IsFiniteSet(S)
      /\ OnePerHash(k)
  BY <1>1, <1>5, <1>6, MapsStay
<1>8. StepsTo(g, k, p, Hash, S, Resting)
  BY <1>3, <1>4, <1>7, RestingFacts DEF StepsTo
<1>9. DiShape(k) /\ Stepped(g, k, p, Hash, S, Resting)
  BY <1>1, <1>8, MapNames, StepShape
<1>10. k.call[p] = Resting /\ \A q \in Client \ {p} : k.call[q] = g.call[q]
  BY <1>9 DEF Stepped
<1>11. ASSUME ~k.stale, ~k.raced PROVE DimSound(k)
  <2>1. CallsApart(g) /\ ResetsDone(g)
    BY <1>3, <1>11 DEF DiInv, DimSound, g
  <2>2. \A q \in Client : k.call[q].op = "none"
    BY <1>2, <1>10, <2>1, ResetAlone, RestingFacts
  <2>3. \A n \in Maps : n < 5 /\ g.map[n] = {}
    BY <1>2, <2>1 DEF ResetsDone, Maps
  <2>4. \A n \in Maps : k.map[n] = {}
    BY <1>3, <2>3
  <2>5. \A q \in Client, r \in Records : ~Moving(k.call[q], r)
    BY <2>2 DEF Moving
  <2>6. \A x \in Nat : SectionSound(k, x)
    BY <2>4, <2>5, MapNames DEF SectionSound, Section
  <2>7. CountedRecords(k) = {}
    BY <2>4, <2>5, MapNames DEF CountedRecords, Takes
  <2>8. TotalSound(k)
    BY <1>3, <2>7, FS_EmptySet DEF TotalSound
  <2>9. CallsApart(k) /\ ResetsDone(k)
    BY <2>2 DEF CallsApart, ResetsDone
  <2> QED
    BY <2>6, <2>8, <2>9 DEF DimSound
<1>12. DiInv(k)
  BY <1>7, <1>9, <1>11 DEF DiInv
<1> QED
  BY <1>12 DEF k

\* a new call of thread p
NewCall(c) == c \in DimCalls /\ CallSound(c) /\ c.at = 1 /\ c.op # "none"
NoOverlap(g, c) ==
  \A q \in Client : g.call[q].op # "none" =>
    c.op # "reset" /\ g.call[q].op # "reset" /\ TxsOf(c) \intersect TxsOf(g.call[q]) = {}
LEMMA NewCallKeeps ==
  ASSUME NEW g, NEW k, NEW p \in Client, NEW c, DiInv(g), NewCall(c), g.call[p].op = "none", SameMaps(g, k),
         DOMAIN k = DOMAIN g, k.calls = g.calls + 1, k.call = [g.call EXCEPT ![p] = c], k.total = g.total,
         k.stale = g.stale, k.raced \in BOOLEAN, ~k.raced => ~g.raced /\ NoOverlap(g, c)
  PROVE  DiInv(k)
<1> DEFINE S == g.map[Hash]
<1>1. DiShape(g) /\ OnePerHash(g)
  BY DEF DiInv
<1>2. k.total \in Nat /\ k.stale \in BOOLEAN
  BY <1>1 DEF DiShape
<1>3. /\ k.map = [g.map EXCEPT ![Hash] = S] /\ S \in SUBSET Records /\ IsFiniteSet(S) /\ OnePerHash(k)
      /\ \A n \in Maps : \A x : Section(k, n, x) = Section(g, n, x)
  BY <1>1, MapsStay
<1>4. StepsTo(g, k, p, Hash, S, c)
  BY <1>2, <1>3 DEF StepsTo, NewCall
<1> HIDE DEF S
<1>5. DiShape(k) /\ Stepped(g, k, p, Hash, S, c)
  BY <1>1, <1>4, MapNames, StepShape
<1>6. k.call[p] = c /\ \A q \in Client \ {p} : k.call[q] = g.call[q]
  BY <1>5 DEF Stepped
<1>7. ASSUME ~k.stale, ~k.raced PROVE DimSound(k)
  <2>1. DimSound(g) /\ CallsApart(g) /\ ResetsDone(g) /\ NoOverlap(g, c)
    BY <1>7 DEF DiInv, DimSound
  <2>2. CallsApart(k)
    <3> SUFFICES ASSUME NEW a \in Client, NEW b \in Client, a # b, k.call[a].op # "none", k.call[b].op # "none"
                 PROVE  k.call[a].op # "reset" /\ TxsOf(k.call[a]) \intersect TxsOf(k.call[b]) = {}
      BY DEF CallsApart
    <3>1. CASE a = p
      BY <1>6, <2>1, <3>1 DEF NoOverlap
    <3>2. CASE b = p
      BY <1>6, <2>1, <3>2 DEF NoOverlap
    <3>3. CASE a # p /\ b # p
      BY <1>6, <2>1, <3>3 DEF CallsApart
    <3> QED
      BY <3>1, <3>2, <3>3
  <2>3. \A n \in Maps : ~(n < 1)
    BY DEF Maps
  <2>4. ResetsDone(k)
    BY <1>6, <2>1, <2>3 DEF ResetsDone, NewCall, SameMaps
  <2>5. ASSUME NoResets(k) PROVE (\A x \in Nat : SectionSound(k, x)) /\ TotalSound(k)
    <3>1. NoResets(g)
      BY <1>6, <2>5 DEF NoResets
    <3>2. (\A x \in Nat : SectionSound(g, x)) /\ TotalSound(g)
      BY <2>1, <3>1 DEF DimSound
    <3>3. ASSUME NEW q \in Client, NEW r
          PROVE  /\ Moving(k.call[q], r) <=> Moving(g.call[q], r)
                 /\ Moving(k.call[q], r) => k.call[q] = g.call[q]
      <4>1. ~Moving(c, r) /\ ~Moving(g.call[p], r)
        BY DEF Moving, NewCall
      <4> QED
        BY <1>6, <4>1
    <3>4. ASSUME NEW x \in Nat PROVE SectionSound(k, x)
      <4>1. SectionSound(g, x)
        BY <3>2
      <4>2. ASSUME NEW q \in Client, NEW r \in Records, Moving(k.call[q], r), r.tx = x PROVE Half(k, k.call[q], r)
        <5>1. Half(g, g.call[q], r) /\ k.call[q] = g.call[q]
          BY <3>3, <4>1, <4>2 DEF SectionSound
        <5> QED
          BY <1>3, <5>1 DEF Half
      <4>3. \/ \E q \in Client : \E r \in Records : Moving(k.call[q], r) /\ r.tx = x
            \/ \A m \in Maps : Section(k, m, x) = Section(k, Hash, x)
        BY <1>3, <3>3, <4>1, MapNames DEF SectionSound
      <4> QED
        BY <4>2, <4>3 DEF SectionSound
    <3>5. \A q \in Client, r \in Records : (Adds(k.call[q], r) <=> Adds(g.call[q], r)) /\ (Takes(k.call[q], r) <=> Takes(g.call[q], r))
      BY <3>3 DEF Adds, Takes
    <3>6. CountedRecords(k) = CountedRecords(g)
      BY <3>5 DEF CountedRecords, SameMaps
    <3> QED
      BY <3>2, <3>4, <3>6 DEF TotalSound
  <2> QED
    BY <2>2, <2>4, <2>5 DEF DimSound
<1> QED
  BY <1>3, <1>5, <1>7 DEF DiInv

LEMMA DiBeginKeeps ==
  ASSUME DiInv(di), NEW p \in Client, NEW op, NEW rec, NEW next, DiBegin(p, op, rec, next),
         NewCall([op |-> op, at |-> 1, rec |-> rec, next |-> next]), op # "reset" => rec # {}
  PROVE  DiInv(di')
<1> DEFINE g == di
           k == di'
           c == [op |-> op, at |-> 1, rec |-> rec, next |-> next]
           b == IF op = "reset" THEN \E q \in Client : di.call[q].op # "none"
                ELSE \E r \in rec \union next : Overlaps(r.tx)
<1>1. DiShape(g)
  BY DEF DiInv
<1>2. /\ DOMAIN k = DOMAIN g /\ k.map = g.map /\ k.calls = g.calls + 1 /\ k.call = [g.call EXCEPT ![p] = c]
      /\ k.total = g.total /\ k.stale = g.stale /\ k.raced = (g.raced \/ b) /\ g.call[p].op = "none"
  BY <1>1 DEF DiBegin, DiShape
<1>3. k.raced \in BOOLEAN /\ (~k.raced => ~g.raced /\ ~b)
  BY <1>1, <1>2 DEF DiShape
<1>4. ASSUME ~b PROVE NoOverlap(g, c)
  <2>1. TxsOf(c) = {r.tx : r \in rec \union next} /\ c.op = op
    BY DEF TxsOf
  <2>2. CASE op = "reset"
    BY <1>4, <2>2 DEF NoOverlap
  <2>3. CASE op # "reset"
    <3>1. \A r \in rec \union next : ~Overlaps(r.tx)
      BY <1>4, <2>3
    <3>2. ASSUME NEW q \in Client, g.call[q].op # "none", NEW r \in rec \union next
          PROVE  g.call[q].op # "reset" /\ r.tx \notin TxsOf(g.call[q])
      BY <3>1, <3>2 DEF Overlaps, TxsOf
    <3>3. rec \union next # {}
      BY <2>3
    <3> QED
      BY <2>1, <2>3, <3>2, <3>3 DEF NoOverlap
  <2> QED
    BY <2>2, <2>3
<1>5. NewCall(c)
  OBVIOUS
<1> HIDE DEF k, c, b
<1>6. DiInv(g) /\ SameMaps(g, k)
  BY <1>2 DEF SameMaps
<1> HIDE DEF g
<1>7. DiInv(k)
  BY <1>2, <1>3, <1>4, <1>5, <1>6, NewCallKeeps
<1> QED
  BY <1>7 DEF k

LEMMA DiKeeps ==
  ASSUME DiInv(di), DiNext
  PROVE  DiInv(di')
<1>1. PICK p \in Client :
        \/ \E r \in Records : DiBegin(p, "insert", {r}, {}) \/ DiBegin(p, "remove", {r}, {}) \/ DiBegin(p, "remove", {r}, {r})
        \/ DiBegin(p, "reset", {}, {})
        \/ InsertInto(p) \/ InsertTotal(p) \/ RemoveByHash(p) \/ RemoveByKey(p) \/ RemoveTotal(p)
        \/ ResetMap(p) \/ ResetTotal(p)
  BY DEF DiNext
<1>2. ASSUME NEW r \in Records
      PROVE  /\ NewCall([op |-> "insert", at |-> 1, rec |-> {r}, next |-> {}])
             /\ NewCall([op |-> "remove", at |-> 1, rec |-> {r}, next |-> {}])
             /\ NewCall([op |-> "remove", at |-> 1, rec |-> {r}, next |-> {r}])
  BY DEF NewCall, DimCalls, CallSound
<1>3. NewCall([op |-> "reset", at |-> 1, rec |-> {}, next |-> {}])
  BY DEF NewCall, DimCalls, CallSound
<1>4. CASE \E r \in Records : DiBegin(p, "insert", {r}, {}) \/ DiBegin(p, "remove", {r}, {}) \/ DiBegin(p, "remove", {r}, {r})
  <2>1. PICK r \in Records : DiBegin(p, "insert", {r}, {}) \/ DiBegin(p, "remove", {r}, {}) \/ DiBegin(p, "remove", {r}, {r})
    BY <1>4
  <2>2. {r} # {}
    OBVIOUS
  <2>3. CASE DiBegin(p, "insert", {r}, {})
    BY <1>2, <2>2, <2>3, DiBeginKeeps
  <2>4. CASE DiBegin(p, "remove", {r}, {})
    BY <1>2, <2>2, <2>4, DiBeginKeeps
  <2>5. CASE DiBegin(p, "remove", {r}, {r})
    BY <1>2, <2>2, <2>5, DiBeginKeeps
  <2> QED
    BY <2>1, <2>3, <2>4, <2>5
<1>5. CASE DiBegin(p, "reset", {}, {})
  BY <1>3, <1>5, DiBeginKeeps
<1>6. CASE InsertInto(p) \/ InsertTotal(p) \/ RemoveByHash(p) \/ RemoveByKey(p) \/ RemoveTotal(p) \/ ResetMap(p) \/ ResetTotal(p)
  BY <1>6, InsertIntoKeeps, InsertTotalKeeps, RemoveByHashKeeps, RemoveByKeyKeeps, RemoveTotalKeeps, ResetMapKeeps, ResetTotalKeeps
<1> QED
  BY <1>1, <1>4, <1>5, <1>6

\* what a scan takes up to the first failure is what does not fail, once the failures come last
Leading(q, T) == \A i, j \in DOMAIN q : i < j /\ q[j] \in T => q[i] \in T
Scanned(q, T) == While(q, {j \in DOMAIN q : q[j] \notin T})
ScanSplits(q, S, T) ==
  {q[i] : i \in Scanned(q, T)} = T /\ {q[i] : i \in DOMAIN q \ Scanned(q, T)} = S \ T
LEMMA ScanTakes ==
  ASSUME NEW S, IsFiniteSet(S), NEW q \in SetToSeqs(S), NEW T \in SUBSET S, Leading(q, T)
  PROVE  ScanSplits(q, S, T)
<1> DEFINE N == Cardinality(S)
           kept == Scanned(q, T)
<1>1. /\ N \in Nat /\ DOMAIN q = 1 .. N /\ q \in [1 .. N -> S] /\ (\A x \in S : \E i \in DOMAIN q : q[i] = x)
      /\ \A i, j \in DOMAIN q : i # j => q[i] # q[j]
  BY ListsEach
<1> HIDE DEF N
<1>2. ASSUME NEW i \in DOMAIN q PROVE i \in kept <=> q[i] \in T
  <2>1. i \in 1 .. i /\ \A j \in 1 .. i : j \in DOMAIN q
    BY <1>1
  <2>2. i \in kept <=> \A j \in 1 .. i : q[j] \in T
    BY <2>1 DEF While, Scanned
  <2>3. ASSUME q[i] \in T, NEW j \in 1 .. i PROVE q[j] \in T
    <3>1. j \in DOMAIN q /\ (j = i \/ j < i)
      BY <1>1, <2>1
    <3> QED
      BY <2>3, <3>1 DEF Leading
  <2> QED
    BY <2>1, <2>2, <2>3
<1>3. kept \subseteq DOMAIN q
  BY DEF While, Scanned
<1> HIDE DEF kept
<1>4. {q[i] : i \in kept} = T
  BY <1>1, <1>2, <1>3
<1>5. {q[i] : i \in DOMAIN q \ kept} = S \ T
  BY <1>1, <1>2, <1>3
<1> QED
  BY <1>4, <1>5 DEF kept, ScanSplits

\* the orders of the maps, as relations, put every set with one record under a hash in order
FeeOrder == {e \in Records \X Records : HigherFee(e[1], e[2])}
TimeOrder == {e \in Records \X Records : Earlier(e[1], e[2])}
DepsOrder == {e \in Records \X Records : MoreDependents(e[1], e[2])}
LEMMA OrdersApply ==
  ASSUME NEW a \in Records, NEW b \in Records
  PROVE  /\ <<a, b>> \in FeeOrder <=> HigherFee(a, b)
         /\ <<a, b>> \in TimeOrder <=> Earlier(a, b)
         /\ <<a, b>> \in DepsOrder <=> MoreDependents(a, b)
<1>1. <<a, b>> \in Records \X Records /\ <<a, b>>[1] = a /\ <<a, b>>[2] = b
  OBVIOUS
<1> QED
  BY <1>1 DEF FeeOrder, TimeOrder, DepsOrder

LEMMA OrdersTotal ==
  ASSUME NEW S \in SUBSET Records, \A r, s \in S : r.tx = s.tx => r = s
  PROVE  Ordered(S, FeeOrder) /\ Ordered(S, TimeOrder) /\ Ordered(S, DepsOrder)
<1>1. \A r \in S : r \in Records /\ r.tx \in Nat /\ r.fee \in Nat /\ r.time \in Nat /\ r.deps \in Nat
  BY RecordParts
<1>2. ASSUME NEW x \in S, NEW y \in S, x # y
      PROVE  /\ HigherFee(x, y) \/ HigherFee(y, x)
             /\ Earlier(x, y) \/ Earlier(y, x)
             /\ MoreDependents(x, y) \/ MoreDependents(y, x)
  <2>1. x.tx # y.tx
    BY <1>2
  <2> QED
    BY <1>1, <2>1 DEF HigherFee, Earlier, MoreDependents
<1>3. ASSUME NEW x \in S, NEW y \in S, NEW z \in S
      PROVE  /\ HigherFee(x, y) /\ HigherFee(y, z) => HigherFee(x, z)
             /\ Earlier(x, y) /\ Earlier(y, z) => Earlier(x, z)
             /\ MoreDependents(x, y) /\ MoreDependents(y, z) => MoreDependents(x, z)
  BY <1>1 DEF HigherFee, Earlier, MoreDependents
<1>4. Ordered(S, FeeOrder)
  BY <1>1, <1>2, <1>3, OrdersApply DEF Ordered
<1>5. Ordered(S, TimeOrder)
  BY <1>1, <1>2, <1>3, OrdersApply DEF Ordered
<1>6. Ordered(S, DepsOrder)
  BY <1>1, <1>2, <1>3, OrdersApply DEF Ordered
<1> QED
  BY <1>4, <1>5, <1>6

\* between calls the four maps hold the same records, and the total is their number
AllIdle == \A p \in Client : di.call[p].op = "none"
LEMMA MapsEqual ==
  ASSUME DiInv(di), AllIdle, ~di.stale, ~di.raced
  PROVE  /\ \A m \in Maps : di.map[m] = di.map[Hash]
         /\ di.map[Hash] \in SUBSET Records /\ IsFiniteSet(di.map[Hash])
         /\ \A r, s \in di.map[Hash] : r.tx = s.tx => r = s
         /\ di.total = Cardinality(di.map[Hash])
<1>1. DiShape(di) /\ OnePerHash(di) /\ DimSound(di)
  BY DEF DiInv
<1>2. NoResets(di) /\ \A p \in Client, r \in Records : ~Moving(di.call[p], r)
  BY DEF NoResets, Moving, AllIdle
<1>3. (\A x \in Nat : SectionSound(di, x)) /\ TotalSound(di)
  BY <1>1, <1>2 DEF DimSound
<1>4. \A m \in Maps : di.map[m] \in SUBSET Records
  BY <1>1 DEF DiShape
<1>5. ASSUME NEW m \in Maps, NEW r \in Records PROVE r \in di.map[m] <=> r \in di.map[Hash]
  <2>1. r.tx \in Nat
    BY RecordParts
  <2>2. Section(di, m, r.tx) = Section(di, Hash, r.tx)
    BY <1>2, <1>3, <2>1 DEF SectionSound
  <2> QED
    BY <2>2 DEF Section
<1>6. \A m \in Maps : di.map[m] = di.map[Hash]
  BY <1>4, <1>5, MapNames
<1>7. CountedRecords(di) = di.map[Hash]
  BY <1>2, <1>4, MapNames DEF CountedRecords, Adds, Takes
<1> QED
  BY <1>1, <1>3, <1>4, <1>6, <1>7, MapNames DEF TotalSound, DiShape, OnePerHash

LEMMA ListsOrdered ==
  ASSUME NEW S \in SUBSET Records, IsFiniteSet(S), \A r, s \in S : r.tx = s.tx => r = s,
         di.map[Eco] = S, di.map[Temp] = S, di.map[Deps] = S
  PROVE  /\ Economic \in SetToSeqs(S) /\ InOrder(Economic, FeeOrder)
         /\ Temporal \in SetToSeqs(S) /\ InOrder(Temporal, TimeOrder)
         /\ Structural \in SetToSeqs(S) /\ InOrder(Structural, DepsOrder)
<1>1. Ordered(S, FeeOrder) /\ Ordered(S, TimeOrder) /\ Ordered(S, DepsOrder)
  BY OrdersTotal
<1>2. ASSUME NEW q \in SetToSeqs(S)
      PROVE  /\ InOrder(q, FeeOrder) <=> \A i, j \in DOMAIN q : i < j => HigherFee(q[i], q[j])
             /\ InOrder(q, TimeOrder) <=> \A i, j \in DOMAIN q : i < j => Earlier(q[i], q[j])
             /\ InOrder(q, DepsOrder) <=> \A i, j \in DOMAIN q : i < j => MoreDependents(q[i], q[j])
  <2>1. q \in [1 .. Cardinality(S) -> S]
    BY DEF SetToSeqs
  <2>2. \A i \in DOMAIN q : q[i] \in Records
    BY <2>1
  <2> QED
    BY <2>2, OrdersApply DEF InOrder
<1>3. Economic \in SetToSeqs(S) /\ InOrder(Economic, FeeOrder)
  <2>1. \E q \in SetToSeqs(S) : \A i, j \in DOMAIN q : i < j => HigherFee(q[i], q[j])
    BY <1>1, <1>2, SortedExists
  <2>2. Economic \in SetToSeqs(S) /\ \A i, j \in DOMAIN Economic : i < j => HigherFee(Economic[i], Economic[j])
    BY <2>1, Zenon DEF Economic
  <2> QED
    BY <1>2, <2>2
<1>4. Temporal \in SetToSeqs(S) /\ InOrder(Temporal, TimeOrder)
  <2>1. \E q \in SetToSeqs(S) : \A i, j \in DOMAIN q : i < j => Earlier(q[i], q[j])
    BY <1>1, <1>2, SortedExists
  <2>2. Temporal \in SetToSeqs(S) /\ \A i, j \in DOMAIN Temporal : i < j => Earlier(Temporal[i], Temporal[j])
    BY <2>1, Zenon DEF Temporal
  <2> QED
    BY <1>2, <2>2
<1>5. Structural \in SetToSeqs(S) /\ InOrder(Structural, DepsOrder)
  <2>1. \E q \in SetToSeqs(S) : \A i, j \in DOMAIN q : i < j => MoreDependents(q[i], q[j])
    BY <1>1, <1>2, SortedExists
  <2>2. Structural \in SetToSeqs(S) /\ \A i, j \in DOMAIN Structural : i < j => MoreDependents(Structural[i], Structural[j])
    BY <2>1, Zenon DEF Structural
  <2> QED
    BY <1>2, <2>2
<1> QED
  BY <1>3, <1>4, <1>5

LEMMA QueriesSound ==
  ASSUME DiInv(di)
  PROVE  QueriesAgree
<1> SUFFICES ASSUME AllIdle, ~di.stale, ~di.raced PROVE QueriesAgree
  BY DEF QueriesAgree, AllIdle
<1> DEFINE S == di.map[Hash]
           Ti == Temporal
           St == Structural
<1>1. /\ \A m \in Maps : di.map[m] = S
      /\ S \in SUBSET Records /\ IsFiniteSet(S) /\ (\A r, s \in S : r.tx = s.tx => r = s)
      /\ di.total = Cardinality(S)
  BY MapsEqual
<1>2. di.map[Eco] = S /\ di.map[Temp] = S /\ di.map[Deps] = S
  BY <1>1, MapNames
<1> HIDE DEF S
<1>3. /\ Economic \in SetToSeqs(S) /\ InOrder(Economic, FeeOrder)
      /\ Temporal \in SetToSeqs(S) /\ InOrder(Temporal, TimeOrder)
      /\ Structural \in SetToSeqs(S) /\ InOrder(Structural, DepsOrder)
  BY <1>1, <1>2, ListsOrdered
<1>4. \A r \in S : r \in Records /\ r.tx \in Nat /\ r.fee \in Nat /\ r.time \in Nat /\ r.deps \in Nat
  BY <1>1, RecordParts
<1>5. QueryBounds \subseteq Nat
  BY DimensionAssumption
<1>6. ASSUME NEW n \in 0 .. Cardinality(S)
      PROVE  LET top == QueryEconomicTopN(n) IN Cardinality(top) = n /\ top \subseteq S /\ \A a \in top, b \in S \ top : a.fee >= b.fee
  <2> DEFINE top == {Economic[i] : i \in 1 .. n}
  <2>1. Cardinality(top) = n /\ top \subseteq S /\ \A a \in top, b \in S \ top : <<a, b>> \in FeeOrder
    BY <1>1, <1>3, FirstOfOrder
  <2> HIDE DEF top
  <2>2. \A a \in top, b \in S \ top : a.fee >= b.fee
    <3> SUFFICES ASSUME NEW a \in top, NEW b \in S \ top PROVE a.fee >= b.fee
      OBVIOUS
    <3>1. a \in S /\ b \in S /\ <<a, b>> \in FeeOrder
      BY <2>1
    <3>2. HigherFee(a, b)
      BY <1>4, <3>1, OrdersApply
    <3> QED
      BY <1>4, <3>1, <3>2 DEF HigherFee
  <2> QED
    BY <2>1, <2>2 DEF QueryEconomicTopN, top
<1>7. ASSUME NEW n \in 0 .. Cardinality(S)
      PROVE  LET top == QueryStructuralTopHubs(n) IN Cardinality(top) = n /\ top \subseteq S /\ \A a \in top, b \in S \ top : a.deps >= b.deps
  <2> DEFINE top == {Structural[i] : i \in 1 .. n}
  <2>1. Cardinality(top) = n /\ top \subseteq S /\ \A a \in top, b \in S \ top : <<a, b>> \in DepsOrder
    BY <1>1, <1>3, FirstOfOrder
  <2> HIDE DEF top
  <2>2. \A a \in top, b \in S \ top : a.deps >= b.deps
    <3> SUFFICES ASSUME NEW a \in top, NEW b \in S \ top PROVE a.deps >= b.deps
      OBVIOUS
    <3>1. a \in S /\ b \in S /\ <<a, b>> \in DepsOrder
      BY <2>1
    <3>2. MoreDependents(a, b)
      BY <1>4, <3>1, OrdersApply
    <3> QED
      BY <1>4, <3>1, <3>2 DEF MoreDependents
  <2> QED
    BY <2>1, <2>2 DEF QueryStructuralTopHubs, top
<1> HIDE DEF Ti, St
<1>8. Ti = Temporal /\ St = Structural
  BY DEF Ti, St
<1>9. DOMAIN Ti = 1 .. Cardinality(S) /\ (\A i \in DOMAIN Ti : Ti[i] \in S) /\ DOMAIN St = 1 .. Cardinality(S) /\ \A i \in DOMAIN St : St[i] \in S
  BY <1>1, <1>3, <1>8, ListsEach
<1>10. ASSUME NEW t \in QueryBounds
       PROVE  QueryTemporalBefore(t) = {r \in S : r.time <= t} /\ QueryTemporalAfter(t) = {r \in S : r.time > t}
  <2> DEFINE T == {r \in S : r.time <= t}
             F == {j \in DOMAIN Ti : Ti[j].time > t}
  <2>1. t \in Nat
    BY <1>5
  <2>2. ASSUME NEW i \in DOMAIN Ti, NEW j \in DOMAIN Ti, i < j, Ti[j] \in T PROVE Ti[i] \in T
    <3>1. Ti[i] \in S /\ Ti[j] \in S /\ <<Ti[i], Ti[j]>> \in TimeOrder
      BY <1>3, <1>8, <1>9, <2>2 DEF InOrder
    <3>2. Earlier(Ti[i], Ti[j])
      BY <1>4, <3>1, OrdersApply
    <3>3. Ti[i].time <= Ti[j].time /\ Ti[j].time <= t
      BY <1>4, <2>2, <3>1, <3>2 DEF Earlier
    <3> QED
      BY <1>4, <2>1, <3>1, <3>3
  <2>3. F = {j \in DOMAIN Ti : Ti[j] \notin T}
    BY <1>4, <1>9, <2>1
  <2>4. S \ T = {r \in S : r.time > t}
    BY <1>4, <2>1
  <2>5. T \in SUBSET S
    OBVIOUS
  <2> HIDE DEF T
  <2> DEFINE kept == Scanned(Ti, T)
  <2>a. ScanSplits(Ti, S, T)
    <3>1. Leading(Ti, T) /\ Ti \in SetToSeqs(S)
      BY <1>3, <1>8, <2>2 DEF Leading
    <3> QED
      BY <1>1, <2>5, <3>1, ScanTakes
  <2>6. {Ti[i] : i \in kept} = T /\ {Ti[i] : i \in DOMAIN Ti \ kept} = S \ T
    BY <2>a DEF ScanSplits
  <2>7. kept = While(Ti, F)
    BY <2>3 DEF Scanned
  <2> HIDE DEF F, kept
  <2>8. QueryTemporalBefore(t) = {Ti[i] : i \in kept} /\ QueryTemporalAfter(t) = {Ti[i] : i \in DOMAIN Ti \ kept}
    BY <2>7, Zenon DEF QueryTemporalBefore, QueryTemporalAfter, F, Ti
  <2> QED
    BY <2>4, <2>6, <2>8 DEF T
<1>11. ASSUME NEW n \in QueryBounds PROVE QueryStructuralMinDependents(n) = {r \in S : r.deps >= n}
  <2> DEFINE T == {r \in S : r.deps >= n}
             F == {j \in DOMAIN St : St[j].deps < n}
  <2>1. n \in Nat
    BY <1>5
  <2>2. ASSUME NEW i \in DOMAIN St, NEW j \in DOMAIN St, i < j, St[j] \in T PROVE St[i] \in T
    <3>1. St[i] \in S /\ St[j] \in S /\ <<St[i], St[j]>> \in DepsOrder
      BY <1>3, <1>8, <1>9, <2>2 DEF InOrder
    <3>2. MoreDependents(St[i], St[j])
      BY <1>4, <3>1, OrdersApply
    <3>3. St[i].deps >= St[j].deps /\ St[j].deps >= n
      BY <1>4, <2>2, <3>1, <3>2 DEF MoreDependents
    <3> QED
      BY <1>4, <2>1, <3>1, <3>3
  <2>3. F = {j \in DOMAIN St : St[j] \notin T}
    BY <1>4, <1>9, <2>1
  <2>5. T \in SUBSET S
    OBVIOUS
  <2> HIDE DEF T
  <2> DEFINE kept == Scanned(St, T)
  <2>a. ScanSplits(St, S, T)
    <3>1. Leading(St, T) /\ St \in SetToSeqs(S)
      BY <1>3, <1>8, <2>2 DEF Leading
    <3> QED
      BY <1>1, <2>5, <3>1, ScanTakes
  <2>6. {St[i] : i \in kept} = T
    BY <2>a DEF ScanSplits
  <2>7. kept = While(St, F)
    BY <2>3 DEF Scanned
  <2> HIDE DEF F, kept
  <2>8. QueryStructuralMinDependents(n) = {St[i] : i \in kept}
    BY <2>7, Zenon DEF QueryStructuralMinDependents, F, St
  <2> QED
    BY <2>6, <2>8 DEF T
<1>12. ASSUME NEW low \in QueryBounds, NEW high \in QueryBounds, NEW start \in QueryBounds, NEW end \in QueryBounds, NEW n \in QueryBounds
       PROVE  QueryCombined(low, high, start, end, n) =
                QueryEconomicRange(low, high) \intersect QueryTemporalRange(start, end) \intersect QueryStructuralMinDependents(n)
  <2>1. QueryCombined(low, high, start, end, n) =
          {r \in S : r.fee >= low /\ r.fee <= high /\ r.time >= start /\ r.time <= end /\ r.deps >= n}
    BY DEF QueryCombined, S
  <2>2. QueryEconomicRange(low, high) = {r \in S : r.fee >= low /\ r.fee <= high}
    BY <1>2 DEF QueryEconomicRange
  <2>3. QueryTemporalRange(start, end) = {r \in S : r.time >= start /\ r.time <= end}
    BY <1>2 DEF QueryTemporalRange
  <2> QED
    BY <1>11, <2>1, <2>2, <2>3
<1> QED
  BY <1>1, <1>6, <1>7, <1>10, <1>12 DEF QueriesAgree, S

IndexesSpec == /\ PiInit /\ DiInit
               /\ [][(PiNext /\ UNCHANGED di) \/ (DiNext /\ UNCHANGED pi)]_<<pi, di>>

(* The two indexes, for any threads, transactions and records and however  *)
(* the calls interleave at the locks: the counts of the parallel index are *)
(* those of its map unless an entry was overwritten, a count stopped at 0  *)
(* or a clear overlapped, and are never too low without such a clear; only *)
(* a status update can wedge it; and between calls that did not race, the  *)
(* queries of the multi-dimensional index agree and its total is right.    *)
(* PiInv weighs what the counts lack against the calls under way; DiInv    *)
(* says of every hash how far its record has moved from map to map.        *)
THEOREM IndexesAlwaysAgree ==
  IndexesSpec => []IndexesAgree
<1> DEFINE Inv == PiInv(pi) /\ DiInv(di)
           Step == (PiNext /\ UNCHANGED di) \/ (DiNext /\ UNCHANGED pi)
<1>1. PiInit /\ DiInit => Inv
  BY PiStarts, DiStarts
<1>2. Inv /\ [Step]_<<pi, di>> => PiInv(pi') /\ DiInv(di')
  <2>1. CASE UNCHANGED <<pi, di>>
    BY <2>1
  <2>2. ASSUME PiInv(pi), DiInv(di), PiNext, UNCHANGED di PROVE PiInv(pi') /\ DiInv(di')
    BY <2>2, PiKeeps
  <2>3. ASSUME PiInv(pi), DiInv(di), DiNext, UNCHANGED pi PROVE PiInv(pi') /\ DiInv(di')
    BY <2>3, DiKeeps
  <2> QED
    BY <2>1, <2>2, <2>3
<1>3. PiInv(pi') => PiInv(pi)'
  BY DEF PiInv, PiShape, IndexStatus, IndexCalls, CallSteps, AsksAllShards, AsksShard, AsksStats, NamingSteps, LocksHeld,
         HeldSteps, RoomKept, Entered, PastCheck, ClearsAlone, CountsDue, Due, Adding, WillAdd, Had, HavingIn, Taking,
         WillTake, NoReset
<1>4. DiInv(di') => DiInv(di)'
  BY DEF DiInv, DiShape, Maps, DimCalls, CallSound, OnePerHash, Hash, DimSound, CallsApart, TxsOf, ResetsDone, NoResets,
         SectionSound, Moving, Half, Section, TotalSound, CountedRecords, Adds, Takes
<1>5. Inv => IndexesAgree
  BY PiSound, QueriesSound DEF IndexesAgree
<1>6. Inv /\ [Step]_<<pi, di>> => Inv'
  BY <1>2, <1>3, <1>4
<1> QED
  BY <1>1, <1>5, <1>6, PTL DEF IndexesSpec

=============================================================================
