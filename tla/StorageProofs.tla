--------------------------- MODULE StorageProofs ---------------------------
(***************************************************************************)
(* Proofs about Storage: for any threads, outputs, blocks and bounds, what *)
(* StorageSound says of the database, the cache, the queue and the counter *)
(* holds in every state, through failing batches, flushes and crashes; and *)
(* about the backups of StorageUpkeep, which share no state with it.       *)
(***************************************************************************)
EXTENDS Storage, StorageUpkeep, FiniteInduction, FiniteSetTheorems, SequenceTheorems, TLAPS

Call == [kind : {"put", "delete"}, u : Utxo]
Message == [thread : Threads, call : Call]
BlockPut == {Put(cf, k) : cf \in {"header", "body", "tx"}, k \in Block \union TxId}

(* The types the steps rely on: what StorageTypeOK says, and the messages. *)
TypeInv ==
    /\ StorageTypeOK
    /\ queue \in Seq(Message) /\ group \in Seq(Message)
    /\ writer = "recv" => group = <<>>
    /\ work = [t \in Threads |-> work[t]]

(* What a call still has to do, by the place it has reached.               *)
WorkInv == \A t \in Threads :
    /\ pc[t] = "read" => work[t] \in Seq(Utxo) /\ Len(work[t]) = 1
    /\ pc[t] = "fill" => work[t] \in Seq(ever) /\ work[t] # <<>>
    /\ InCall(t) => work[t][1] \in Call
    /\ pc[t] = "store" => work[t] \in Seq(BlockPut) /\ work[t] # <<>>

(* A message on its way is the call of a thread that waits for its answer, *)
(* and a thread has at most one.                                           *)
Awaits(m) == InCall(m.thread) /\ reply[m.thread] = "none" /\ work[m.thread][1] = m.call
QueueInv ==
    /\ \A i \in DOMAIN queue : Awaits(queue[i])
    /\ \A i \in DOMAIN group : Awaits(group[i])
    /\ \A i, j \in DOMAIN queue : queue[i].thread = queue[j].thread => i = j
    /\ \A i \in DOMAIN queue, j \in DOMAIN group : queue[i].thread # group[j].thread

(* Whatever may enter the cache has been written since the start.          *)
CacheInv ==
    /\ CachedWasStored
    /\ StoredUtxos(rows) \subseteq ever
    /\ \A t \in Threads :
          InCall(t) /\ reply[t] = "ok" /\ work[t][1].kind = "put" => work[t][1].u \in ever

(* Nothing is promised of an output some call is writing; a call that is   *)
(* alone is the only one on its output, and once it is answered the output *)
(* is as it asked; what is promised holds of the database and of the disk. *)
Stored(u) == <<"utxo", u>> \in rows /\ <<"utxo", u>> \in disk
Gone(u) == <<"utxo", u>> \notin rows /\ <<"utxo", u>> \notin disk
Done(call) == (call.kind = "put" => Stored(call.u)) /\ (call.kind = "delete" => Gone(call.u))
PromiseInv ==
    /\ \A t \in Threads : InCall(t) => promised[work[t][1].u] = "any"
    /\ \A t \in alone :
          /\ InCall(t)
          /\ \A s \in Threads \ {t} : InCall(s) => work[s][1].u # work[t][1].u
          /\ reply[t] = "ok" => Done(work[t][1])
    /\ \A u \in Utxo : (promised[u] = "in" => Stored(u)) /\ (promised[u] = "out" => Gone(u))

(* PendingAccounted without the modulus: the counter is right or, while    *)
(* the writer is ahead of a sender, one wrap-around too high.              *)
Sent == {t \in Threads : pc[t] = "sent"}
CountInv ==
    \/ pending_writes + Cardinality(Sent) = Len(queue)
    \/ pending_writes + Cardinality(Sent) = Len(queue) + COUNTER_SIZE

(* The header of a stored body is both visible and durable, and a thread   *)
(* that is about to store a body has stored its header or will before.     *)
HasHeader(b) == <<"header", b>> \in rows /\ <<"header", b>> \in disk
HeaderInv ==
    /\ \A b \in Block \ unlogged : <<"body", b>> \in rows \union disk => HasHeader(b)
    /\ \A t \in Threads : pc[t] = "store" =>
          \A i \in DOMAIN work[t] : \A b \in Block : work[t][i] = Put("body", b) =>
              HasHeader(b) \/ \E j \in 1 .. i - 1 : work[t][j] = Put("header", b)

StorageInv ==
    TypeInv /\ WorkInv /\ QueueInv /\ CacheInv /\ PromiseInv /\ CountInv /\ HeaderInv

----------------------------------------------------------------------------
(* The cache *)

(* The range of a sequence. *)
LEMMA RangeOfSequence ==
  ASSUME NEW S, NEW s \in Seq(S)
  PROVE  \A x : x \in Range(s) <=> \E i \in 1 .. Len(s) : s[i] = x
  BY DEF Range

(* A sequence of elements of T is a sequence over T. *)
LEMMA SeqOfElements ==
  ASSUME NEW S, NEW T, NEW s \in Seq(S), \A i \in 1 .. Len(s) : s[i] \in T
  PROVE  s \in Seq(T)
<1>1. Len(s) \in Nat /\ s \in [1 .. Len(s) -> T]
  OBVIOUS
<1> QED
  BY <1>1, SeqDef

(* Head and tail of a sequence. *)
LEMMA TailLemma ==
  ASSUME NEW S, NEW s \in Seq(S), s # <<>>
  PROVE  /\ Head(s) = s[1] /\ Head(s) \in S /\ Len(s) \in Nat \ {0}
         /\ Tail(s) \in Seq(S) /\ Len(Tail(s)) = Len(s) - 1
         /\ \A i \in 1 .. Len(s) - 1 : Tail(s)[i] = s[i + 1]
         /\ Len(s) > 1 => Tail(s) # <<>>
<1>1. Tail(s) \in Seq(S) /\ Len(Tail(s)) = Len(s) - 1 /\ Len(s) \in Nat \ {0}
  OBVIOUS
<1>2. Len(s) > 1 => Tail(s) # <<>>
  <2>1. Len(s) > 1 => Len(Tail(s)) # 0
    BY <1>1
  <2> QED
    BY <2>1, Len(<<>>) = 0
<1>3. Head(s) = s[1] /\ Head(s) \in S
  BY <1>1
<1>4. \A i \in 1 .. Len(s) - 1 : Tail(s)[i] = s[i + 1]
  BY <1>1, HeadTailProperties
<1> QED
  BY <1>1, <1>2, <1>3, <1>4

(* Taking an entry out of a cache without duplicates leaves the others.    *)
LEMMA WithoutLemma ==
  ASSUME NEW cache \in Seq(Utxo), IsInjective(cache), NEW u \in Utxo
  PROVE  /\ Without(cache, u) \in Seq(Utxo)
         /\ IsInjective(Without(cache, u))
         /\ u \notin Range(Without(cache, u))
         /\ Range(Without(cache, u)) \subseteq Range(cache)
         /\ Len(Without(cache, u)) <= Len(cache)
         /\ u \in Range(cache) => Len(Without(cache, u)) = Len(cache) - 1
<1>1. CASE u \notin Range(cache)
  BY <1>1 DEF Without
<1>2. CASE u \in Range(cache)
  <2> DEFINE k == CHOOSE i \in DOMAIN cache : cache[i] = u
             a == SubSeq(cache, 1, k - 1)
             c == SubSeq(cache, k + 1, Len(cache))
  <2>1. k \in 1 .. Len(cache) /\ cache[k] = u
    BY <1>2 DEF Range
  <2> HIDE DEF k
  <2>2. /\ a \in Seq(Utxo) /\ Len(a) = k - 1
        /\ \A i \in 1 .. k - 1 : a[i] = cache[i]
    BY <2>1
  <2>3. /\ c \in Seq(Utxo) /\ Len(c) = Len(cache) - k
        /\ \A i \in 1 .. Len(cache) - k : c[i] = cache[k + i]
    BY <2>1
  <2> HIDE DEF a, c
  <2> DEFINE w == a \o c
  <2>4. w \in Seq(Utxo) /\ Len(w) = Len(cache) - 1 /\ DOMAIN w = 1 .. Len(cache) - 1
    BY <2>1, <2>2, <2>3, ConcatProperties
  <2>5. \A i \in 1 .. Len(cache) - 1 : w[i] = IF i <= k - 1 THEN a[i] ELSE c[i - (k - 1)]
    BY <2>1, <2>2, <2>3, ConcatProperties
  <2>6. Without(cache, u) = w
    BY <1>2 DEF Without, RemoveAt, k, a, c
  <2> HIDE DEF w
  <2>7. \A i \in 1 .. Len(cache) - 1 :
          \/ i < k /\ w[i] = cache[i]
          \/ i >= k /\ w[i] = cache[i + 1]
    <3> SUFFICES ASSUME NEW i \in 1 .. Len(cache) - 1
                 PROVE  (i < k /\ w[i] = cache[i]) \/ (i >= k /\ w[i] = cache[i + 1])
      OBVIOUS
    <3>1. CASE i <= k - 1
      <4>1. i \in 1 .. k - 1 /\ i < k
        BY <2>1, <3>1
      <4>2. w[i] = a[i]
        BY <2>5, <3>1
      <4> QED
        BY <2>2, <4>1, <4>2
    <3>2. CASE i > k - 1
      <4>1. i - (k - 1) \in 1 .. Len(cache) - k /\ k + (i - (k - 1)) = i + 1
        BY <2>1, <3>2
      <4>2. w[i] = c[i - (k - 1)]
        BY <2>1, <2>5, <3>2
      <4> QED
        BY <2>1, <2>3, <3>2, <4>1, <4>2
    <3> QED
      BY <2>1, <3>1, <3>2
  <2>8. \A i, j \in 1 .. Len(cache) : cache[i] = cache[j] => i = j
    BY DEF IsInjective
  <2>9. IsInjective(w)
    BY <2>1, <2>4, <2>7, <2>8 DEF IsInjective
  <2>10. \A i \in 1 .. Len(cache) - 1 :
           w[i] # u /\ \E j \in 1 .. Len(cache) : w[i] = cache[j]
    BY <2>1, <2>7, <2>8
  <2>11. u \notin Range(w) /\ Range(w) \subseteq Range(cache)
    BY <2>4, <2>10 DEF Range
  <2> QED
    BY <1>2, <2>1, <2>4, <2>6, <2>9, <2>11
<1> QED
  BY <1>1, <1>2

(* A refreshed entry comes last and only once. *)
LEMMA TouchLemma ==
  ASSUME NEW cache \in Seq(Utxo), IsInjective(cache), NEW u \in Utxo
  PROVE  /\ Touch(cache, u) \in Seq(Utxo)
         /\ IsInjective(Touch(cache, u))
         /\ Range(Touch(cache, u)) \subseteq Range(cache) \union {u}
         /\ Touch(cache, u) # <<>>
         /\ Len(Touch(cache, u)) <= Len(cache) + 1
         /\ u \in Range(cache) => Len(Touch(cache, u)) = Len(cache)
<1> DEFINE w == Without(cache, u)
<1>1. /\ w \in Seq(Utxo) /\ IsInjective(w) /\ u \notin Range(w)
      /\ Range(w) \subseteq Range(cache) /\ Len(w) <= Len(cache)
      /\ u \in Range(cache) => Len(w) = Len(cache) - 1
  BY WithoutLemma
<1>2. Touch(cache, u) = Append(w, u)
  BY DEF Touch
<1> HIDE DEF w
<1>3. /\ Append(w, u) \in Seq(Utxo) /\ Len(Append(w, u)) = Len(w) + 1
      /\ \A i \in 1 .. Len(w) + 1 : Append(w, u)[i] = IF i = Len(w) + 1 THEN u ELSE w[i]
  BY <1>1
<1>4. IsInjective(Append(w, u))
  <2>1. \A i, j \in 1 .. Len(w) : w[i] = w[j] => i = j
    BY <1>1 DEF IsInjective
  <2>2. \A i \in 1 .. Len(w) : w[i] # u
    BY <1>1 DEF Range
  <2> HIDE DEF w
  <2>3. DOMAIN Append(w, u) = 1 .. Len(w) + 1 /\ Len(w) \in Nat
    BY <1>1, <1>3
  <2>4. \A i, j \in 1 .. Len(w) + 1 : Append(w, u)[i] = Append(w, u)[j] => i = j
    BY <1>3, <2>1, <2>2, <2>3
  <2> QED
    BY <2>3, <2>4 DEF IsInjective
<1>5. Range(Append(w, u)) \subseteq Range(cache) \union {u}
  <2>1. \A i \in 1 .. Len(w) : w[i] \in Range(w)
    BY <1>1 DEF Range
  <2>2. \A i \in 1 .. Len(w) + 1 : Append(w, u)[i] \in Range(w) \union {u}
    BY <1>1, <1>3, <2>1
  <2>3. \A x \in Range(Append(w, u)) : \E i \in 1 .. Len(w) + 1 : x = Append(w, u)[i]
    BY <1>1, <1>3 DEF Range
  <2> QED
    BY <1>1, <2>2, <2>3
<1> QED
  BY <1>1, <1>2, <1>3, <1>4, <1>5

(* A put keeps the capacity. *)
LEMMA LruPutLemma ==
  ASSUME NEW cache \in Seq(Utxo), IsInjective(cache), Len(cache) <= CAPACITY, NEW u \in Utxo
  PROVE  /\ LruPut(cache, u) \in Seq(Utxo)
         /\ IsInjective(LruPut(cache, u))
         /\ Range(LruPut(cache, u)) \subseteq Range(cache) \union {u}
         /\ Len(LruPut(cache, u)) <= CAPACITY
<1> DEFINE c == Touch(cache, u)
<1>1. /\ c \in Seq(Utxo) /\ IsInjective(c) /\ Range(c) \subseteq Range(cache) \union {u}
      /\ c # <<>> /\ Len(c) <= Len(cache) + 1
  BY TouchLemma
<1>2. LruPut(cache, u) = IF Len(c) > CAPACITY THEN Tail(c) ELSE c
  BY DEF LruPut
<1> HIDE DEF c
<1>3. CASE Len(c) <= CAPACITY
  BY <1>1, <1>2, <1>3, StorageAssumption
<1>4. CASE Len(c) > CAPACITY
  <2>1. /\ Tail(c) \in Seq(Utxo) /\ Len(Tail(c)) = Len(c) - 1
        /\ \A i \in 1 .. Len(c) - 1 : Tail(c)[i] = c[i + 1]
    BY <1>1
  <2>2. IsInjective(Tail(c)) /\ Range(Tail(c)) \subseteq Range(c)
    BY <1>1, <2>1 DEF IsInjective, Range
  <2> QED
    BY <1>1, <1>2, <1>4, <2>1, <2>2, StorageAssumption
<1> QED
  BY <1>1, <1>3, <1>4, StorageAssumption

----------------------------------------------------------------------------
(* Batches *)

IsBatch(ops) ==
    /\ DOMAIN ops \subseteq Nat \ {0}
    /\ \A i \in DOMAIN ops : /\ ops[i].out \subseteq UtxoRows(Utxo)
                             /\ \A r \in ops[i].in : r[1] \in Families

(* A batch writes to the column families only. *)
LEMMA BatchFamilies ==
  ASSUME NEW c, NEW ops, IsBatch(ops), \A r \in c : r[1] \in Families
  PROVE  \A r \in ApplyOps(c, ops) : r[1] \in Families
  BY DEF ApplyOps, IsBatch

(* A row no operation takes out is there if it was or if it is put in.     *)
LEMMA BatchAdds ==
  ASSUME NEW c, NEW ops, IsBatch(ops), NEW r, r \notin UtxoRows(Utxo)
  PROVE  r \in ApplyOps(c, ops) <=> r \in c \/ \E i \in DOMAIN ops : r \in ops[i].in
  BY DEF ApplyOps, IsBatch

(* An output no operation names stays as it was. *)
LEMMA BatchSpares ==
  ASSUME NEW c, NEW ops, IsBatch(ops), NEW u \in Utxo, u \notin Touched(ops)
  PROVE  <<"utxo", u>> \in ApplyOps(c, ops) <=> <<"utxo", u>> \in c
  BY DEF ApplyOps, IsBatch, Touched

(* What becomes of an output some operation names does not depend on what  *)
(* the database held.                                                      *)
LEMMA BatchDecides ==
  ASSUME NEW c, NEW d, NEW ops, IsBatch(ops), NEW u \in Utxo, u \in Touched(ops)
  PROVE  <<"utxo", u>> \in ApplyOps(c, ops) <=> <<"utxo", u>> \in ApplyOps(d, ops)
  BY DEF ApplyOps, IsBatch, Touched

(* A batch stores no output but those it writes. *)
LEMMA BatchStores ==
  ASSUME NEW c, NEW ops
  PROVE  StoredUtxos(ApplyOps(c, ops)) \subseteq StoredUtxos(c) \union Written(ops)
  BY DEF StoredUtxos, ApplyOps, Written

(* The only rows of other families in the batch of a block are its own.    *)
LEMMA BlockBatch ==
  ASSUME NEW b \in Block
  PROVE  /\ IsBatch(BlockOps(b))
         /\ \A c : (\E i \in DOMAIN BlockOps(b) : <<"body", c>> \in BlockOps(b)[i].in) <=> c = b
         /\ \A c : (\E i \in DOMAIN BlockOps(b) : <<"header", c>> \in BlockOps(b)[i].in) <=> c = b
<1> DEFINE first == [out |-> {}, in |-> {<<"body", b>>, <<"header", b>>}]
           rest == [i \in DOMAIN Txs[b] |-> TxOp(Txs[b][i])]
           n == Len(Txs[b])
<1>1. n \in Nat /\ DOMAIN Txs[b] = 1 .. n /\ \A i \in 1 .. n : Txs[b][i] \in Transaction
  BY StorageAssumption
<1>2. \A t \in Transaction :
         /\ TxOp(t).out \subseteq UtxoRows(Utxo)
         /\ \A r \in TxOp(t).in : r[1] \in {"tx", "utxo"}
  BY DEF TxOp, UtxoRows, Transaction
<1>3. rest \in Seq({TxOp(t) : t \in Transaction}) /\ Len(rest) = n
  BY <1>1
<1>4. /\ DOMAIN BlockOps(b) = 1 .. n + 1
      /\ \A i \in 1 .. n + 1 : BlockOps(b)[i] = IF i = 1 THEN first ELSE TxOp(Txs[b][i - 1])
  <2>1. BlockOps(b) = <<first>> \o rest
    BY DEF BlockOps
  <2>2. \A i \in 1 .. n : rest[i] = TxOp(Txs[b][i])
    BY <1>1
  <2> HIDE DEF first, rest, n
  <2>3. <<first>> \o rest \in Seq({TxOp(t) : t \in Transaction} \union {first})
    BY <1>3
  <2> QED
    BY <1>1, <1>3, <2>1, <2>2, <2>3
<1> HIDE DEF n, rest
<1>5. IsBatch(BlockOps(b))
  BY <1>1, <1>2, <1>4 DEF IsBatch, Families
<1>6. \A i \in 2 .. n + 1 : \A r \in BlockOps(b)[i].in : r[1] \in {"tx", "utxo"}
  BY <1>1, <1>2, <1>4
<1>7. BlockOps(b)[1].in = {<<"body", b>>, <<"header", b>>} /\ 1 \in DOMAIN BlockOps(b)
  BY <1>1, <1>4
<1>8. \A c : <<"body", c>>[1] = "body" /\ <<"header", c>>[1] = "header"
  OBVIOUS
<1>9. \A i \in DOMAIN BlockOps(b) : i = 1 \/ i \in 2 .. n + 1
  BY <1>1, <1>4
<1> QED
  BY <1>5, <1>6, <1>7, <1>8, <1>9

(* The batch of a transaction touches UTXO rows only. *)
LEMMA ApplyTxBatch ==
  ASSUME NEW t \in Transaction
  PROVE  IsBatch(ApplyTxOps(t)) /\ \A i \in DOMAIN ApplyTxOps(t) : ApplyTxOps(t)[i].in \subseteq UtxoRows(Utxo)
  BY DEF ApplyTxOps, IsBatch, UtxoRows, Transaction, Families

----------------------------------------------------------------------------
(* The counter and the queue *)

(* The counter of pending writes, one up and one down modulo its width. *)
LEMMA Wraps ==
  ASSUME NEW n \in Nat, n > 0, NEW x \in 0 .. n - 1
  PROVE  /\ (x + 1) % n = IF x = n - 1 THEN 0 ELSE x + 1
         /\ (x + n - 1) % n = IF x = 0 THEN n - 1 ELSE x - 1
         /\ (x + n) % n = x % n
  OBVIOUS

(* A sender counts itself: the difference to the queue stays a wrap-around. *)
LEMMA CountUp ==
  ASSUME NEW n \in Nat, NEW p \in 0 .. n - 1, NEW c \in Nat, c >= 1, NEW q \in Nat,
         p + c = q \/ p + c = q + n, q < n, c < n
  PROVE  LET r == IF p = n - 1 THEN 0 ELSE p + 1
         IN  r + (c - 1) = q \/ r + (c - 1) = q + n
  OBVIOUS

(* A finite set as a sequence has its elements only. *)
LEMMA SetToSeqLemma ==
  ASSUME NEW S, IsFiniteSet(S), S # {}
  PROVE  SetToSeq(S) \in Seq(S) /\ SetToSeq(S) # <<>>
<1>1. Cardinality(S) \in Nat /\ Cardinality(S) # 0 /\ ExistsBijection(1 .. Cardinality(S), S)
  BY FS_CardinalityType, FS_EmptySet
<1>2. PICK f \in [1 .. Cardinality(S) -> S] : IsInjective(f)
  BY <1>1 DEF ExistsBijection, Bijection, Injection, IsInjective
<1>3. SetToSeq(S) \in [1 .. Cardinality(S) -> S]
  BY <1>2 DEF SetToSeq
<1> QED
  BY <1>1, <1>3

(* The fields of a message. *)
LEMMA MessageFields == \A m \in Message : m.thread \in Threads /\ m.call \in Call
  BY DEF Message

(* The queue has at most one message of each thread. *)
LEMMA QueueBounded ==
  ASSUME queue \in Seq(Message), QueueInv
  PROVE  Len(queue) \in Nat /\ Len(queue) <= Cardinality(Threads)
<1> DEFINE n == Len(queue)
           f == [i \in 1 .. n |-> queue[i].thread]
<1>1. n \in Nat /\ DOMAIN queue = 1 .. n /\ \A i \in 1 .. n : queue[i].thread \in Threads
  <2>1. n \in Nat /\ DOMAIN queue = 1 .. n /\ \A i \in 1 .. n : queue[i] \in Message
    OBVIOUS
  <2> QED
    BY <2>1, MessageFields
<1>2. \A i, j \in 1 .. n : queue[i].thread = queue[j].thread => i = j
  BY <1>1 DEF QueueInv
<1> HIDE DEF n
<1>3. f \in Injection(1 .. n, Threads)
  BY <1>1, <1>2 DEF Injection, IsInjective
<1>4. Cardinality(1 .. n) = n
  BY <1>1, FS_Interval
<1>5. Cardinality(1 .. n) <= Cardinality(Threads)
  BY <1>3, FS_Injection, StorageAssumption
<1> QED
  BY <1>1, <1>4, <1>5 DEF n

(* The threads that have sent and not counted are finitely many. *)
LEMMA SentFinite ==
  /\ IsFiniteSet(Sent) /\ Cardinality(Sent) \in Nat
  /\ Cardinality(Sent) <= Cardinality(Threads) /\ Cardinality(Threads) \in Nat
<1>1. Sent \in SUBSET Threads
  BY DEF Sent
<1> QED
  BY <1>1, FS_Subset, FS_CardinalityType, StorageAssumption

----------------------------------------------------------------------------
(* What an invariant does not mention cannot disturb it. *)

(* A step that leaves the calls alone keeps what they still have to do. *)
LEMMA WorkFrame ==
  ASSUME WorkInv, UNCHANGED <<pc, work>>, ever \subseteq ever'
  PROVE  WorkInv'
<1>1. \A s : s \in Seq(ever) => s \in Seq(ever')
  BY SeqMonotonic
<1> QED
  BY <1>1 DEF WorkInv, InCall

(* A step that leaves queue and calls alone keeps the queue in order. *)
LEMMA QueueFrame ==
  ASSUME QueueInv, UNCHANGED <<queue, group, pc, work, reply>>
  PROVE  QueueInv'
  BY DEF QueueInv, Awaits, InCall

(* A step that leaves cache and rows alone keeps the cache in order. *)
LEMMA CacheFrame ==
  ASSUME CacheInv, UNCHANGED <<hot, rows, ever, pc, work, reply>>
  PROVE  CacheInv'
  BY DEF CacheInv, CachedWasStored, InCall

(* A step that leaves rows and answers alone keeps the promises. *)
LEMMA PromiseFrame ==
  ASSUME PromiseInv, UNCHANGED <<rows, disk, pc, work, reply, promised, alone>>
  PROVE  PromiseInv'
  BY DEF PromiseInv, Done, Stored, Gone, InCall

(* A step that leaves queue and counter alone keeps the count. *)
LEMMA CountFrame ==
  ASSUME CountInv, UNCHANGED <<pending_writes, queue, pc>>
  PROVE  CountInv'
  BY DEF CountInv, Sent

(* A step that leaves the rows alone keeps headers and bodies in order. *)
LEMMA HeaderFrame ==
  ASSUME HeaderInv, UNCHANGED <<rows, disk, unlogged, pc, work>>
  PROVE  HeaderInv'
  BY DEF HeaderInv, HasHeader

Places == {"idle", "read", "fill", "sent", "wait", "store"}

(* A thread moves to a place, the others stay. *)
LEMMA Move ==
  ASSUME TypeInv, NEW t \in Threads, NEW place \in Places, NEW todo, Goto(t, place, todo)
  PROVE  /\ pc' \in [Threads -> Places] /\ work' = [s \in Threads |-> work'[s]]
         /\ pc'[t] = place /\ work'[t] = todo
         /\ \A s \in Threads \ {t} : pc'[s] = pc[s] /\ work'[s] = work[s]
<1>1. pc \in [Threads -> Places] /\ work = [s \in Threads |-> work[s]]
  BY DEF TypeInv, StorageTypeOK, Places
<1>2. pc' = [pc EXCEPT ![t] = place] /\ work' = [work EXCEPT ![t] = todo]
  BY DEF Goto
<1>3. pc' \in [Threads -> Places] /\ work' = [s \in Threads |-> work'[s]]
  BY <1>1, <1>2
<1> QED
  BY <1>1, <1>2, <1>3

(* A thread that is not in a call of the writer moves to such a place: the *)
(* calls of the writer are not concerned.                                  *)
LEMMA QuietMove ==
  ASSUME TypeInv, NEW t \in Threads, ~InCall(t),
         NEW place \in {"idle", "read", "fill", "store"}, NEW todo, Goto(t, place, todo)
  PROVE  /\ \A s \in Threads : (InCall(s)' <=> InCall(s)) /\ (InCall(s) => work'[s] = work[s])
         /\ Sent' = Sent
         /\ pc' \in [Threads -> Places] /\ work' = [s \in Threads |-> work'[s]]
         /\ pc'[t] = place /\ work'[t] = todo
         /\ \A s \in Threads \ {t} : pc'[s] = pc[s] /\ work'[s] = work[s]
<1>1. place \in Places /\ pc[t] \notin {"sent", "wait"}
  BY DEF Places, InCall
<1>2. /\ pc' \in [Threads -> Places] /\ work' = [s \in Threads |-> work'[s]]
      /\ pc'[t] = place /\ work'[t] = todo
      /\ \A s \in Threads \ {t} : pc'[s] = pc[s] /\ work'[s] = work[s]
  BY <1>1, Move
<1>3. Sent' = Sent
  BY <1>1, <1>2 DEF Sent
<1> QED
  BY <1>1, <1>2, <1>3 DEF InCall

(* So a move of that kind can only disturb what is said of its own work.   *)
LEMMA QuietStep ==
  ASSUME StorageInv, NEW t \in Threads, ~InCall(t),
         NEW place \in {"idle", "read", "fill", "store"}, NEW todo, Goto(t, place, todo),
         UNCHANGED <<writerVars, reply, promised, alone>>
  PROVE  /\ QueueInv' /\ CountInv'
         /\ UNCHANGED <<rows, disk>> => PromiseInv'
         /\ Range(hot') \subseteq ever' /\ StoredUtxos(rows') \subseteq ever' /\ ever \subseteq ever'
               => CacheInv'
<1>1. /\ \A s \in Threads : (InCall(s)' <=> InCall(s)) /\ (InCall(s) => work'[s] = work[s])
      /\ Sent' = Sent
  BY QuietMove DEF StorageInv
<1>2. CountInv'
  BY <1>1 DEF StorageInv, CountInv, writerVars
<1>3. QueueInv'
  <2>1. \A m \in Message : Awaits(m) => Awaits(m)'
    BY <1>1, MessageFields DEF Awaits
  <2>2. /\ \A i \in DOMAIN queue : queue[i] \in Message
        /\ \A i \in DOMAIN group : group[i] \in Message
    BY DEF StorageInv, TypeInv
  <2> QED
    BY <2>1, <2>2 DEF StorageInv, QueueInv, writerVars
<1>4. ASSUME UNCHANGED <<rows, disk>> PROVE PromiseInv'
  <2>1. alone \subseteq Threads /\ alone' = alone /\ promised' = promised /\ reply' = reply
    BY DEF StorageInv, TypeInv, StorageTypeOK
  <2>2. rows' = rows /\ disk' = disk
    BY <1>4
  <2>3. PromiseInv
    BY DEF StorageInv
  <2>4. \A s \in Threads : InCall(s)' => promised'[work'[s][1].u] = "any"
    BY <1>1, <2>1, <2>3 DEF PromiseInv
  <2>5. ASSUME NEW s \in alone'
        PROVE  /\ InCall(s)'
               /\ \A r \in Threads \ {s} : InCall(r)' => work'[r][1].u # work'[s][1].u
               /\ reply'[s] = "ok" => Done(work[s][1])'
    <3>1. InCall(s)' /\ work'[s] = work[s]
      BY <1>1, <2>1, <2>3, <2>5 DEF PromiseInv
    <3>2. \A r \in Threads \ {s} : InCall(r)' => work'[r][1].u # work'[s][1].u
      BY <1>1, <2>1, <2>3, <2>5, <3>1 DEF PromiseInv
    <3>3. reply'[s] = "ok" => Done(work[s][1])'
      BY <2>1, <2>2, <2>3, <2>5, <3>1 DEF PromiseInv, Done, Stored, Gone
    <3> QED
      BY <3>1, <3>2, <3>3
  <2>6. \A u \in Utxo : (promised'[u] = "in" => Stored(u)') /\ (promised'[u] = "out" => Gone(u)')
    BY <2>1, <2>2, <2>3 DEF PromiseInv, Stored, Gone
  <2> QED
    BY <2>4, <2>5, <2>6 DEF PromiseInv
<1>5. ASSUME Range(hot') \subseteq ever', StoredUtxos(rows') \subseteq ever', ever \subseteq ever'
      PROVE  CacheInv'
  BY <1>1, <1>5 DEF StorageInv, CacheInv, CachedWasStored
<1> QED
  BY <1>2, <1>3, <1>4, <1>5

HotOK(h) == h \in Seq(Utxo) /\ Len(h) <= CAPACITY /\ IsInjective(h)

(* A thread outside a write call moves: the types. *)
LEMMA QuietType ==
  ASSUME TypeInv, NEW t \in Threads, ~InCall(t),
         NEW place \in {"idle", "read", "fill", "store"}, NEW todo, Goto(t, place, todo),
         UNCHANGED <<writerVars, reply, promised, alone, unlogged>>,
         \A r \in rows' \union disk' : r[1] \in Families, HotOK(hot'), ever' \subseteq Utxo
  PROVE  TypeInv'
<1>1. pc' \in [Threads -> Places] /\ work' = [s \in Threads |-> work'[s]]
  BY QuietMove
<1> QED
  BY <1>1 DEF TypeInv, StorageTypeOK, HotOK, writerVars, Places

(* A thread outside a write call moves: what it has to do. *)
LEMMA QuietWork ==
  ASSUME TypeInv, WorkInv, NEW t \in Threads, ~InCall(t),
         NEW place \in {"idle", "read", "fill", "store"}, NEW todo, Goto(t, place, todo),
         ever \subseteq ever',
         place = "read" => todo \in Seq(Utxo) /\ Len(todo) = 1,
         place = "fill" => todo \in Seq(ever') /\ todo # <<>>,
         place = "store" => todo \in Seq(BlockPut) /\ todo # <<>>
  PROVE  WorkInv'
<1>1. /\ pc'[t] = place /\ work'[t] = todo
      /\ \A s \in Threads \ {t} : pc'[s] = pc[s] /\ work'[s] = work[s]
  BY QuietMove
<1>2. \A s : s \in Seq(ever) => s \in Seq(ever')
  BY SeqMonotonic
<1> QED
  BY <1>1, <1>2 DEF WorkInv, InCall

(* A thread outside a write call moves: headers and bodies. *)
LEMMA QuietHeader ==
  ASSUME TypeInv, HeaderInv, NEW t \in Threads, ~InCall(t),
         NEW place \in {"idle", "read", "fill"}, NEW todo, Goto(t, place, todo),
         UNCHANGED <<rows, disk, unlogged>>
  PROVE  HeaderInv'
<1>1. /\ pc'[t] = place
      /\ \A s \in Threads \ {t} : pc'[s] = pc[s] /\ work'[s] = work[s]
  BY QuietMove
<1> QED
  BY <1>1 DEF HeaderInv, HasHeader

----------------------------------------------------------------------------
(* The steps, one lemma for each kind. *)

(* A read that the cache answers keeps the invariant. *)
LEMMA GetUtxoHitStep ==
  ASSUME StorageInv, NEW t \in Threads, NEW u \in Utxo, GetUtxoHit(t, u)
  PROVE  StorageInv'
<1> USE DEF StorageInv
<1>1. HotOK(hot) /\ u \in Range(hot)
  BY DEF TypeInv, StorageTypeOK, HotOK, GetUtxoHit
<1>2. HotOK(hot') /\ Range(hot') \subseteq Range(hot)
  BY <1>1, TouchLemma DEF GetUtxoHit, HotOK
<1>3. UNCHANGED <<rows, disk, queue, pending_writes, group, writer, pc, work, reply,
                  promised, alone, ever, unlogged>>
  BY DEF GetUtxoHit, dbVars, writerVars, callVars, auxVars
<1>4. TypeInv'
  BY <1>2, <1>3 DEF TypeInv, StorageTypeOK, HotOK
<1>5. CacheInv'
  BY <1>2, <1>3 DEF CacheInv, CachedWasStored, InCall
<1> QED
  BY <1>3, <1>4, <1>5, WorkFrame, QueueFrame, PromiseFrame, CountFrame, HeaderFrame

(* The places of a call that only reads and fills the cache. *)
LEMMA ReaderStep ==
  ASSUME StorageInv, NEW t \in Threads, ~InCall(t),
         NEW place \in {"idle", "read", "fill"}, NEW todo, Goto(t, place, todo),
         place = "read" => todo \in Seq(Utxo) /\ Len(todo) = 1,
         place = "fill" => todo \in Seq(ever) /\ todo # <<>>,
         HotOK(hot'), Range(hot') \subseteq ever,
         UNCHANGED <<dbVars, writerVars, reply, auxVars>>
  PROVE  StorageInv'
<1> USE DEF StorageInv
<1>1. UNCHANGED <<rows, disk, reply, promised, alone, ever, unlogged>> /\ UNCHANGED writerVars
  BY DEF dbVars, auxVars
<1>2. /\ \A r \in rows' \union disk' : r[1] \in Families
      /\ ever' \subseteq Utxo
      /\ StoredUtxos(rows') \subseteq ever'
  BY <1>1 DEF TypeInv, StorageTypeOK, CacheInv
<1>3. TypeInv'
  BY <1>1, <1>2, QuietType
<1>4. WorkInv'
  BY <1>1, QuietWork
<1>5. QueueInv' /\ CountInv' /\ PromiseInv' /\ CacheInv'
  BY <1>1, <1>2, QuietStep
<1>6. HeaderInv'
  BY <1>1, QuietHeader
<1> QED
  BY <1>3, <1>4, <1>5, <1>6

(* Reading the database and filling the cache keep it. *)
LEMMA ReaderSteps ==
  ASSUME StorageInv, NEW t \in Threads,
         \/ \E u \in Utxo : GetUtxoMiss(t, u)
         \/ ReadDb(t) \/ ScanUtxos(t) \/ FillCache(t)
  PROVE  StorageInv'
<1>1. /\ HotOK(hot) /\ Range(hot) \subseteq ever /\ StoredUtxos(rows) \subseteq ever
      /\ ever \subseteq Utxo
  BY DEF StorageInv, TypeInv, StorageTypeOK, HotOK, CacheInv, CachedWasStored
<1>2. ASSUME NEW u \in Utxo, GetUtxoMiss(t, u) PROVE StorageInv'
  <2>1. <<u>> \in Seq(Utxo) /\ Len(<<u>>) = 1
    OBVIOUS
  <2> QED
    BY <1>1, <1>2, <2>1, ReaderStep DEF GetUtxoMiss, InCall
<1>3. CASE ReadDb(t)
  <2>1. work[t] \in Seq(Utxo) /\ Len(work[t]) = 1 /\ ~InCall(t)
    BY <1>3 DEF StorageInv, WorkInv, ReadDb, InCall
  <2>2. CASE <<"utxo", work[t][1]>> \in rows
    <3>1. Goto(t, "fill", work[t]) /\ UNCHANGED <<dbVars, hot, writerVars, reply, auxVars>>
      BY <1>3, <2>2 DEF ReadDb
    <3>2. work[t][1] \in ever
      BY <1>1, <2>1, <2>2 DEF StoredUtxos
    <3>3. work[t] \in Seq(ever) /\ work[t] # <<>>
      BY <2>1, <3>2, SeqOfElements
    <3> QED
      BY <1>1, <2>1, <3>1, <3>3, ReaderStep
  <2>3. CASE <<"utxo", work[t][1]>> \notin rows
    BY <1>1, <1>3, <2>1, <2>3, ReaderStep DEF ReadDb
  <2> QED
    BY <2>2, <2>3
<1>4. CASE ScanUtxos(t)
  <2>1. IsFiniteSet(StoredUtxos(rows))
    BY FS_Subset, StorageAssumption DEF StoredUtxos
  <2>2. SetToSeq(StoredUtxos(rows)) \in Seq(StoredUtxos(rows)) /\ SetToSeq(StoredUtxos(rows)) # <<>>
    BY <1>4, <2>1, SetToSeqLemma DEF ScanUtxos
  <2>3. SetToSeq(StoredUtxos(rows)) \in Seq(ever)
    BY <1>1, <2>2, SeqMonotonic
  <2> QED
    BY <1>1, <1>4, <2>2, <2>3, ReaderStep DEF ScanUtxos, InCall
<1>5. CASE FillCache(t)
  <2>1. work[t] \in Seq(ever) /\ work[t] # <<>> /\ ~InCall(t)
    BY <1>5 DEF StorageInv, WorkInv, FillCache, InCall
  <2>2. /\ Head(work[t]) \in ever /\ Tail(work[t]) \in Seq(ever)
        /\ Len(work[t]) > 1 => Tail(work[t]) # <<>>
    BY <2>1, TailLemma
  <2> DEFINE u == Head(work[t])
  <2>3. HotOK(hot') /\ Range(hot') \subseteq ever
    <3>1. hot' = LruPut(hot, u) /\ u \in Utxo /\ u \in ever
      BY <1>1, <1>5, <2>2 DEF FillCache
    <3> HIDE DEF u
    <3> QED
      BY <1>1, <3>1, LruPutLemma DEF HotOK
  <2>4. UNCHANGED <<dbVars, writerVars, reply, auxVars>>
    BY <1>5 DEF FillCache
  <2>5. CASE Len(work[t]) > 1
    BY <1>5, <2>1, <2>2, <2>3, <2>4, <2>5, ReaderStep DEF FillCache
  <2>6. CASE ~(Len(work[t]) > 1)
    BY <1>5, <2>1, <2>3, <2>4, <2>6, ReaderStep DEF FillCache
  <2> QED
    BY <2>5, <2>6
<1> QED
  BY <1>2, <1>3, <1>4, <1>5

(* Sending a write to the writer keeps it. *)
LEMMA SendStep ==
  ASSUME StorageInv, NEW t \in Threads, NEW kind \in {"put", "delete"}, NEW u \in Utxo,
         Send(t, kind, u)
  PROVE  StorageInv'
<1> DEFINE call == [kind |-> kind, u |-> u]
           m == [thread |-> t, call |-> call]
<1>1. /\ pc[t] = "idle" /\ ~InCall(t) /\ Goto(t, "sent", <<call>>)
      /\ queue' = Append(queue, m) /\ reply' = [reply EXCEPT ![t] = "none"]
      /\ promised' = [promised EXCEPT ![u] = "any"]
      /\ alone' = (alone \ InFlight(u)) \union (IF InFlight(u) = {} THEN {t} ELSE {})
      /\ UNCHANGED <<rows, disk, hot, pending_writes, group, writer, ever, unlogged>>
  BY DEF Send, dbVars, InCall
<1>2. /\ pc' \in [Threads -> Places] /\ work' = [s \in Threads |-> work'[s]]
      /\ pc'[t] = "sent" /\ work'[t] = <<call>> /\ work'[t][1] = call
      /\ \A s \in Threads \ {t} : pc'[s] = pc[s] /\ work'[s] = work[s]
  BY <1>1, Move DEF StorageInv, Places
<1>3. call \in Call /\ m \in Message /\ m.thread = t /\ m.call = call /\ call.u = u
  BY DEF Call, Message
<1>4. /\ InCall(t)' /\ \A s \in Threads \ {t} : (InCall(s)' <=> InCall(s))
      /\ \A s \in Threads \ {t} : reply'[s] = reply[s]
      /\ reply \in [Threads -> {"none", "ok", "err"}] /\ reply'[t] = "none"
  BY <1>1, <1>2 DEF InCall, StorageInv, TypeInv, StorageTypeOK
<1>5. /\ queue \in Seq(Message) /\ group \in Seq(Message) /\ promised \in [Utxo -> {"in", "out", "any"}]
      /\ alone \subseteq Threads
  BY DEF StorageInv, TypeInv, StorageTypeOK
<1> HIDE DEF call, m
<1>6. /\ queue' \in Seq(Message) /\ Len(queue') = Len(queue) + 1 /\ Len(queue) \in Nat
      /\ \A i \in DOMAIN queue' : \/ i = Len(queue) + 1 /\ queue'[i] = m
                                  \/ i \in DOMAIN queue /\ queue'[i] = queue[i]
  BY <1>1, <1>3, <1>5, AppendProperties
<1>7. TypeInv'
  BY <1>1, <1>2, <1>4, <1>5, <1>6 DEF StorageInv, TypeInv, StorageTypeOK, Places
<1>8. WorkInv'
  BY <1>1, <1>2, <1>3, <1>4 DEF StorageInv, WorkInv
<1>9. QueueInv'
  <2>1. \A x \in Message : Awaits(x) => x.thread # t /\ Awaits(x)'
    BY <1>1, <1>2, <1>4, MessageFields DEF Awaits
  <2>2. /\ \A i \in DOMAIN queue : queue[i] \in Message /\ Awaits(queue[i])
        /\ \A i \in DOMAIN group : group[i] \in Message /\ Awaits(group[i])
    BY <1>5 DEF StorageInv, QueueInv
  <2>3. Awaits(m)'
    BY <1>2, <1>3, <1>4 DEF Awaits
  <2> QED
    BY <1>1, <1>3, <1>6, <2>1, <2>2, <2>3 DEF StorageInv, QueueInv
<1>10. CacheInv'
  BY <1>1, <1>2, <1>4 DEF StorageInv, CacheInv, CachedWasStored
<1>11. PromiseInv'
  <2>1. \A s \in Threads : InCall(s)' => promised'[work'[s][1].u] = "any"
    <3> SUFFICES ASSUME NEW s \in Threads, InCall(s)' PROVE promised'[work'[s][1].u] = "any"
      OBVIOUS
    <3>1. CASE s = t
      BY <1>1, <1>2, <1>3, <1>5, <3>1
    <3>2. CASE s # t
      <4>1. InCall(s) /\ work'[s] = work[s] /\ promised[work[s][1].u] = "any"
        BY <1>2, <1>4, <3>2 DEF StorageInv, PromiseInv
      <4>2. work[s][1].u \in Utxo
        BY <4>1 DEF StorageInv, WorkInv, Call
      <4> QED
        BY <1>1, <1>5, <4>1, <4>2
    <3> QED
      BY <3>1, <3>2
  <2>2. ASSUME NEW s \in alone'
        PROVE  /\ InCall(s)'
               /\ \A r \in Threads \ {s} : InCall(r)' => work'[r][1].u # work'[s][1].u
               /\ reply'[s] = "ok" => Done(work[s][1])'
    <3>1. CASE s = t
      <4>1. InFlight(u) = {}
        BY <1>1, <3>1 DEF StorageInv, PromiseInv
      <4> QED
        BY <1>2, <1>3, <1>4, <3>1, <4>1 DEF InFlight
    <3>2. CASE s # t
      <4>1. s \in alone /\ s \in Threads /\ s \notin InFlight(u)
        BY <1>1, <1>5, <3>2
      <4>2. InCall(s) /\ work'[s] = work[s] /\ work[s][1].u # u
        BY <1>2, <3>2, <4>1 DEF StorageInv, PromiseInv, InFlight
      <4>3. \A r \in Threads \ {s} : InCall(r)' => work'[r][1].u # work'[s][1].u
        BY <1>2, <1>3, <1>4, <4>1, <4>2 DEF StorageInv, PromiseInv
      <4>4. reply'[s] = "ok" => Done(work[s][1])'
        BY <1>1, <1>4, <3>2, <4>1, <4>2 DEF StorageInv, PromiseInv, Done, Stored, Gone
      <4> QED
        BY <1>4, <3>2, <4>1, <4>2, <4>3, <4>4
    <3> QED
      BY <3>1, <3>2
  <2>3. \A w \in Utxo : (promised'[w] = "in" => Stored(w)') /\ (promised'[w] = "out" => Gone(w)')
    BY <1>1, <1>5 DEF StorageInv, PromiseInv, Stored, Gone
  <2> QED
    BY <2>1, <2>2, <2>3 DEF PromiseInv
<1>12. CountInv'
  <2>1. Sent' = Sent \union {t} /\ t \notin Sent
    BY <1>1, <1>2 DEF Sent
  <2>2. Cardinality(Sent') = Cardinality(Sent) + 1 /\ Cardinality(Sent) \in Nat
    BY <2>1, FS_AddElement, SentFinite
  <2> QED
    BY <1>1, <1>6, <2>2, StorageAssumption DEF StorageInv, CountInv, TypeInv, StorageTypeOK
<1>13. HeaderInv'
  BY <1>1, <1>2 DEF StorageInv, HeaderInv, HasHeader
<1> QED
  BY <1>7, <1>8, <1>9, <1>10, <1>11, <1>12, <1>13 DEF StorageInv

(* Counting the write keeps it. *)
LEMMA CountPendingStep ==
  ASSUME StorageInv, NEW t \in Threads, CountPending(t)
  PROVE  StorageInv'
<1> DEFINE n == COUNTER_SIZE
<1>1. /\ pc[t] = "sent" /\ Goto(t, "wait", work[t])
      /\ pending_writes' = (pending_writes + 1) % n
      /\ UNCHANGED <<rows, disk, hot, queue, group, writer, reply, promised, alone, ever, unlogged>>
  BY DEF CountPending, dbVars, auxVars
<1>2. /\ pc' \in [Threads -> Places] /\ work' = [s \in Threads |-> work'[s]]
      /\ pc'[t] = "wait"
      /\ \A s \in Threads : work'[s] = work[s]
      /\ \A s \in Threads \ {t} : pc'[s] = pc[s]
  BY <1>1, Move DEF StorageInv, Places
<1>3. \A s \in Threads : InCall(s)' <=> InCall(s)
  BY <1>1, <1>2 DEF InCall
<1>4. /\ n \in Nat /\ n > Cardinality(Threads) /\ n > 0 /\ pending_writes \in 0 .. n - 1
      /\ Len(queue) \in Nat /\ Len(queue) < n
      /\ Cardinality(Sent) \in Nat /\ Cardinality(Sent) < n
  BY SentFinite, QueueBounded, StorageAssumption DEF StorageInv, TypeInv, StorageTypeOK
<1> HIDE DEF n
<1>5. pending_writes' = IF pending_writes = n - 1 THEN 0 ELSE pending_writes + 1
  BY <1>1, <1>4, Wraps
<1>6. CountInv'
  <2>1. Sent' = Sent \ {t} /\ t \in Sent
    BY <1>1, <1>2 DEF Sent
  <2>2. Cardinality(Sent') = Cardinality(Sent) - 1 /\ Cardinality(Sent) >= 1
    BY <2>1, <1>4, FS_RemoveElement, FS_EmptySet, SentFinite
  <2>3. \/ pending_writes + Cardinality(Sent) = Len(queue)
        \/ pending_writes + Cardinality(Sent) = Len(queue) + n
    BY DEF StorageInv, CountInv, n
  <2>4. \/ pending_writes' + (Cardinality(Sent) - 1) = Len(queue)
        \/ pending_writes' + (Cardinality(Sent) - 1) = Len(queue) + n
    BY <1>4, <1>5, <2>2, <2>3, CountUp
  <2>5. queue' = queue
    BY <1>1
  <2> QED
    BY <2>2, <2>4, <2>5 DEF CountInv, n
<1>7. TypeInv'
  <2>1. pending_writes' \in 0 .. COUNTER_SIZE - 1
    BY <1>4, <1>5 DEF n
  <2> QED
    BY <1>1, <1>2, <2>1 DEF StorageInv, TypeInv, StorageTypeOK, Places
<1>8. WorkInv'
  BY <1>1, <1>2, <1>3 DEF StorageInv, WorkInv, InCall
<1>9. QueueInv'
  <2>1. \A m \in Message : Awaits(m) => Awaits(m)'
    BY <1>1, <1>2, <1>3, MessageFields DEF Awaits
  <2>2. /\ \A i \in DOMAIN queue : queue[i] \in Message
        /\ \A i \in DOMAIN group : group[i] \in Message
    BY DEF StorageInv, TypeInv
  <2> QED
    BY <1>1, <2>1, <2>2 DEF StorageInv, QueueInv
<1>10. CacheInv'
  BY <1>1, <1>2, <1>3 DEF StorageInv, CacheInv, CachedWasStored
<1>11. PromiseInv'
  <2>1. alone \subseteq Threads
    BY DEF StorageInv, TypeInv, StorageTypeOK
  <2> QED
    BY <1>1, <1>2, <1>3, <2>1 DEF StorageInv, PromiseInv, Done, Stored, Gone
<1>12. HeaderInv'
  BY <1>1, <1>2 DEF StorageInv, HeaderInv, HasHeader
<1> QED
  BY <1>6, <1>7, <1>8, <1>9, <1>10, <1>11, <1>12 DEF StorageInv

(* The return of a write keeps it. *)
LEMMA WriteReturnsStep ==
  ASSUME StorageInv, NEW t \in Threads, WriteReturns(t)
  PROVE  StorageInv'
<1> DEFINE call == work[t][1]
           u == call.u
<1>1. /\ pc[t] = "wait" /\ InCall(t) /\ reply[t] # "none" /\ CacheAfter(t) /\ Goto(t, "idle", <<>>)
      /\ promised' = [promised EXCEPT ![u] =
                        IF t \notin alone \/ reply[t] = "err" THEN @
                        ELSE IF call.kind = "put" THEN "in" ELSE "out"]
      /\ alone' = alone \ {t} /\ reply' = [reply EXCEPT ![t] = "none"]
      /\ UNCHANGED <<rows, disk, queue, pending_writes, group, writer, ever, unlogged>>
  BY DEF WriteReturns, dbVars, writerVars, InCall
<1>2. /\ pc' \in [Threads -> Places] /\ work' = [s \in Threads |-> work'[s]]
      /\ pc'[t] = "idle"
      /\ \A s \in Threads \ {t} : pc'[s] = pc[s] /\ work'[s] = work[s]
  BY <1>1, Move DEF StorageInv, Places
<1>3. call \in Call /\ u \in Utxo /\ call.kind \in {"put", "delete"}
  BY <1>1 DEF StorageInv, WorkInv, Call
<1>4. /\ ~InCall(t)' /\ \A s \in Threads \ {t} : (InCall(s)' <=> InCall(s))
      /\ \A s \in Threads \ {t} : reply'[s] = reply[s]
      /\ reply \in [Threads -> {"none", "ok", "err"}] /\ reply' \in [Threads -> {"none", "ok", "err"}]
  BY <1>1, <1>2 DEF InCall, StorageInv, TypeInv, StorageTypeOK
<1>5. /\ queue \in Seq(Message) /\ group \in Seq(Message) /\ promised \in [Utxo -> {"in", "out", "any"}]
      /\ alone \subseteq Threads /\ HotOK(hot) /\ ever \subseteq Utxo /\ Range(hot) \subseteq ever
  BY DEF StorageInv, TypeInv, StorageTypeOK, HotOK, CacheInv, CachedWasStored
<1>6. HotOK(hot') /\ Range(hot') \subseteq ever
  <2>1. CASE reply[t] = "err"
    BY <1>1, <1>5, <2>1 DEF CacheAfter
  <2>2. CASE reply[t] # "err" /\ call.kind = "put"
    <3>1. reply[t] = "ok" /\ u \in ever
      BY <1>1, <1>4, <2>2 DEF StorageInv, CacheInv
    <3>2. hot' = LruPut(hot, u)
      BY <1>1, <2>2 DEF CacheAfter, Refresh
    <3> HIDE DEF u, call
    <3> QED
      BY <1>3, <1>5, <3>1, <3>2, LruPutLemma DEF HotOK
  <2>3. CASE reply[t] # "err" /\ call.kind # "put"
    <3>1. hot' = Without(hot, u)
      BY <1>1, <2>3 DEF CacheAfter, Refresh
    <3> HIDE DEF u, call
    <3>2. /\ hot' \in Seq(Utxo) /\ IsInjective(hot') /\ Range(hot') \subseteq Range(hot)
          /\ Len(hot') <= Len(hot) /\ Len(hot) \in Nat /\ Len(hot') \in Nat
      BY <1>3, <1>5, <3>1, WithoutLemma DEF HotOK
    <3> QED
      BY <1>5, <3>2, StorageAssumption DEF HotOK
  <2> QED
    BY <2>1, <2>2, <2>3
<1>7. TypeInv'
  <2>1. promised' \in [Utxo -> {"in", "out", "any"}]
    BY <1>1, <1>5
  <2> QED
    BY <1>1, <1>2, <1>4, <1>5, <1>6, <2>1 DEF StorageInv, TypeInv, StorageTypeOK, Places, HotOK
<1>8. WorkInv'
  BY <1>1, <1>2, <1>4 DEF StorageInv, WorkInv
<1>9. QueueInv'
  <2>1. \A m \in Message : Awaits(m) => Awaits(m)'
    BY <1>1, <1>2, <1>4, MessageFields DEF Awaits
  <2>2. /\ \A i \in DOMAIN queue : queue[i] \in Message
        /\ \A i \in DOMAIN group : group[i] \in Message
    BY <1>5
  <2> QED
    BY <1>1, <2>1, <2>2 DEF StorageInv, QueueInv
<1>10. CacheInv'
  BY <1>1, <1>2, <1>4, <1>6 DEF StorageInv, CacheInv, CachedWasStored
<1>11. PromiseInv'
  <2>0. /\ PromiseInv /\ promised[u] = "any"
        /\ \A w \in Utxo \ {u} : promised'[w] = promised[w]
        /\ promised'[u] # "any" => t \in alone /\ reply[t] = "ok"
        /\ promised'[u] = "in" => call.kind = "put"
        /\ promised'[u] = "out" => call.kind = "delete"
    BY <1>1, <1>3, <1>4, <1>5 DEF StorageInv, PromiseInv
  <2>1. \A s \in Threads : InCall(s)' => promised'[work'[s][1].u] = "any"
    <3> SUFFICES ASSUME NEW s \in Threads, InCall(s)' PROVE promised'[work'[s][1].u] = "any"
      OBVIOUS
    <3>1. s # t /\ InCall(s) /\ work'[s] = work[s] /\ promised[work[s][1].u] = "any"
      BY <1>2, <1>4, <2>0 DEF PromiseInv
    <3>2. work[s][1].u \in Utxo
      BY <3>1 DEF StorageInv, WorkInv, Call
    <3>3. CASE work[s][1].u = u
      <4>1. t \notin alone
        BY <2>0, <3>1, <3>3 DEF PromiseInv
      <4> QED
        BY <2>0, <3>1, <3>3, <4>1
    <3> QED
      BY <2>0, <3>1, <3>2, <3>3
  <2>2. ASSUME NEW s \in alone'
        PROVE  /\ InCall(s)'
               /\ \A r \in Threads \ {s} : InCall(r)' => work'[r][1].u # work'[s][1].u
               /\ reply'[s] = "ok" => Done(work[s][1])'
    <3>1. s \in alone /\ s \in Threads /\ s # t /\ InCall(s)' /\ work'[s] = work[s]
      BY <1>1, <1>2, <1>4, <1>5, <2>0 DEF PromiseInv
    <3>2. \A r \in Threads \ {s} : InCall(r)' => work'[r][1].u # work'[s][1].u
      BY <1>2, <1>4, <2>0, <3>1 DEF PromiseInv
    <3>3. reply'[s] = "ok" => Done(work[s][1])'
      BY <1>1, <1>4, <2>0, <3>1 DEF PromiseInv, Done, Stored, Gone
    <3> QED
      BY <3>1, <3>2, <3>3
  <2>3. \A w \in Utxo : (promised'[w] = "in" => Stored(w)') /\ (promised'[w] = "out" => Gone(w)')
    <3>1. promised'[u] # "any" => Done(call)
      BY <2>0 DEF PromiseInv
    <3> QED
      BY <1>1, <1>3, <1>5, <2>0, <3>1 DEF PromiseInv, Stored, Gone, Done
  <2> QED
    BY <2>1, <2>2, <2>3 DEF PromiseInv
<1>12. CountInv'
  <2>1. Sent' = Sent
    BY <1>1, <1>2 DEF Sent
  <2> QED
    BY <1>1, <2>1 DEF StorageInv, CountInv
<1>13. HeaderInv'
  BY <1>1, <1>2 DEF StorageInv, HeaderInv, HasHeader
<1> QED
  BY <1>7, <1>8, <1>9, <1>10, <1>11, <1>12, <1>13 DEF StorageInv

(* WriterRecv and WriterDrain: the head of the queue joins the group. *)
LEMMA TakeStep ==
  ASSUME StorageInv, WriterRecv \/ WriterDrain
  PROVE  StorageInv'
<1> DEFINE n == COUNTER_SIZE
<1>1. /\ queue # <<>> /\ group' = Append(group, Head(queue)) /\ queue' = Tail(queue)
      /\ pending_writes' = (pending_writes + n - 1) % n /\ writer' = "drain"
      /\ UNCHANGED <<rows, disk, hot, pc, work, reply, promised, alone, ever, unlogged>>
  BY DEF WriterRecv, WriterDrain, Take, dbVars, callVars, auxVars
<1>2. /\ queue \in Seq(Message) /\ group \in Seq(Message) /\ QueueInv
      /\ Len(group) <= GROUP_COMMIT_MAX_REQUESTS
  BY DEF StorageInv, TypeInv, StorageTypeOK
<1>3. /\ n \in Nat /\ n > Cardinality(Threads) /\ n > 0 /\ pending_writes \in 0 .. n - 1
      /\ Len(queue) \in Nat /\ Len(queue) < n
      /\ Cardinality(Sent) \in Nat /\ Cardinality(Sent) < n
  BY SentFinite, QueueBounded, StorageAssumption DEF StorageInv, TypeInv, StorageTypeOK
<1> HIDE DEF n
<1>4. pending_writes' = IF pending_writes = 0 THEN n - 1 ELSE pending_writes - 1
  BY <1>1, <1>3, Wraps
<1>5. /\ Head(queue) = queue[1] /\ Head(queue) \in Message /\ 1 \in DOMAIN queue
      /\ queue' \in Seq(Message) /\ Len(queue') = Len(queue) - 1 /\ Len(queue) >= 1
      /\ \A i \in DOMAIN queue' : i + 1 \in DOMAIN queue /\ queue'[i] = queue[i + 1] /\ i + 1 # 1 /\ i \in Nat
  <2>1. /\ Head(queue) = queue[1] /\ Head(queue) \in Message /\ Len(queue) \in Nat \ {0}
        /\ queue' \in Seq(Message) /\ Len(queue') = Len(queue) - 1
        /\ \A i \in 1 .. Len(queue) - 1 : queue'[i] = queue[i + 1]
    BY <1>1, <1>2, TailLemma
  <2>2. DOMAIN queue = 1 .. Len(queue) /\ DOMAIN queue' = 1 .. Len(queue) - 1
    BY <1>2, <2>1
  <2> QED
    BY <2>1, <2>2
<1>6. /\ group' \in Seq(Message) /\ Len(group') = Len(group) + 1 /\ Len(group) \in Nat
      /\ \A i \in DOMAIN group' : \/ i = Len(group) + 1 /\ group'[i] = queue[1]
                                  \/ i \in DOMAIN group /\ group'[i] = group[i]
  BY <1>1, <1>2, <1>5, AppendProperties
<1>7. Len(group') <= GROUP_COMMIT_MAX_REQUESTS
  <2>1. CASE WriterRecv
    <3>1. Len(group) = 0
      BY <2>1 DEF WriterRecv, StorageInv, TypeInv
    <3> QED
      BY <1>6, <3>1, StorageAssumption
  <2>2. CASE WriterDrain
    BY <1>6, <2>2, StorageAssumption DEF WriterDrain
  <2> QED
    BY <2>1, <2>2
<1>8. TypeInv'
  <2>1. pending_writes' \in 0 .. COUNTER_SIZE - 1
    BY <1>3, <1>4 DEF n
  <2> QED
    BY <1>1, <1>5, <1>6, <1>7, <2>1 DEF StorageInv, TypeInv, StorageTypeOK
<1>9. QueueInv'
  <2>1. \A i \in DOMAIN queue' : Awaits(queue'[i])
    BY <1>2, <1>5 DEF QueueInv
  <2>2. \A i, j \in DOMAIN queue' : queue'[i].thread = queue'[j].thread => i = j
    BY <1>2, <1>5 DEF QueueInv
  <2>3. \A i \in DOMAIN group' : Awaits(group'[i])
    BY <1>2, <1>5, <1>6 DEF QueueInv
  <2>4. ASSUME NEW i \in DOMAIN queue', NEW j \in DOMAIN group'
        PROVE  queue'[i].thread # group'[j].thread
    <3>1. i + 1 \in DOMAIN queue /\ queue'[i] = queue[i + 1] /\ i + 1 # 1
      BY <1>5
    <3>2. CASE group'[j] = queue[1]
      BY <1>2, <1>5, <3>1, <3>2 DEF QueueInv
    <3>3. CASE j \in DOMAIN group /\ group'[j] = group[j]
      BY <1>2, <3>1, <3>3 DEF QueueInv
    <3> QED
      BY <1>6, <3>2, <3>3
  <2> QED
    BY <1>1, <2>1, <2>2, <2>3, <2>4 DEF QueueInv, Awaits, InCall
<1>10. CountInv'
  <2>1. Sent' = Sent
    BY <1>1 DEF Sent
  <2> QED
    BY <1>3, <1>4, <1>5, <2>1 DEF StorageInv, CountInv, n
<1> QED
  BY <1>1, <1>8, <1>9, <1>10, WorkFrame, CacheFrame, PromiseFrame, HeaderFrame DEF StorageInv

(* Closing a group keeps it. *)
LEMMA GroupClosedStep ==
  ASSUME StorageInv, WriterGroupClosed
  PROVE  StorageInv'
<1>1. /\ UNCHANGED <<rows, disk, hot, queue, pending_writes, group, pc, work, reply, promised, alone,
                     ever, unlogged>>
      /\ writer' = "write"
  BY DEF WriterGroupClosed, dbVars, callVars, auxVars
<1>2. TypeInv'
  BY <1>1 DEF StorageInv, TypeInv, StorageTypeOK
<1> QED
  BY <1>1, <1>2, WorkFrame, QueueFrame, CacheFrame, PromiseFrame, CountFrame, HeaderFrame
  DEF StorageInv

(* The answers to a group reach its members and nobody else. *)
InGroup(t) == \E i \in DOMAIN group : group[i].thread = t

(* The writer answers every call of its group, and no other. *)
LEMMA AnswerLemma ==
  ASSUME StorageInv, NEW result \in {"ok", "err"}, Respond(result), group' = <<>>, writer' = "recv",
         UNCHANGED <<queue, pending_writes, pc, work>>
  PROVE  /\ QueueInv' /\ CountInv'
         /\ \A t \in Threads : reply'[t] = IF InGroup(t) THEN result ELSE reply[t]
         /\ reply' \in [Threads -> {"none", "ok", "err"}]
         /\ group' \in Seq(Message) /\ Len(group') = 0
<1>1. /\ \A t \in Threads : reply'[t] = IF InGroup(t) THEN result ELSE reply[t]
      /\ reply' \in [Threads -> {"none", "ok", "err"}]
  BY DEF Respond, InGroup, StorageInv, TypeInv, StorageTypeOK
<1>2. \A i \in DOMAIN queue : queue[i] \in Message /\ ~InGroup(queue[i].thread) /\ Awaits(queue[i])
  BY DEF StorageInv, TypeInv, QueueInv, InGroup
<1>3. \A i \in DOMAIN queue : Awaits(queue[i])'
  BY <1>1, <1>2, MessageFields DEF Awaits, InCall
<1>4. QueueInv'
  BY <1>3 DEF StorageInv, QueueInv
<1>5. CountInv'
  BY CountFrame DEF StorageInv
<1> QED
  BY <1>1, <1>4, <1>5

(* A group whose batch fails keeps the invariant. *)
LEMMA WriterFailsStep ==
  ASSUME StorageInv, WriterFails
  PROVE  StorageInv'
<1>1. /\ Respond("err") /\ group' = <<>> /\ writer' = "recv"
      /\ UNCHANGED <<queue, pending_writes, pc, work>>
      /\ UNCHANGED <<rows, disk, hot, promised, alone, ever, unlogged>>
  BY DEF WriterFails, dbVars, auxVars
<1>2. /\ QueueInv' /\ CountInv'
      /\ \A t \in Threads : reply'[t] = IF InGroup(t) THEN "err" ELSE reply[t]
      /\ reply' \in [Threads -> {"none", "ok", "err"}]
      /\ group' \in Seq(Message) /\ Len(group') = 0
  BY <1>1, AnswerLemma
<1>3. TypeInv'
  BY <1>1, <1>2, StorageAssumption DEF StorageInv, TypeInv, StorageTypeOK
<1>4. CacheInv'
  BY <1>1, <1>2 DEF StorageInv, CacheInv, CachedWasStored, InCall
<1>5. PromiseInv'
  <2>1. alone \subseteq Threads
    BY DEF StorageInv, TypeInv, StorageTypeOK
  <2> QED
    BY <1>1, <1>2, <2>1 DEF StorageInv, PromiseInv, Done, Stored, Gone, InCall
<1> QED
  BY <1>1, <1>2, <1>3, <1>4, <1>5, WorkFrame, HeaderFrame DEF StorageInv

(* The batch of a group: every operation is the call of a member. *)
LEMMA GroupBatch ==
  ASSUME StorageInv
  PROVE  /\ IsBatch(CombinedBatch) /\ DOMAIN CombinedBatch = DOMAIN group
         /\ \A i \in DOMAIN group :
               /\ group[i].thread \in Threads /\ InCall(group[i].thread)
               /\ group[i].call = work[group[i].thread][1] /\ group[i].call \in Call
               /\ CombinedBatch[i] = AppendTo(group[i].call)
         /\ \A i \in DOMAIN group : \A r \in CombinedBatch[i].in : r \in UtxoRows(Utxo)
<1>1. /\ DOMAIN group \subseteq Nat \ {0}
      /\ \A i \in DOMAIN group : group[i] \in Message /\ Awaits(group[i])
  BY DEF StorageInv, TypeInv, QueueInv
<1>2. \A i \in DOMAIN group :
         /\ group[i].thread \in Threads /\ InCall(group[i].thread)
         /\ group[i].call = work[group[i].thread][1] /\ group[i].call \in Call
  BY <1>1, MessageFields DEF Awaits
<1>3. /\ DOMAIN CombinedBatch = DOMAIN group
      /\ \A i \in DOMAIN group : CombinedBatch[i] = AppendTo(group[i].call)
  BY DEF CombinedBatch
<1>4. \A c \in Call : /\ AppendTo(c).out \subseteq UtxoRows(Utxo)
                      /\ AppendTo(c).in \subseteq UtxoRows(Utxo)
  BY DEF AppendTo, Put, Delete, Call, UtxoRows
<1>5. \A r \in UtxoRows(Utxo) : r[1] \in Families
  BY DEF UtxoRows, Families
<1> QED
  BY <1>1, <1>2, <1>3, <1>4, <1>5 DEF IsBatch

(* An output all of whose operations in a batch are the same is as they    *)
(* say.                                                                    *)
LEMMA UniformBatch ==
  ASSUME NEW ops, IsBatch(ops), NEW call \in Call, NEW i \in DOMAIN ops, ops[i] = AppendTo(call),
         \A j \in DOMAIN ops : \/ ops[j] = AppendTo(call)
                               \/ <<"utxo", call.u>> \notin ops[j].out \union ops[j].in,
         NEW c
  PROVE  /\ call.kind = "put" => <<"utxo", call.u>> \in ApplyOps(c, ops)
         /\ call.kind = "delete" => <<"utxo", call.u>> \notin ApplyOps(c, ops)
<1> DEFINE r == <<"utxo", call.u>>
<1>1. CASE call.kind = "put"
  <2>1. \A j \in DOMAIN ops : r \notin ops[j].out
    BY <1>1 DEF AppendTo, Put
  <2>2. r \in ops[i].in
    BY <1>1 DEF AppendTo, Put
  <2> QED
    BY <1>1, <2>1, <2>2 DEF ApplyOps
<1>2. CASE call.kind = "delete"
  <2>1. r \in ops[i].out /\ i > 0
    BY <1>2 DEF AppendTo, Delete, IsBatch
  <2>2. \A j \in DOMAIN ops : r \notin ops[j].in
    BY <1>2 DEF AppendTo, Delete
  <2> QED
    BY <1>2, <2>1, <2>2 DEF ApplyOps
<1> QED
  BY <1>1, <1>2 DEF Call

(* A written batch keeps the rows typed and the stored outputs in ever.    *)
LEMMA BatchKeeps ==
  ASSUME StorageInv, NEW ops, IsBatch(ops), rows' = ApplyOps(rows, ops),
         disk' = ApplyOps(disk, ops) \/ disk' = disk, ever' = ever \union Written(ops)
  PROVE  /\ \A r \in rows' \union disk' : r[1] \in Families
         /\ ever \subseteq ever' /\ ever' \subseteq Utxo
         /\ StoredUtxos(rows') \subseteq ever'
         /\ Range(hot) \subseteq ever'
<1>1. /\ \A r \in rows : r[1] \in Families
      /\ \A r \in disk : r[1] \in Families
      /\ ever \subseteq Utxo /\ Range(hot) \subseteq ever /\ StoredUtxos(rows) \subseteq ever
  BY DEF StorageInv, TypeInv, StorageTypeOK, CacheInv, CachedWasStored
<1>2. /\ \A r \in rows' : r[1] \in Families
      /\ \A r \in disk' : r[1] \in Families
  BY <1>1, BatchFamilies
<1>3. StoredUtxos(rows') \subseteq ever'
  BY <1>1, BatchStores
<1>4. Written(ops) \subseteq Utxo
  BY DEF Written
<1> QED
  BY <1>1, <1>2, <1>3, <1>4

(* A batch without rows of blocks keeps HeaderInv. *)
LEMMA BatchHeaders ==
  ASSUME HeaderInv, NEW ops, IsBatch(ops), rows' = ApplyOps(rows, ops), disk' = ApplyOps(disk, ops),
         \A i \in DOMAIN ops : ops[i].in \subseteq UtxoRows(Utxo),
         UNCHANGED <<unlogged, pc, work>>
  PROVE  HeaderInv'
<1>1. \A b : <<"body", b>> \notin UtxoRows(Utxo) /\ <<"header", b>> \notin UtxoRows(Utxo)
  BY DEF UtxoRows
<1>2. \A b : /\ (<<"body", b>> \in rows' <=> <<"body", b>> \in rows)
             /\ (<<"body", b>> \in disk' <=> <<"body", b>> \in disk)
             /\ (<<"header", b>> \in rows' <=> <<"header", b>> \in rows)
             /\ (<<"header", b>> \in disk' <=> <<"header", b>> \in disk)
  BY <1>1, BatchAdds
<1>3. \A b : HasHeader(b)' <=> HasHeader(b)
  BY <1>2 DEF HasHeader
<1>4. \A b \in Block \ unlogged' : <<"body", b>> \in rows' \union disk' => HasHeader(b)'
  BY <1>2, <1>3 DEF HeaderInv
<1>5. \A t \in Threads : pc'[t] = "store" =>
          \A i \in DOMAIN work'[t] : \A b \in Block : work'[t][i] = Put("body", b) =>
              HasHeader(b)' \/ \E j \in 1 .. i - 1 : work'[t][j] = Put("header", b)
  BY <1>3 DEF HeaderInv
<1> QED
  BY <1>4, <1>5 DEF HeaderInv

(* A group that is committed keeps it. *)
LEMMA WriterCommitStep ==
  ASSUME StorageInv, WriterCommit
  PROVE  StorageInv'
<1> DEFINE ops == CombinedBatch
<1>1. /\ Respond("ok") /\ group' = <<>> /\ writer' = "recv"
      /\ UNCHANGED <<queue, pending_writes, pc, work>>
      /\ UNCHANGED <<hot, promised, alone, unlogged>>
      /\ rows' = ApplyOps(rows, ops) /\ disk' = ApplyOps(disk, ops) /\ ever' = ever \union Written(ops)
  BY DEF WriterCommit, WriteBatch
<1>2. /\ QueueInv' /\ CountInv'
      /\ \A t \in Threads : reply'[t] = IF InGroup(t) THEN "ok" ELSE reply[t]
      /\ reply' \in [Threads -> {"none", "ok", "err"}]
      /\ group' \in Seq(Message) /\ Len(group') = 0
  BY <1>1, AnswerLemma
<1>3. /\ IsBatch(ops) /\ DOMAIN ops = DOMAIN group
      /\ \A i \in DOMAIN group :
            /\ group[i].thread \in Threads /\ InCall(group[i].thread)
            /\ group[i].call = work[group[i].thread][1] /\ group[i].call \in Call
            /\ ops[i] = AppendTo(group[i].call)
      /\ \A i \in DOMAIN group : ops[i].in \subseteq UtxoRows(Utxo)
  BY GroupBatch
<1> HIDE DEF ops
<1>4. /\ \A r \in rows' \union disk' : r[1] \in Families
      /\ ever \subseteq ever' /\ ever' \subseteq Utxo
      /\ StoredUtxos(rows') \subseteq ever'
      /\ Range(hot) \subseteq ever'
  BY <1>1, <1>3, BatchKeeps
<1>5. TypeInv'
  BY <1>1, <1>2, <1>4, StorageAssumption DEF StorageInv, TypeInv, StorageTypeOK
<1>6. WorkInv'
  BY <1>1, <1>4, WorkFrame DEF StorageInv
<1>7. HeaderInv'
  BY <1>1, <1>3, BatchHeaders DEF StorageInv
<1>8. \A c, d \in Call : AppendTo(c).out \union AppendTo(c).in = {<<"utxo", c.u>>}
  BY DEF AppendTo, Put, Delete, Call
<1>9. CacheInv'
  <2>1. ASSUME NEW t \in Threads, InCall(t), reply'[t] = "ok", work[t][1].kind = "put"
        PROVE  work[t][1].u \in ever'
    <3>1. CASE InGroup(t)
      <4>1. PICK i \in DOMAIN group : group[i].thread = t
        BY <3>1 DEF InGroup
      <4>2. ops[i] = Put("utxo", work[t][1].u) /\ work[t][1].u \in Utxo
        BY <1>3, <2>1, <4>1 DEF AppendTo, Call
      <4>3. work[t][1].u \in Written(ops)
        BY <1>3, <4>1, <4>2 DEF Written, Put
      <4> QED
        BY <1>1, <4>3
    <3>2. CASE ~InGroup(t)
      BY <1>2, <1>4, <2>1, <3>2 DEF StorageInv, CacheInv
    <3> QED
      BY <3>1, <3>2
  <2> QED
    BY <1>1, <1>4, <2>1 DEF CacheInv, CachedWasStored, InCall
<1>10. PromiseInv'
  <2>1. PromiseInv /\ alone \subseteq Threads
    BY DEF StorageInv, TypeInv, StorageTypeOK
  <2>2. ASSUME NEW u \in Utxo, \A i \in DOMAIN group : group[i].call.u # u
        PROVE  (Stored(u) => Stored(u)') /\ (Gone(u) => Gone(u)')
    <3>1. u \notin Touched(ops)
      BY <1>3, <1>8, <2>2 DEF Touched
    <3> QED
      BY <1>1, <1>3, <3>1, BatchSpares DEF Stored, Gone
  <2>3. ASSUME NEW t \in alone, reply'[t] = "ok"
        PROVE  Done(work[t][1])'
    <3>1. t \in Threads /\ InCall(t) /\ work[t][1] \in Call /\ work[t][1].u \in Utxo
      BY <2>1 DEF PromiseInv, StorageInv, WorkInv, Call
    <3>2. \A j \in DOMAIN group : group[j].call.u = work[t][1].u => group[j].thread = t
      BY <1>3, <2>1, <3>1 DEF PromiseInv
    <3>3. CASE InGroup(t)
      <4>1. PICK i \in DOMAIN ops : ops[i] = AppendTo(work[t][1])
        BY <1>3, <3>3 DEF InGroup
      <4>2. \A j \in DOMAIN ops : \/ ops[j] = AppendTo(work[t][1])
                                  \/ <<"utxo", work[t][1].u>> \notin ops[j].out \union ops[j].in
        BY <1>3, <1>8, <3>1, <3>2
      <4>3. \A c : /\ work[t][1].kind = "put" => <<"utxo", work[t][1].u>> \in ApplyOps(c, ops)
                   /\ work[t][1].kind = "delete" => <<"utxo", work[t][1].u>> \notin ApplyOps(c, ops)
        BY <1>3, <3>1, <4>1, <4>2, UniformBatch
      <4> QED
        BY <1>1, <4>3 DEF Done, Stored, Gone
    <3>4. CASE ~InGroup(t)
      <4>1. \A i \in DOMAIN group : group[i].call.u # work[t][1].u
        BY <3>2, <3>4 DEF InGroup
      <4>2. Done(work[t][1])
        BY <1>2, <2>1, <2>3, <3>1, <3>4 DEF PromiseInv
      <4>3. /\ Stored(work[t][1].u) => Stored(work[t][1].u)'
            /\ Gone(work[t][1].u) => Gone(work[t][1].u)'
        <5>1. \A u \in Utxo : u = work[t][1].u => (Stored(u) => Stored(u)') /\ (Gone(u) => Gone(u)')
          BY <2>2, <4>1
        <5> QED
          BY <1>1, <3>1, <5>1 DEF Stored, Gone
      <4> QED
        BY <1>1, <4>2, <4>3 DEF Done
    <3> QED
      BY <3>3, <3>4
  <2>4. ASSUME NEW u \in Utxo
        PROVE  (promised'[u] = "in" => Stored(u)') /\ (promised'[u] = "out" => Gone(u)')
    <3>1. CASE promised[u] = "any"
      BY <1>1, <3>1
    <3>2. CASE promised[u] # "any"
      <4>1. \A i \in DOMAIN group : group[i].call.u # u
        BY <1>3, <2>1, <3>2 DEF PromiseInv
      <4> QED
        BY <1>1, <2>1, <2>2, <4>1 DEF PromiseInv
    <3> QED
      BY <3>1, <3>2
  <2>5. \A t \in Threads : InCall(t)' => promised'[work'[t][1].u] = "any"
    BY <1>1, <2>1 DEF PromiseInv, InCall
  <2>6. ASSUME NEW s \in alone'
        PROVE  /\ InCall(s)'
               /\ \A r \in Threads \ {s} : InCall(r)' => work'[r][1].u # work'[s][1].u
               /\ reply'[s] = "ok" => Done(work[s][1])'
    BY <1>1, <2>1, <2>3 DEF PromiseInv, InCall
  <2> QED
    BY <2>4, <2>5, <2>6 DEF PromiseInv
<1> QED
  BY <1>2, <1>5, <1>6, <1>7, <1>9, <1>10 DEF StorageInv

(* Whatever a direct write does not touch stays promised, and what it      *)
(* touches is promised only when nobody else writes it.                    *)
LEMMA DirectStep ==
  ASSUME StorageInv, NEW ops, IsBatch(ops), rows' = ApplyOps(rows, ops),
         \/ disk' = ApplyOps(disk, ops) /\ DirectPromise(ops, TRUE)
         \/ disk' = disk /\ DirectPromise(ops, FALSE),
         ever' = ever \union Written(ops), unlogged \subseteq unlogged', unlogged' \subseteq Block,
         UNCHANGED <<hot, writerVars, callVars>>
  PROVE  TypeInv' /\ WorkInv' /\ QueueInv' /\ CacheInv' /\ PromiseInv' /\ CountInv'
<1>1. /\ UNCHANGED <<queue, pending_writes, group, writer>>
      /\ UNCHANGED <<pc, work, reply, hot>>
  BY DEF writerVars, callVars
<1>2. /\ \A r \in rows' \union disk' : r[1] \in Families
      /\ ever \subseteq ever' /\ ever' \subseteq Utxo
      /\ StoredUtxos(rows') \subseteq ever'
      /\ Range(hot) \subseteq ever'
  BY BatchKeeps
<1>3. /\ PromiseInv /\ alone \subseteq Threads /\ promised \in [Utxo -> {"in", "out", "any"}]
      /\ alone' = alone \ UNION {InFlight(u) : u \in Touched(ops)}
  BY DEF StorageInv, TypeInv, StorageTypeOK, DirectPromise
<1>4. ASSUME NEW u \in Utxo
      PROVE  /\ promised'[u] \in {"in", "out", "any"}
             /\ u \notin Touched(ops) => promised'[u] = promised[u]
             /\ u \in Touched(ops) /\ promised'[u] # "any" =>
                   /\ disk' = ApplyOps(disk, ops) /\ InFlight(u) = {}
                   /\ promised'[u] = IF <<"utxo", u>> \in ApplyOps(rows, ops) THEN "in" ELSE "out"
  BY <1>3, <1>4 DEF DirectPromise, StoredUtxos
<1>5. promised' \in [Utxo -> {"in", "out", "any"}]
  <2>1. promised' = [u \in Utxo |-> promised'[u]]
    BY DEF DirectPromise
  <2> QED
    BY <1>4, <2>1
<1>6. ASSUME NEW u \in Utxo, u \notin Touched(ops)
      PROVE  (Stored(u) => Stored(u)') /\ (Gone(u) => Gone(u)')
  BY <1>6, BatchSpares DEF Stored, Gone
<1>7. TypeInv'
  BY <1>1, <1>2, <1>3, <1>5 DEF StorageInv, TypeInv, StorageTypeOK
<1>8. WorkInv' /\ QueueInv' /\ CountInv'
  BY <1>1, <1>2, WorkFrame, QueueFrame, CountFrame DEF StorageInv
<1>9. CacheInv'
  BY <1>1, <1>2 DEF StorageInv, CacheInv, CachedWasStored, InCall
<1>10. PromiseInv'
  <2>1. ASSUME NEW t \in Threads, InCall(t) PROVE promised'[work[t][1].u] = "any"
    <3>1. work[t][1].u \in Utxo
      BY <2>1 DEF StorageInv, WorkInv, Call
    <3>2. t \in InFlight(work[t][1].u) /\ promised[work[t][1].u] = "any"
      BY <1>3, <2>1 DEF InFlight, PromiseInv
    <3> QED
      BY <1>4, <3>1, <3>2
  <2>2. ASSUME NEW t \in alone', reply[t] = "ok" PROVE Done(work[t][1])'
    <3>1. t \in alone /\ t \in Threads /\ InCall(t) /\ Done(work[t][1]) /\ work[t][1].u \in Utxo
      BY <1>3, <2>2 DEF PromiseInv, StorageInv, WorkInv, Call
    <3>2. work[t][1].u \notin Touched(ops)
      BY <1>3, <3>1 DEF InFlight
    <3>3. \A u \in Utxo : u = work[t][1].u => (Stored(u) => Stored(u)') /\ (Gone(u) => Gone(u)')
      BY <1>6, <3>2
    <3> QED
      BY <1>1, <3>1, <3>3 DEF Done, Stored, Gone
  <2>3. ASSUME NEW u \in Utxo
        PROVE  (promised'[u] = "in" => Stored(u)') /\ (promised'[u] = "out" => Gone(u)')
    <3>1. CASE u \notin Touched(ops)
      BY <1>3, <1>4, <1>6, <3>1 DEF PromiseInv
    <3>2. CASE u \in Touched(ops) /\ promised'[u] # "any"
      <4>1. /\ disk' = ApplyOps(disk, ops)
            /\ promised'[u] = IF <<"utxo", u>> \in ApplyOps(rows, ops) THEN "in" ELSE "out"
        BY <1>4, <3>2
      <4>2. <<"utxo", u>> \in ApplyOps(rows, ops) <=> <<"utxo", u>> \in ApplyOps(disk, ops)
        BY <3>2, BatchDecides
      <4> QED
        BY <4>1, <4>2 DEF Stored, Gone
    <3> QED
      BY <3>1, <3>2
  <2>4. \A t \in Threads : InCall(t)' => promised'[work'[t][1].u] = "any"
    BY <1>1, <2>1 DEF InCall
  <2>5. ASSUME NEW s \in alone'
        PROVE  /\ InCall(s)'
               /\ \A r \in Threads \ {s} : InCall(r)' => work'[r][1].u # work'[s][1].u
               /\ reply'[s] = "ok" => Done(work[s][1])'
    BY <1>1, <1>3, <2>2 DEF PromiseInv, InCall
  <2> QED
    BY <2>3, <2>4, <2>5 DEF PromiseInv
<1> QED
  BY <1>7, <1>8, <1>9, <1>10

(* A block commit, with and without the log, keeps it. *)
LEMMA CommitStep ==
  ASSUME StorageInv, NEW t \in Threads, NEW b \in Block, CommitBlock(t, b) \/ CommitBlockNoWal(t, b)
  PROVE  StorageInv'
<1> DEFINE ops == BlockOps(b)
<1>1. /\ IsBatch(ops)
      /\ \A c : (\E i \in DOMAIN ops : <<"body", c>> \in ops[i].in) <=> c = b
      /\ \A c : (\E i \in DOMAIN ops : <<"header", c>> \in ops[i].in) <=> c = b
  BY BlockBatch
<1>2. /\ rows' = ApplyOps(rows, ops) /\ ever' = ever \union Written(ops)
      /\ \/ disk' = ApplyOps(disk, ops) /\ DirectPromise(ops, TRUE) /\ unlogged' = unlogged
         \/ disk' = disk /\ DirectPromise(ops, FALSE) /\ unlogged' = unlogged \union {b}
      /\ UNCHANGED <<hot, writerVars, callVars>>
  BY DEF CommitBlock, CommitBlockNoWal, WriteBatch, WriteBatchNoWal
<1> HIDE DEF ops
<1>3. unlogged \subseteq unlogged' /\ unlogged' \subseteq Block
  BY <1>2 DEF StorageInv, TypeInv, StorageTypeOK
<1>4. TypeInv' /\ WorkInv' /\ QueueInv' /\ CacheInv' /\ PromiseInv' /\ CountInv'
  BY <1>1, <1>2, <1>3, DirectStep
<1>5. HeaderInv'
  <2>1. \A c : <<"body", c>> \notin UtxoRows(Utxo) /\ <<"header", c>> \notin UtxoRows(Utxo)
    BY DEF UtxoRows
  <2>2. \A c, d : /\ (<<"body", c>> \in ApplyOps(d, ops) <=> <<"body", c>> \in d \/ c = b)
                  /\ (<<"header", c>> \in ApplyOps(d, ops) <=> <<"header", c>> \in d \/ c = b)
    BY <1>1, <2>1, BatchAdds
  <2>3. \A c : HasHeader(c) => HasHeader(c)'
    BY <1>2, <2>2 DEF HasHeader
  <2>4. \A c \in Block \ unlogged' : <<"body", c>> \in rows' \union disk' => HasHeader(c)'
    <3> SUFFICES ASSUME NEW c \in Block \ unlogged', <<"body", c>> \in rows' \union disk'
                 PROVE  HasHeader(c)'
      OBVIOUS
    <3>1. CASE c = b
      <4>1. rows' = ApplyOps(rows, ops) /\ disk' = ApplyOps(disk, ops)
        BY <1>2, <3>1
      <4> QED
        BY <2>2, <3>1, <4>1 DEF HasHeader
    <3>2. CASE c # b
      <4>1. <<"body", c>> \in rows' => <<"body", c>> \in rows
        BY <1>2, <2>2, <3>2
      <4>2. disk' = ApplyOps(disk, ops) \/ disk' = disk
        BY <1>2
      <4>3. <<"body", c>> \in disk' => <<"body", c>> \in disk
        <5>1. CASE disk' = ApplyOps(disk, ops)
          BY <2>2, <3>2, <5>1
        <5>2. CASE disk' = disk
          BY <5>2
        <5> QED
          BY <4>2, <5>1, <5>2
      <4> QED
        BY <1>3, <2>3, <4>1, <4>3 DEF StorageInv, HeaderInv
    <3> QED
      BY <3>1, <3>2
  <2>5. UNCHANGED <<pc, work>>
    BY <1>2 DEF callVars
  <2>6. \A s \in Threads : pc'[s] = "store" =>
            \A i \in DOMAIN work'[s] : \A c \in Block : work'[s][i] = Put("body", c) =>
                HasHeader(c)' \/ \E j \in 1 .. i - 1 : work'[s][j] = Put("header", c)
    BY <2>3, <2>5 DEF StorageInv, HeaderInv
  <2> QED
    BY <2>4, <2>6 DEF HeaderInv
<1> QED
  BY <1>4, <1>5 DEF StorageInv

(* apply_tx, the batch of one transaction, keeps it. *)
LEMMA ApplyTxStep ==
  ASSUME StorageInv, NEW t \in Threads, NEW b \in Block, ApplyTx(t, b)
  PROVE  StorageInv'
<1>1. PICK i \in DOMAIN Txs[b] : /\ WriteBatch(ApplyTxOps(Txs[b][i]))
                                 /\ DirectPromise(ApplyTxOps(Txs[b][i]), TRUE)
  BY DEF ApplyTx
<1>2. Txs[b][i] \in Transaction
  BY StorageAssumption
<1> DEFINE ops == ApplyTxOps(Txs[b][i])
<1>3. IsBatch(ops) /\ \A j \in DOMAIN ops : ops[j].in \subseteq UtxoRows(Utxo)
  BY <1>2, ApplyTxBatch
<1>4. /\ rows' = ApplyOps(rows, ops) /\ disk' = ApplyOps(disk, ops) /\ ever' = ever \union Written(ops)
      /\ DirectPromise(ops, TRUE)
      /\ UNCHANGED <<hot, writerVars, callVars>> /\ UNCHANGED <<unlogged, pc, work>>
  BY <1>1 DEF WriteBatch, ApplyTx, callVars
<1> HIDE DEF ops
<1>5. unlogged' \subseteq Block
  BY <1>4 DEF StorageInv, TypeInv, StorageTypeOK
<1>6. TypeInv' /\ WorkInv' /\ QueueInv' /\ CacheInv' /\ PromiseInv' /\ CountInv'
  BY <1>3, <1>4, <1>5, DirectStep
<1>7. HeaderInv'
  BY <1>3, <1>4, BatchHeaders DEF StorageInv
<1> QED
  BY <1>6, <1>7 DEF StorageInv

(* A put is known by its family and its key. *)
LEMMA PutInjective ==
  ASSUME NEW cf, NEW k, NEW df, NEW l
  PROVE  /\ Put(cf, k).in = {<<cf, k>>}
         /\ Put(cf, k) = Put(df, l) <=> cf = df /\ k = l
<1>1. Put(cf, k).in = {<<cf, k>>} /\ Put(df, l).in = {<<df, l>>}
  BY DEF Put
<1>2. {<<cf, k>>} = {<<df, l>>} => <<cf, k>> = <<df, l>>
  OBVIOUS
<1>3. <<cf, k>> = <<df, l>> => cf = df /\ k = l
  OBVIOUS
<1> QED
  BY <1>1, <1>2, <1>3

(* store_block writes the header, the body and the transactions in turn.   *)
LEMMA StoreOps ==
  ASSUME NEW b \in Block
  PROVE  /\ StoreBlockOps(b) \in Seq(BlockPut) /\ StoreBlockOps(b) # <<>>
         /\ \A i \in DOMAIN StoreBlockOps(b) : \A c \in Block : StoreBlockOps(b)[i] = Put("body", c) =>
               \E j \in 1 .. i - 1 : StoreBlockOps(b)[j] = Put("header", c)
<1> DEFINE first == <<Put("header", b), Put("body", b)>>
           rest == [i \in DOMAIN Txs[b] |-> Put("tx", Txs[b][i].id)]
           n == Len(Txs[b])
<1>1. n \in Nat /\ DOMAIN Txs[b] = 1 .. n /\ \A i \in 1 .. n : Txs[b][i].id \in TxId
  <2>1. n \in Nat /\ DOMAIN Txs[b] = 1 .. n /\ \A i \in 1 .. n : Txs[b][i] \in Transaction
    BY StorageAssumption
  <2> QED
    BY <2>1 DEF Transaction
<1>2. \A cf \in {"header", "body", "tx"}, k \in Block \union TxId : Put(cf, k) \in BlockPut
  BY DEF BlockPut
<1>3. first \in Seq(BlockPut) /\ Len(first) = 2 /\ first[1] = Put("header", b) /\ first[2] = Put("body", b)
  BY <1>2
<1>4. rest \in Seq(BlockPut) /\ Len(rest) = n /\ \A i \in 1 .. n : rest[i] = Put("tx", Txs[b][i].id)
  BY <1>1, <1>2
<1>5. StoreBlockOps(b) = first \o rest
  BY DEF StoreBlockOps
<1> HIDE DEF first, rest, n
<1>6. /\ StoreBlockOps(b) \in Seq(BlockPut) /\ Len(StoreBlockOps(b)) = n + 2
      /\ StoreBlockOps(b)[1] = Put("header", b) /\ StoreBlockOps(b)[2] = Put("body", b)
      /\ \A i \in 3 .. n + 2 : StoreBlockOps(b)[i] = Put("tx", Txs[b][i - 2].id)
  <2>1. /\ first \o rest \in Seq(BlockPut) /\ Len(first \o rest) = 2 + n
        /\ \A i \in 1 .. 2 + n : (first \o rest)[i] = IF i <= 2 THEN first[i] ELSE rest[i - 2]
    <3>1. /\ first \o rest \in Seq(BlockPut) /\ Len(first \o rest) = Len(first) + Len(rest)
          /\ \A i \in 1 .. Len(first) + Len(rest) : (first \o rest)[i] =
                 IF i <= Len(first) THEN first[i] ELSE rest[i - Len(first)]
      BY <1>3, <1>4, ConcatProperties, Zenon
    <3>2. Len(first) = 2 /\ Len(rest) = n
      BY <1>3, <1>4
    <3> QED
      BY <3>1, <3>2, Zenon
  <2>2. \A i \in 3 .. n + 2 : (first \o rest)[i] = Put("tx", Txs[b][i - 2].id)
    <3> TAKE i \in 3 .. n + 2
    <3>1. i \in 1 .. 2 + n /\ ~(i <= 2) /\ i - 2 \in 1 .. n
      BY <1>1
    <3> QED
      BY <1>4, <2>1, <3>1
  <2>3. (first \o rest)[1] = Put("header", b) /\ (first \o rest)[2] = Put("body", b)
    <3>1. 1 \in 1 .. 2 + n /\ 2 \in 1 .. 2 + n /\ 2 + n = n + 2
      BY <1>1
    <3> QED
      BY <1>3, <2>1, <3>1
  <2> QED
    BY <1>1, <1>5, <2>1, <2>2, <2>3
<1>7. \A k, c : Put("tx", k) # Put("body", c) /\ Put("header", k) # Put("body", c)
  BY PutInjective
<1>8. \A k, c : Put("body", k) = Put("body", c) => k = c
  BY PutInjective
<1>9. ASSUME NEW i \in DOMAIN StoreBlockOps(b), NEW c \in Block, StoreBlockOps(b)[i] = Put("body", c)
      PROVE  \E j \in 1 .. i - 1 : StoreBlockOps(b)[j] = Put("header", c)
  <2>1. i \in 1 .. n + 2
    BY <1>6
  <2>2. i = 2 /\ c = b
    <3>1. i # 1
      BY <1>6, <1>7, <1>9
    <3>2. i \notin 3 .. n + 2
      BY <1>6, <1>7, <1>9
    <3>3. i = 2
      BY <1>1, <2>1, <3>1, <3>2
    <3> QED
      BY <1>6, <1>8, <1>9, <3>3
  <2> QED
    BY <1>6, <2>2
<1>10. StoreBlockOps(b) # <<>>
  BY <1>1, <1>6
<1> QED
  BY <1>6, <1>9, <1>10

(* The start of store_block keeps it. *)
LEMMA StoreBlockStep ==
  ASSUME StorageInv, NEW t \in Threads, NEW b \in Block, StoreBlock(t, b)
  PROVE  StorageInv'
<1> DEFINE todo == StoreBlockOps(b)
<1>1. /\ ~InCall(t) /\ Goto(t, "store", todo)
      /\ UNCHANGED <<writerVars, reply, promised, alone, unlogged>>
      /\ UNCHANGED <<rows, disk, hot, ever>>
  BY DEF StoreBlock, InCall, dbVars, auxVars
<1>2. /\ todo \in Seq(BlockPut) /\ todo # <<>>
      /\ \A i \in DOMAIN todo : \A c \in Block : todo[i] = Put("body", c) =>
            \E j \in 1 .. i - 1 : todo[j] = Put("header", c)
  BY StoreOps
<1> HIDE DEF todo
<1>3. /\ HotOK(hot') /\ Range(hot') \subseteq ever' /\ StoredUtxos(rows') \subseteq ever'
      /\ ever' \subseteq Utxo /\ \A r \in rows' \union disk' : r[1] \in Families
  BY <1>1 DEF StorageInv, TypeInv, StorageTypeOK, HotOK, CacheInv, CachedWasStored
<1>4. TypeInv'
  BY <1>1, <1>3, QuietType DEF StorageInv
<1>5. WorkInv'
  BY <1>1, <1>2, QuietWork DEF StorageInv
<1>6. QueueInv' /\ CountInv' /\ PromiseInv' /\ CacheInv'
  BY <1>1, <1>3, QuietStep
<1>7. HeaderInv'
  <2>1. /\ work'[t] = todo
        /\ \A s \in Threads \ {t} : pc'[s] = pc[s] /\ work'[s] = work[s]
    BY <1>1, QuietMove DEF StorageInv
  <2>2. \A s \in Threads : pc'[s] = "store" =>
            \A i \in DOMAIN work'[s] : \A c \in Block : work'[s][i] = Put("body", c) =>
                HasHeader(c) \/ \E j \in 1 .. i - 1 : work'[s][j] = Put("header", c)
    BY <1>2, <2>1 DEF StorageInv, HeaderInv
  <2> QED
    BY <1>1, <2>2 DEF StorageInv, HeaderInv, HasHeader
<1> QED
  BY <1>4, <1>5, <1>6, <1>7 DEF StorageInv

(* A store_block that fails half-way keeps it. *)
LEMMA StoreBlockFailsStep ==
  ASSUME StorageInv, NEW t \in Threads, StoreBlockFails(t)
  PROVE  StorageInv'
<1>1. HotOK(hot) /\ Range(hot) \subseteq ever
  BY DEF StorageInv, TypeInv, StorageTypeOK, HotOK, CacheInv, CachedWasStored
<1> QED
  BY <1>1, ReaderStep DEF StoreBlockFails, InCall

(* One of the puts of store_block keeps it. *)
LEMMA StoreBlockPutStep ==
  ASSUME StorageInv, NEW t \in Threads, StoreBlockPut(t)
  PROVE  StorageInv'
<1> DEFINE op == Head(work[t])
           ops == <<op>>
<1>1. /\ pc[t] = "store" /\ ~InCall(t)
      /\ rows' = ApplyOps(rows, ops) /\ disk' = ApplyOps(disk, ops) /\ ever' = ever \union Written(ops)
      /\ UNCHANGED <<writerVars, reply, promised, alone, unlogged>> /\ UNCHANGED hot
  BY DEF StoreBlockPut, WriteBatch, InCall
<1>2. /\ work[t] \in Seq(BlockPut) /\ work[t] # <<>>
      /\ op = work[t][1] /\ op \in BlockPut /\ Len(work[t]) \in Nat \ {0}
      /\ Tail(work[t]) \in Seq(BlockPut) /\ Len(Tail(work[t])) = Len(work[t]) - 1
      /\ \A i \in 1 .. Len(work[t]) - 1 : Tail(work[t])[i] = work[t][i + 1]
      /\ Len(work[t]) > 1 => Tail(work[t]) # <<>>
  <2>1. work[t] \in Seq(BlockPut) /\ work[t] # <<>>
    BY <1>1 DEF StorageInv, WorkInv
  <2> QED
    BY <2>1, TailLemma
<1>3. PICK cf \in {"header", "body", "tx"}, k \in Block \union TxId : op = Put(cf, k)
  BY <1>2 DEF BlockPut
<1>4. /\ DOMAIN ops = {1} /\ ops[1].out = {} /\ ops[1].in = {<<cf, k>>} /\ cf \in Families /\ cf # "utxo"
  BY <1>3 DEF Put, Families
<1>5. PICK place, todo :
         /\ place \in {"idle", "store"} /\ Goto(t, place, todo)
         /\ place = "store" => todo = Tail(work[t]) /\ Len(work[t]) > 1
  <2>1. CASE Len(work[t]) > 1
    BY <2>1, Zenon DEF StoreBlockPut
  <2>2. CASE ~(Len(work[t]) > 1)
    <3>1. Goto(t, "idle", <<>>)
      BY <2>2, Zenon DEF StoreBlockPut
    <3>2. "idle" # "store"
      OBVIOUS
    <3> QED
      BY <3>1, <3>2, Zenon
  <2> QED
    BY <2>1, <2>2
<1> HIDE DEF op, ops
<1>6. IsBatch(ops) /\ Touched(ops) = {}
  BY <1>4 DEF IsBatch, Touched
<1>7. /\ \A r \in rows' \union disk' : r[1] \in Families
      /\ ever \subseteq ever' /\ ever' \subseteq Utxo
      /\ StoredUtxos(rows') \subseteq ever'
      /\ Range(hot') \subseteq ever'
  BY <1>1, <1>6, BatchKeeps
<1>8. \A u \in Utxo : (Stored(u)' <=> Stored(u)) /\ (Gone(u)' <=> Gone(u))
  BY <1>1, <1>6, BatchSpares DEF Stored, Gone
<1>9. HotOK(hot')
  BY <1>1 DEF StorageInv, TypeInv, StorageTypeOK, HotOK
<1>10. TypeInv'
  BY <1>1, <1>5, <1>7, <1>9, QuietType DEF StorageInv
<1>11. WorkInv'
  BY <1>1, <1>2, <1>5, <1>7, QuietWork DEF StorageInv
<1>12. QueueInv' /\ CountInv' /\ CacheInv'
  BY <1>1, <1>5, <1>7, QuietStep
<1>13. /\ \A s \in Threads : (InCall(s)' <=> InCall(s)) /\ (InCall(s) => work'[s] = work[s])
       /\ pc'[t] = place /\ work'[t] = todo
       /\ \A s \in Threads \ {t} : pc'[s] = pc[s] /\ work'[s] = work[s]
  BY <1>1, <1>5, QuietMove DEF StorageInv
<1>14. PromiseInv'
  <2>1. PromiseInv /\ alone \subseteq Threads /\ alone' = alone /\ promised' = promised /\ reply' = reply
    BY <1>1 DEF StorageInv, TypeInv, StorageTypeOK
  <2>2. \A s \in Threads : InCall(s)' => promised'[work'[s][1].u] = "any"
    BY <1>13, <2>1 DEF PromiseInv
  <2>3. ASSUME NEW s \in alone'
        PROVE  /\ InCall(s)'
               /\ \A r \in Threads \ {s} : InCall(r)' => work'[r][1].u # work'[s][1].u
               /\ reply'[s] = "ok" => Done(work[s][1])'
    <3>1. InCall(s)' /\ work'[s] = work[s] /\ s \in Threads /\ work[s][1].u \in Utxo
      BY <1>13, <2>1, <2>3 DEF PromiseInv, StorageInv, WorkInv, Call
    <3>2. \A r \in Threads \ {s} : InCall(r)' => work'[r][1].u # work'[s][1].u
      BY <1>13, <2>1, <2>3, <3>1 DEF PromiseInv
    <3>3. reply'[s] = "ok" => Done(work[s][1])
      BY <2>1, <2>3 DEF PromiseInv
    <3>4. Done(work[s][1]) => Done(work[s][1])'
      BY <1>8, <3>1 DEF Done, Stored, Gone
    <3> QED
      BY <3>1, <3>2, <3>3, <3>4
  <2>4. \A u \in Utxo : (promised'[u] = "in" => Stored(u)') /\ (promised'[u] = "out" => Gone(u)')
    BY <1>8, <2>1 DEF PromiseInv
  <2> QED
    BY <2>2, <2>3, <2>4 DEF PromiseInv
<1>15. HeaderInv'
  <2>1. \A c : <<"body", c>> \notin UtxoRows(Utxo) /\ <<"header", c>> \notin UtxoRows(Utxo)
    BY DEF UtxoRows
  <2>2. \A c : /\ (<<"body", c>> \in rows' <=> <<"body", c>> \in rows \/ op = Put("body", c))
               /\ (<<"body", c>> \in disk' <=> <<"body", c>> \in disk \/ op = Put("body", c))
               /\ (<<"header", c>> \in rows' <=> <<"header", c>> \in rows \/ op = Put("header", c))
               /\ (<<"header", c>> \in disk' <=> <<"header", c>> \in disk \/ op = Put("header", c))
    <3>1. \A c : /\ (<<"body", c>> \in ops[1].in <=> op = Put("body", c))
                 /\ (<<"header", c>> \in ops[1].in <=> op = Put("header", c))
      <4>1. \A c : /\ op = Put("body", c) <=> (cf = "body" /\ k = c)
                   /\ op = Put("header", c) <=> (cf = "header" /\ k = c)
        BY <1>3, PutInjective
      <4>2. \A c : /\ <<"body", c>> \in {<<cf, k>>} <=> (cf = "body" /\ k = c)
                   /\ <<"header", c>> \in {<<cf, k>>} <=> (cf = "header" /\ k = c)
        OBVIOUS
      <4> QED
        BY <1>4, <4>1, <4>2
    <3>2. \A c, d : /\ <<"body", c>> \in ApplyOps(d, ops) <=> (<<"body", c>> \in d \/ <<"body", c>> \in ops[1].in)
                    /\ <<"header", c>> \in ApplyOps(d, ops)
                          <=> (<<"header", c>> \in d \/ <<"header", c>> \in ops[1].in)
      BY <1>4, <1>6, <2>1, BatchAdds
    <3> QED
      BY <1>1, <3>1, <3>2
  <2>3. \A c : HasHeader(c) => HasHeader(c)'
    BY <2>2 DEF HasHeader
  <2>4. \A c \in Block : op = Put("body", c) => HasHeader(c)
    <3>1. 1 \in DOMAIN work[t] /\ work[t][1] = op /\ 1 .. 1 - 1 = {}
      BY <1>2
    <3> QED
      BY <1>1, <3>1 DEF StorageInv, HeaderInv
  <2>5. \A c \in Block \ unlogged' : <<"body", c>> \in rows' \union disk' => HasHeader(c)'
    <3> TAKE c \in Block \ unlogged'
    <3> HAVE <<"body", c>> \in rows' \union disk'
    <3>1. c \in Block \ unlogged
      BY <1>1
    <3>2. <<"body", c>> \in rows \union disk \/ op = Put("body", c)
      BY <2>2
    <3> QED
      BY <2>3, <2>4, <3>1, <3>2 DEF StorageInv, HeaderInv
  <2>6. ASSUME NEW s \in Threads, pc'[s] = "store", NEW i \in DOMAIN work'[s], NEW c \in Block,
               work'[s][i] = Put("body", c)
        PROVE  HasHeader(c)' \/ \E j \in 1 .. i - 1 : work'[s][j] = Put("header", c)
    <3>1. CASE s # t
      BY <1>13, <2>3, <2>6, <3>1 DEF StorageInv, HeaderInv
    <3>2. CASE s = t
      <4>1. work'[s] = Tail(work[t])
        BY <1>5, <1>13, <2>6, <3>2
      <4>2. i \in 1 .. Len(work[t]) - 1 /\ i + 1 \in DOMAIN work[t] /\ work[t][i + 1] = Put("body", c)
        BY <1>2, <2>6, <4>1
      <4>3. HasHeader(c) \/ \E j \in 1 .. (i + 1) - 1 : work[t][j] = Put("header", c)
        BY <1>1, <4>2 DEF StorageInv, HeaderInv
      <4>4. ASSUME NEW j \in 1 .. (i + 1) - 1, work[t][j] = Put("header", c), j # 1
            PROVE  \E l \in 1 .. i - 1 : work'[s][l] = Put("header", c)
        <5>1. j - 1 \in 1 .. i - 1 /\ j - 1 \in 1 .. Len(work[t]) - 1 /\ (j - 1) + 1 = j
          BY <1>2, <4>2, <4>4
        <5>2. work'[s][j - 1] = Put("header", c)
          BY <1>2, <4>1, <4>4, <5>1
        <5> QED
          BY <5>1, <5>2
      <4>5. work[t][1] = Put("header", c) => HasHeader(c)'
        BY <1>2, <2>2 DEF HasHeader
      <4> QED
        BY <2>3, <4>3, <4>4, <4>5
    <3> QED
      BY <3>1, <3>2
  <2> QED
    BY <2>5, <2>6 DEF HeaderInv
<1> QED
  BY <1>10, <1>11, <1>12, <1>14, <1>15 DEF StorageInv

----------------------------------------------------------------------------
(* A flush makes durable what is visible, of one family.                   *)

(* A flush of one column family keeps it. *)
LEMMA FlushStep ==
  ASSUME StorageInv, NEW cf \in Families, BackgroundFlush(cf)
  PROVE  StorageInv'
<1>1. /\ disk' = {r \in disk : r[1] # cf} \union {r \in rows : r[1] = cf}
      /\ UNCHANGED <<rows, hot, queue, pending_writes, group, writer>>
      /\ UNCHANGED <<pc, work, reply, promised, alone, ever, unlogged>>
  BY DEF BackgroundFlush, writerVars, callVars, auxVars
<1>2. \A f, k : <<f, k>> \in disk' <=> IF f = cf THEN <<f, k>> \in rows ELSE <<f, k>> \in disk
  BY <1>1
<1>3. TypeInv'
  <2>1. \A r \in rows' \union disk' : r[1] \in Families
    BY <1>1 DEF StorageInv, TypeInv, StorageTypeOK
  <2> QED
    BY <1>1, <2>1 DEF StorageInv, TypeInv, StorageTypeOK
<1>4. WorkInv'
  BY <1>1, WorkFrame DEF StorageInv
<1>5. QueueInv'
  BY <1>1, QueueFrame DEF StorageInv
<1>6. CacheInv'
  BY <1>1, CacheFrame DEF StorageInv
<1>7. CountInv'
  BY <1>1, CountFrame DEF StorageInv
<1>8. PromiseInv'
  <2>1. \A u : (Stored(u) => Stored(u)') /\ (Gone(u) => Gone(u)')
    BY <1>1, <1>2 DEF Stored, Gone
  <2>2. \A c : Done(c) => Done(c)'
    BY <2>1 DEF Done
  <2>3. \A t \in Threads : InCall(t)' <=> InCall(t)
    BY <1>1 DEF InCall
  <2>4. PromiseInv /\ alone \subseteq Threads
    BY DEF StorageInv, TypeInv, StorageTypeOK
  <2>5. \A t \in Threads : InCall(t)' => promised'[work'[t][1].u] = "any"
    BY <1>1, <2>3, <2>4 DEF PromiseInv
  <2>6. ASSUME NEW t \in alone'
        PROVE  /\ InCall(t)'
               /\ \A s \in Threads \ {t} : InCall(s)' => work'[s][1].u # work'[t][1].u
               /\ reply'[t] = "ok" => Done(work[t][1])'
    BY <1>1, <2>2, <2>3, <2>4, <2>6 DEF PromiseInv
  <2>7. \A u \in Utxo : (promised'[u] = "in" => Stored(u)') /\ (promised'[u] = "out" => Gone(u)')
    BY <1>1, <2>1, <2>4 DEF PromiseInv
  <2> QED
    BY <1>1, <2>5, <2>6, <2>7 DEF PromiseInv
<1>9. HeaderInv'
  <2>1. \A b : HasHeader(b) => HasHeader(b)'
    BY <1>1, <1>2 DEF HasHeader
  <2>2. \A b : <<"body", b>> \in rows' \union disk' => <<"body", b>> \in rows \union disk
    BY <1>1, <1>2
  <2>3. \A b \in Block \ unlogged' : <<"body", b>> \in rows' \union disk' => HasHeader(b)'
    BY <1>1, <2>1, <2>2 DEF StorageInv, HeaderInv
  <2>4. \A t \in Threads : pc'[t] = "store" =>
            \A i \in DOMAIN work'[t] : \A b \in Block : work'[t][i] = Put("body", b) =>
                HasHeader(b)' \/ \E j \in 1 .. i - 1 : work'[t][j] = Put("header", b)
    BY <1>1, <2>1 DEF StorageInv, HeaderInv
  <2> QED
    BY <2>3, <2>4 DEF HeaderInv
<1> QED
  BY <1>3, <1>4, <1>5, <1>6, <1>7, <1>8, <1>9 DEF StorageInv

(* A crash ends every call and leaves the disk: what was promised of it.   *)
LEMMA CrashStep ==
  ASSUME StorageInv, Crash
  PROVE  StorageInv'
<1>1. /\ rows' = disk /\ hot' = <<>> /\ ever' = StoredUtxos(disk)
      /\ queue' = <<>> /\ pending_writes' = 0 /\ group' = <<>> /\ writer' = "recv"
      /\ pc' = [t \in Threads |-> "idle"] /\ work' = [t \in Threads |-> <<>>]
      /\ reply' = [t \in Threads |-> "none"] /\ alone' = {}
      /\ disk' = disk /\ promised' = promised /\ unlogged' = unlogged
  BY DEF Crash
<1>2. \A t \in Threads : pc'[t] = "idle" /\ ~InCall(t)'
  BY <1>1 DEF InCall
<1>3. TypeInv'
  <2>1. hot' \in Seq(Utxo) /\ Len(hot') <= CAPACITY /\ IsInjective(hot')
    BY <1>1, StorageAssumption DEF IsInjective
  <2>2. Len(group') <= GROUP_COMMIT_MAX_REQUESTS /\ pending_writes' \in 0 .. COUNTER_SIZE - 1
    BY <1>1, StorageAssumption, SentFinite
  <2>3. ever' \subseteq Utxo /\ alone' \subseteq Threads
    BY <1>1 DEF StoredUtxos
  <2>4. StorageTypeOK'
    BY <1>1, <2>1, <2>2, <2>3 DEF StorageInv, TypeInv, StorageTypeOK
  <2> QED
    BY <1>1, <2>4 DEF TypeInv
<1>4. WorkInv'
  BY <1>2 DEF WorkInv
<1>5. QueueInv'
  BY <1>1 DEF QueueInv
<1>6. CacheInv'
  <2>1. Range(hot') = {}
    BY <1>1 DEF Range
  <2> QED
    BY <1>1, <1>2, <2>1 DEF CacheInv, CachedWasStored
<1>7. PromiseInv'
  <2>1. \A u \in Utxo : (promised'[u] = "in" => Stored(u)') /\ (promised'[u] = "out" => Gone(u)')
    BY <1>1 DEF StorageInv, PromiseInv, Stored, Gone
  <2> QED
    BY <1>1, <1>2, <2>1 DEF PromiseInv
<1>8. CountInv'
  <2>1. Sent' = {} /\ Len(queue') = 0
    BY <1>1, <1>2 DEF Sent
  <2>2. Cardinality(Sent') = 0
    BY <2>1, FS_EmptySet
  <2> QED
    BY <1>1, <2>1, <2>2 DEF CountInv
<1>9. HeaderInv'
  <2>1. \A b : HasHeader(b) => HasHeader(b)'
    BY <1>1 DEF HasHeader
  <2> QED
    BY <1>1, <1>2, <2>1 DEF StorageInv, HeaderInv
<1> QED
  BY <1>3, <1>4, <1>5, <1>6, <1>7, <1>8, <1>9 DEF StorageInv

----------------------------------------------------------------------------
(* The theorem *)

(* The invariant holds in a new database. *)
LEMMA InvInit == StorageInit => StorageInv
<1> SUFFICES ASSUME StorageInit PROVE StorageInv
  OBVIOUS
<1>1. /\ rows = {} /\ disk = {} /\ hot = <<>>
      /\ queue = <<>> /\ pending_writes = 0 /\ group = <<>> /\ writer = "recv"
      /\ pc = [t \in Threads |-> "idle"] /\ work = [t \in Threads |-> <<>>]
      /\ reply = [t \in Threads |-> "none"] /\ promised = [u \in Utxo |-> "out"]
      /\ alone = {} /\ ever = {} /\ unlogged = {}
  BY DEF StorageInit
<1>2. \A t \in Threads : pc[t] = "idle" /\ ~InCall(t)
  BY <1>1 DEF InCall
<1>3. TypeInv
  <2>1. hot \in Seq(Utxo) /\ Len(hot) <= CAPACITY /\ IsInjective(hot)
    BY <1>1, StorageAssumption DEF IsInjective
  <2>2. Len(group) <= GROUP_COMMIT_MAX_REQUESTS /\ pending_writes \in 0 .. COUNTER_SIZE - 1
    BY <1>1, StorageAssumption, SentFinite
  <2>3. StorageTypeOK
    BY <1>1, <2>1, <2>2 DEF StorageTypeOK
  <2> QED
    BY <1>1, <2>3 DEF TypeInv
<1>4. WorkInv
  BY <1>2 DEF WorkInv
<1>5. QueueInv
  BY <1>1 DEF QueueInv
<1>6. CacheInv
  BY <1>1, <1>2 DEF CacheInv, CachedWasStored, StoredUtxos, Range
<1>7. PromiseInv
  BY <1>1, <1>2 DEF PromiseInv, Stored, Gone
<1>8. CountInv
  <2>1. Sent = {} /\ Len(queue) = 0
    BY <1>1, <1>2 DEF Sent
  <2> QED
    BY <1>1, <2>1, FS_EmptySet DEF CountInv
<1>9. HeaderInv
  BY <1>1, <1>2 DEF HeaderInv
<1> QED
  BY <1>3, <1>4, <1>5, <1>6, <1>7, <1>8, <1>9 DEF StorageInv

(* Every step, a crash included, keeps it. *)
LEMMA InvStep == StorageInv /\ [StorageNext]_storageVars => StorageInv'
<1> SUFFICES ASSUME StorageInv, [StorageNext]_storageVars PROVE StorageInv'
  OBVIOUS
<1>1. CASE UNCHANGED storageVars
  <2>1. /\ UNCHANGED <<rows, disk, hot, queue, pending_writes, group, writer>>
        /\ UNCHANGED <<pc, work, reply, promised, alone, ever, unlogged>>
    BY <1>1 DEF storageVars
  <2>2. TypeInv'
    BY <2>1 DEF StorageInv, TypeInv, StorageTypeOK
  <2> QED
    BY <2>1, <2>2, WorkFrame, QueueFrame, CacheFrame, PromiseFrame, CountFrame, HeaderFrame DEF StorageInv
<1>2. CASE WriterNext
  BY <1>2, TakeStep, GroupClosedStep, WriterCommitStep, WriterFailsStep DEF WriterNext
<1>3. ASSUME NEW t \in Threads, ThreadStep(t) PROVE StorageInv'
  BY <1>3, ReaderSteps, CountPendingStep, WriteReturnsStep, StoreBlockPutStep, StoreBlockFailsStep
     DEF ThreadStep
<1>4. ASSUME NEW t \in Threads, ThreadCall(t) PROVE StorageInv'
  <2>1. CASE ScanUtxos(t)
    BY <2>1, ReaderSteps
  <2>2. ASSUME NEW u \in Utxo, GetUtxoHit(t, u) \/ GetUtxoMiss(t, u) PROVE StorageInv'
    BY <2>2, GetUtxoHitStep, ReaderSteps
  <2>3. ASSUME NEW u \in Utxo, PutUtxo(t, u) \/ DeleteUtxo(t, u) PROVE StorageInv'
    BY <2>3, SendStep DEF PutUtxo, DeleteUtxo
  <2>4. ASSUME NEW b \in Block, CommitBlock(t, b) \/ CommitBlockNoWal(t, b) PROVE StorageInv'
    BY <2>4, CommitStep
  <2>5. ASSUME NEW b \in Block, ApplyTx(t, b) \/ StoreBlock(t, b) PROVE StorageInv'
    BY <2>5, ApplyTxStep, StoreBlockStep
  <2> QED
    BY <1>4, <2>1, <2>2, <2>3, <2>4, <2>5 DEF ThreadCall
<1>5. ASSUME NEW cf \in Families, BackgroundFlush(cf) PROVE StorageInv'
  BY <1>5, FlushStep
<1>6. CASE Crash
  BY <1>6, CrashStep
<1> QED
  BY <1>1, <1>2, <1>3, <1>4, <1>5, <1>6 DEF StorageNext

(* It implies what the run checks. *)
LEMMA InvSound == StorageInv => StorageSound
<1> SUFFICES ASSUME StorageInv PROVE StorageSound
  OBVIOUS
<1>1. StorageTypeOK /\ CachedWasStored
  BY DEF StorageInv, TypeInv, CacheInv
<1>2. AckedWritesHold
  <2>1. \A u \in Utxo : promised[u] \in {"in", "out", "any"}
    BY <1>1 DEF StorageTypeOK
  <2> QED
    BY <2>1 DEF StorageInv, PromiseInv, Stored, Gone, AckedWritesHold
<1>3. BodyHasHeader
  BY DEF StorageInv, HeaderInv, HasHeader, BodyHasHeader
<1>4. PendingAccounted
  <2>1. Len(queue) \in Nat /\ Len(queue) <= Cardinality(Threads)
    BY QueueBounded DEF StorageInv, TypeInv
  <2>2. COUNTER_SIZE \in Nat /\ COUNTER_SIZE > 0 /\ Len(queue) \in 0 .. COUNTER_SIZE - 1
    BY <2>1, SentFinite, StorageAssumption
  <2>3. (Len(queue) + COUNTER_SIZE) % COUNTER_SIZE = Len(queue) % COUNTER_SIZE
    BY <2>2, Wraps
  <2> QED
    BY <2>3 DEF StorageInv, CountInv, PendingAccounted, Sent
<1> QED
  BY <1>1, <1>2, <1>3, <1>4 DEF StorageSound

(* StorageSound holds in every state of the storage engine: a write that   *)
(* returned Ok and was alone on its output stays in the database through   *)
(* group commits, block commits and crashes; the cache holds only what a   *)
(* batch wrote; pending_writes does not drift; store_block leaves no body  *)
(* without its header (concurrency.rs, cache.rs, atomic_write.rs).         *)
THEOREM StorageCorrect == StorageSpec => []StorageSound
<1>1. StorageSpec => []StorageInv
  BY InvInit, InvStep, PTL DEF StorageSpec
<1> QED
  BY <1>1, InvSound, PTL

-----------------------------------------------------------------------------
(* Backups *)
BackupSpec == BkInit /\ [][BkNext]_bk

(* The fields, and the ids of the backups on disk.                         *)
BkShape(b) ==
    /\ DOMAIN b = {"sm", "db", "pc", "draft", "id", "copies", "metas", "pruned", "began", "quiet", "result",
                   "restored", "failures"}
    /\ DOMAIN b.draft = {"root", "last", "blocks", "txs", "utxos"}
    /\ b.db \in Nat /\ b.began \in Nat /\ b.began <= b.db
    /\ b.draft.blocks \in Nat /\ b.draft.txs \in Nat /\ b.draft.utxos \in Nat
    /\ IsFiniteSet(DOMAIN b.copies) /\ DOMAIN b.copies \subseteq Nat

(* Backups keep the newest: no metadata and no note of a backup has an id  *)
(* above those of the copies, so that a new id is a fresh one.             *)
IdsBelow(b) == \A i \in DOMAIN b.metas \union b.quiet : i \in Nat /\ \E j \in DOMAIN b.copies : i <= j

(* The metadata agrees with the copy it was gathered for.                  *)
Matches(meta, blocks) == meta.root = meta.last /\ meta.blocks = blocks /\ meta.txs = blocks /\ meta.utxos = blocks
QuietMatch(b) == \A i \in DOMAIN b.metas \intersect DOMAIN b.copies \intersect b.quiet : Matches(b.metas[i], b.copies[i])

(* Each count was taken since the gathering began.                         *)
Between(b, n) == b.began <= n /\ n <= b.db
Gathered(b) ==
    /\ b.pc # "idle" => b.draft.root = b.draft.last
    /\ b.pc \in {"txs", "utxos", "copy"} => Between(b, b.draft.blocks)
    /\ b.pc \in {"utxos", "copy"} => Between(b, b.draft.txs)
    /\ b.pc = "copy" => Between(b, b.draft.utxos)

(* The backup being made is the newest, first without its metadata and     *)
(* then with it.                                                           *)
Newest(b) == b.id \in DOMAIN b.copies /\ \A j \in DOMAIN b.copies : j <= b.id
Few(b) == Cardinality(DOMAIN b.copies) <= MaxBackups
Made(b) ==
    /\ b.pc \in {"verify", "save"} => /\ Newest(b) /\ b.id \notin DOMAIN b.metas
                                      /\ b.id \in b.quiet => Matches(b.draft, b.copies[b.id])
    /\ b.pc \in {"purge", "clean"} => Newest(b) /\ b.id \in DOMAIN b.metas
    /\ b.pc = "clean" => Few(b)
    /\ b.pc = "idle" /\ b.result = "ok" =>
         Newest(b) /\ b.id \in DOMAIN b.metas /\ DOMAIN b.metas \subseteq DOMAIN b.copies /\ Few(b)

BackupInv(b) == BkShape(b) /\ IdsBelow(b) /\ QuietMatch(b) /\ Gathered(b) /\ Made(b)

(* A finite set of numbers has a largest.                                  *)
LEMMA LargestIn ==
  ASSUME NEW S \in SUBSET Nat, IsFiniteSet(S), S # {}
  PROVE  \E x \in S : \A y \in S : y <= x
<1> DEFINE G == {s \in SUBSET S : s = {} \/ \E x \in s : \A y \in s : y <= x}
<1>1. ASSUME NEW s \in SUBSET S, \A e \in s : s \ {e} \in G PROVE s \in G
  <2>1. CASE s = {}
    BY <2>1
  <2>2. CASE s # {}
    <3>1. PICK e \in s : TRUE
      BY <2>2
    <3>2. CASE s \ {e} = {}
      <4>1. \A y \in s : y = e /\ y \in Nat
        BY <3>2
      <4>2. \A y \in s : y <= e
        BY <4>1
      <4> QED
        BY <3>1, <4>2
    <3>3. CASE s \ {e} # {}
      <4>1. PICK x \in s \ {e} : \A y \in s \ {e} : y <= x
        BY <1>1, <3>1, <3>3
      <4>2. x \in s /\ e \in s /\ x \in Nat /\ e \in Nat
        BY <3>1, <4>1
      <4>3. CASE e <= x
        <5>1. \A y \in s : y <= x
          BY <4>1, <4>3
        <5> QED
          BY <4>2, <5>1
      <4>4. CASE ~(e <= x)
        <5>1. \A y \in s : y \in Nat /\ (y = e \/ y <= x)
          BY <4>1
        <5>2. \A y \in s : y <= e
          BY <4>2, <4>4, <5>1
        <5> QED
          BY <4>2, <5>2
      <4> QED
        BY <4>3, <4>4
    <3> QED
      BY <3>2, <3>3
  <2> QED
    BY <2>1, <2>2
<1> HIDE DEF G
<1>2. \A s \in SUBSET S : s \in G
  BY <1>1, AllLess
<1>3. S \in G
  BY <1>2
<1> QED
  BY <1>3 DEF G

LEMMA MaxIsLargest ==
  ASSUME NEW S \in SUBSET Nat, IsFiniteSet(S), S # {}
  PROVE  Max(S) \in S /\ \A y \in S : y <= Max(S)
<1>1. \E x \in S : \A y \in S : x >= y
  BY LargestIn
<1>2. Max(S) \in S /\ \A y \in S : Max(S) >= y
  BY <1>1 DEF Max
<1> QED
  BY <1>2

(* Keeping those with fewer than n above them keeps at most n.             *)
LEMMA KeepsFew ==
  ASSUME NEW S \in SUBSET Nat, IsFiniteSet(S), NEW n \in Nat
  PROVE  Cardinality({i \in S : Cardinality({j \in S : j > i}) < n}) <= n
<1> DEFINE Above(i) == {j \in S : j > i}
           kept == {i \in S : Cardinality(Above(i)) < n}
<1> SUFFICES Cardinality(kept) <= n
  OBVIOUS
<1>1. CASE kept = {}
  <2>1. Cardinality(kept) = 0
    BY <1>1, FS_EmptySet, Zenon
  <2> HIDE DEF kept
  <2> QED
    BY <2>1
<1>2. CASE kept # {}
  <2>1. PICK m \in kept : \A i \in kept : m <= i
    BY <1>2, Smallest
  <2>2. IsFiniteSet(Above(m)) /\ m \notin Above(m)
    BY FS_Subset
  <2>3. /\ IsFiniteSet(Above(m) \union {m})
        /\ Cardinality(Above(m) \union {m}) = Cardinality(Above(m)) + 1
    BY <2>2, FS_AddElement
  <2>4. kept \subseteq Above(m) \union {m}
    <3>1. ASSUME NEW i \in kept PROVE i \in S /\ (i > m \/ i = m)
      BY <2>1
    <3> HIDE DEF kept
    <3> QED
      BY <3>1
  <2>5. Cardinality(kept) <= Cardinality(Above(m)) + 1
    BY <2>3, <2>4, FS_Subset
  <2>6. Cardinality(Above(m)) \in Nat /\ Cardinality(Above(m)) < n
    BY <2>1, <2>2, FS_CardinalityType
  <2>7. IsFiniteSet(kept) /\ Cardinality(kept) \in Nat
    BY FS_Subset, FS_CardinalityType
  <2> HIDE DEF kept, Above
  <2> QED
    BY <2>5, <2>6, <2>7
<1> QED
  BY <1>1, <1>2

(* Most steps leave the backups on disk and the one being made alone.      *)
SameDisk(b, c) ==
    DOMAIN c = DOMAIN b /\ c.copies = b.copies /\ c.metas = b.metas /\ c.quiet = b.quiet /\ c.id = b.id
LEMMA DiskFrame ==
  ASSUME NEW b, NEW c, BackupInv(b), SameDisk(b, c),
         DOMAIN c.draft = DOMAIN b.draft, c.db \in Nat, c.began \in Nat, c.began <= c.db,
         c.draft.blocks \in Nat, c.draft.txs \in Nat, c.draft.utxos \in Nat
  PROVE  BkShape(c) /\ IdsBelow(c) /\ QuietMatch(c)
<1>1. BkShape(c)
  BY DEF BackupInv, BkShape, SameDisk
<1>2. IdsBelow(c)
  BY DEF BackupInv, IdsBelow, SameDisk
<1>3. QuietMatch(c)
  BY DEF BackupInv, QuietMatch, SameDisk
<1> QED
  BY <1>1, <1>2, <1>3

(* The state manager and the database move on, and what reads them.        *)
LEMMA OutsideKeeps ==
  ASSUME BackupInv(bk), AdvanceState \/ StoreNextBlock \/ (\E id, v : RestoreAndValidate(id, v)) \/ (\E d : PruneBlocks(d))
  PROVE  BackupInv(bk')
<1>1. /\ SameDisk(bk, bk') /\ bk'.draft = bk.draft /\ bk'.began = bk.began /\ bk'.pc = bk.pc /\ bk'.result = bk.result
      /\ bk'.db \in Nat /\ bk.db <= bk'.db
  <2>1. CASE AdvanceState
    BY <2>1 DEF BackupInv, BkShape, SameDisk, AdvanceState
  <2>2. CASE StoreNextBlock
    BY <2>2 DEF BackupInv, BkShape, SameDisk, StoreNextBlock
  <2>3. CASE \E id, v : RestoreAndValidate(id, v)
    <3>1. \E x : bk' = [bk EXCEPT !.restored = x]
      BY <2>3, Zenon DEF RestoreAndValidate
    <3> QED
      BY <3>1 DEF BackupInv, BkShape, SameDisk
  <2>4. CASE \E d : PruneBlocks(d)
    <3>1. \E x : bk' = [bk EXCEPT !.pruned = x]
      BY <2>4, Zenon DEF PruneBlocks
    <3> QED
      BY <3>1 DEF BackupInv, BkShape, SameDisk
  <2> QED
    BY <2>1, <2>2, <2>3, <2>4
<1>2. bk'.began <= bk'.db
  BY <1>1 DEF BackupInv, BkShape
<1>3. BkShape(bk') /\ IdsBelow(bk') /\ QuietMatch(bk')
  BY <1>1, <1>2, DiskFrame DEF BackupInv, BkShape
<1>4. ASSUME NEW n \in Nat, Between(bk, n) PROVE Between(bk', n)
  BY <1>1, <1>4 DEF Between, BackupInv, BkShape
<1>5. Gathered(bk')
  BY <1>1, <1>4 DEF BackupInv, BkShape, Gathered
<1>6. Made(bk')
  BY <1>1 DEF BackupInv, Made, Newest, Few, SameDisk
<1> QED
  BY <1>3, <1>5, <1>6 DEF BackupInv

LEMMA GatherKeeps ==
  ASSUME BackupInv(bk), GatherState
  PROVE  BackupInv(bk')
<1>1. /\ SameDisk(bk, bk') /\ bk'.began = bk.db /\ bk'.db = bk.db /\ bk'.pc = "blocks"
      /\ bk'.draft = [root |-> bk.sm, last |-> bk.sm, blocks |-> 0, txs |-> 0, utxos |-> 0]
  BY DEF BackupInv, BkShape, SameDisk, GatherState, NoDraft
<1>2. BkShape(bk') /\ IdsBelow(bk') /\ QuietMatch(bk')
  BY <1>1, DiskFrame DEF BackupInv, BkShape
<1>3. Gathered(bk') /\ Made(bk')
  BY <1>1 DEF Gathered, Made
<1> QED
  BY <1>2, <1>3 DEF BackupInv

LEMMA CountKeeps ==
  ASSUME BackupInv(bk), CountBlocks \/ CountTxs \/ CountUtxos
  PROVE  BackupInv(bk')
<1> DEFINE Kept(fields) ==
             /\ SameDisk(bk, bk') /\ bk'.began = bk.began /\ bk'.db = bk.db /\ DOMAIN bk'.draft = DOMAIN bk.draft
             /\ \A f \in fields \union {"root", "last"} : bk'.draft[f] = bk.draft[f]
           AtBlocks == bk.pc = "blocks" /\ bk'.pc = "txs" /\ bk'.draft.blocks = bk.db /\ Kept({"txs", "utxos"})
           AtTxs == bk.pc = "txs" /\ bk'.pc = "utxos" /\ bk'.draft.txs = bk.db /\ Kept({"blocks", "utxos"})
           AtUtxos == bk.pc = "utxos" /\ bk'.pc = "copy" /\ bk'.draft.utxos = bk.db /\ Kept({"blocks", "txs"})
<1>1. AtBlocks \/ AtTxs \/ AtUtxos
  <2>1. CASE CountBlocks
    <3>1. AtBlocks
      BY <2>1 DEF BackupInv, BkShape, SameDisk, CountBlocks, CountRecords
    <3> QED
      BY <3>1
  <2>2. CASE CountTxs
    <3>1. AtTxs
      BY <2>2 DEF BackupInv, BkShape, SameDisk, CountTxs, CountRecords
    <3> QED
      BY <3>1
  <2>3. CASE CountUtxos
    <3>1. AtUtxos
      BY <2>3 DEF BackupInv, BkShape, SameDisk, CountUtxos, CountRecords
    <3> QED
      BY <3>1
  <2> QED
    BY <2>1, <2>2, <2>3
<1>2. /\ SameDisk(bk, bk') /\ bk'.began = bk.began /\ bk'.db = bk.db /\ DOMAIN bk'.draft = DOMAIN bk.draft
      /\ bk'.draft.root = bk.draft.root /\ bk'.draft.last = bk.draft.last
  BY <1>1
<1>3. bk'.draft.blocks \in Nat /\ bk'.draft.txs \in Nat /\ bk'.draft.utxos \in Nat
  BY <1>1 DEF BackupInv, BkShape
<1>4. BkShape(bk') /\ IdsBelow(bk') /\ QuietMatch(bk')
  BY <1>2, <1>3, DiskFrame DEF BackupInv, BkShape
<1>5. Between(bk', bk.db)
  BY <1>2 DEF Between, BackupInv, BkShape
<1>6. \A n : Between(bk, n) => Between(bk', n)
  BY <1>2 DEF Between
<1>7. Gathered(bk')
  BY <1>1, <1>2, <1>5, <1>6 DEF BackupInv, Gathered
<1>8. Made(bk')
  BY <1>1 DEF Made
<1> QED
  BY <1>4, <1>7, <1>8 DEF BackupInv

(* The copy gets an id that no metadata has, above all others.             *)
LEMMA CopyKeeps ==
  ASSUME BackupInv(bk), CopyLive
  PROVE  BackupInv(bk')
<1> DEFINE S == DOMAIN bk.copies \union {0}
           n == Max(S) + 1
           copies == BackupAt(bk.copies, n, bk.db)
<1>1. S \in SUBSET Nat /\ IsFiniteSet(S) /\ S # {}
  BY FS_AddElement DEF BackupInv, BkShape
<1>2. Max(S) \in Nat /\ \A y \in S : y <= Max(S)
  <2> HIDE DEF S
  <2> QED
    BY <1>1, MaxIsLargest
<1>3. /\ bk' = [bk EXCEPT !.pc = "verify", !.copies = copies, !.id = NewestId(copies),
                          !.quiet = IF bk.began = bk.db THEN @ \union {Max(DOMAIN copies)} ELSE @]
      /\ bk.pc = "copy"
  BY DEF CopyLive
<1>4. n \in Nat /\ \A j \in DOMAIN bk.copies : j \in Nat /\ j < n
  <2>1. \A j \in DOMAIN bk.copies : j \in S /\ j \in Nat
    BY <1>1
  <2> HIDE DEF S
  <2> QED
    BY <1>2, <2>1
<1> HIDE DEF n
<1>5. /\ DOMAIN copies = DOMAIN bk.copies \union {n} /\ copies[n] = bk.db
      /\ \A j \in DOMAIN bk.copies : copies[j] = bk.copies[j]
  BY <1>4 DEF BackupAt
<1> HIDE DEF copies
<1>6. DOMAIN copies \in SUBSET Nat /\ IsFiniteSet(DOMAIN copies) /\ DOMAIN copies # {}
  BY <1>4, <1>5, FS_AddElement DEF BackupInv, BkShape
<1>7. Max(DOMAIN copies) = n
  <2>1. Max(DOMAIN copies) \in DOMAIN copies /\ n <= Max(DOMAIN copies)
    BY <1>5, <1>6, MaxIsLargest
  <2> QED
    BY <1>4, <1>5, <2>1
<1>8. /\ DOMAIN bk' = DOMAIN bk /\ bk'.pc = "verify" /\ bk'.copies = copies /\ bk'.id = n
      /\ bk'.quiet = IF bk.began = bk.db THEN bk.quiet \union {n} ELSE bk.quiet
      /\ bk'.draft = bk.draft /\ bk'.metas = bk.metas /\ bk'.db = bk.db /\ bk'.began = bk.began
  BY <1>3, <1>7 DEF BackupInv, BkShape, NewestId
<1>9. \A i \in DOMAIN bk.metas \union bk.quiet : i \in Nat /\ i < n
  BY <1>4 DEF BackupInv, IdsBelow
<1>10. BkShape(bk')
  BY <1>6, <1>8 DEF BackupInv, BkShape
<1>11. IdsBelow(bk')
  <2>1. ASSUME NEW i \in DOMAIN bk'.metas \union bk'.quiet PROVE i \in Nat /\ i <= n
    BY <1>4, <1>8, <1>9
  <2>2. n \in DOMAIN bk'.copies
    BY <1>5, <1>8
  <2> QED
    BY <2>1, <2>2 DEF IdsBelow
<1>12. QuietMatch(bk')
  <2> SUFFICES ASSUME NEW i \in DOMAIN bk'.metas \intersect DOMAIN bk'.copies \intersect bk'.quiet
               PROVE  Matches(bk'.metas[i], bk'.copies[i])
    BY DEF QuietMatch
  <2>1. i # n
    BY <1>4, <1>8, <1>9
  <2>2. i \in DOMAIN bk.metas \intersect DOMAIN bk.copies \intersect bk.quiet /\ copies[i] = bk.copies[i]
    BY <1>5, <1>8, <2>1
  <2> QED
    BY <1>8, <2>2 DEF BackupInv, QuietMatch
<1>13. Gathered(bk')
  BY <1>3, <1>8 DEF BackupInv, Gathered
<1>14. Made(bk')
  <2>1. Newest(bk')
    BY <1>4, <1>5, <1>8 DEF Newest
  <2>2. bk'.id \notin DOMAIN bk'.metas
    BY <1>4, <1>8, <1>9
  <2>3. ASSUME bk'.id \in bk'.quiet PROVE Matches(bk'.draft, bk'.copies[bk'.id])
    <3>1. bk.began = bk.db
      BY <1>4, <1>8, <1>9, <2>3
    <3>2. bk.draft.blocks = bk.db /\ bk.draft.txs = bk.db /\ bk.draft.utxos = bk.db /\ bk.draft.root = bk.draft.last
      BY <1>3, <3>1 DEF BackupInv, BkShape, Gathered, Between
    <3> QED
      BY <1>5, <1>8, <3>2 DEF Matches
  <2> QED
    BY <1>8, <2>1, <2>2, <2>3 DEF Made
<1> QED
  BY <1>10, <1>11, <1>12, <1>13, <1>14 DEF BackupInv

LEMMA VerifyKeeps ==
  ASSUME BackupInv(bk), VerifyBackup
  PROVE  BackupInv(bk')
<1>1. /\ SameDisk(bk, bk') /\ bk'.draft = bk.draft /\ bk'.began = bk.began /\ bk'.db = bk.db
      /\ bk.pc = "verify" /\ bk'.pc = "save"
  BY DEF BackupInv, BkShape, SameDisk, VerifyBackup
<1>2. BkShape(bk') /\ IdsBelow(bk') /\ QuietMatch(bk')
  BY <1>1, DiskFrame DEF BackupInv, BkShape
<1>3. Gathered(bk')
  BY <1>1 DEF BackupInv, Gathered
<1>4. Made(bk')
  BY <1>1 DEF BackupInv, Made, Newest, SameDisk
<1> QED
  BY <1>2, <1>3, <1>4 DEF BackupInv

LEMMA SaveKeeps ==
  ASSUME BackupInv(bk), SaveBackupMetadata
  PROVE  BackupInv(bk')
<1> DEFINE metas == BackupAt(bk.metas, bk.id, bk.draft)
<1>1. /\ DOMAIN bk' = DOMAIN bk /\ bk'.metas = metas /\ bk'.copies = bk.copies /\ bk'.quiet = bk.quiet /\ bk'.id = bk.id
      /\ bk'.draft = bk.draft /\ bk'.began = bk.began /\ bk'.db = bk.db /\ bk.pc = "save" /\ bk'.pc = "purge"
  BY DEF BackupInv, BkShape, SaveBackupMetadata
<1>2. /\ DOMAIN metas = DOMAIN bk.metas \union {bk.id} /\ metas[bk.id] = bk.draft
      /\ \A i \in DOMAIN bk.metas : i # bk.id => metas[i] = bk.metas[i]
  BY DEF BackupAt
<1> HIDE DEF metas
<1>3. Newest(bk) /\ (bk.id \in bk.quiet => Matches(bk.draft, bk.copies[bk.id]))
  BY <1>1 DEF BackupInv, Made
<1>4. BkShape(bk')
  BY <1>1 DEF BackupInv, BkShape
<1>5. IdsBelow(bk')
  <2>1. bk.id \in Nat /\ bk.id \in DOMAIN bk.copies /\ bk.id <= bk.id
    BY <1>3 DEF Newest, BackupInv, BkShape
  <2> QED
    BY <1>1, <1>2, <2>1 DEF BackupInv, IdsBelow
<1>6. QuietMatch(bk')
  BY <1>1, <1>2, <1>3 DEF BackupInv, QuietMatch
<1>7. Gathered(bk')
  BY <1>1 DEF BackupInv, Gathered
<1>8. Made(bk')
  BY <1>1, <1>2, <1>3 DEF Made, Newest
<1> QED
  BY <1>4, <1>5, <1>6, <1>7, <1>8 DEF BackupInv

(* The newest of at most MaxBackups is kept, which is the one being made.  *)
LEMMA PurgeKeeps ==
  ASSUME BackupInv(bk), PurgeOldBackups
  PROVE  BackupInv(bk')
<1> DEFINE S == DOMAIN bk.copies
           kept == {i \in S : Cardinality({j \in S : j > i}) < MaxBackups}
           copies == Restrict(bk.copies, kept)
<1>1. /\ DOMAIN bk' = DOMAIN bk /\ bk'.copies = copies /\ bk'.metas = bk.metas /\ bk'.quiet = bk.quiet /\ bk'.id = bk.id
      /\ bk'.draft = bk.draft /\ bk'.began = bk.began /\ bk'.db = bk.db /\ bk.pc = "purge" /\ bk'.pc = "clean"
  BY DEF BackupInv, BkShape, PurgeOldBackups
<1>2. S \in SUBSET Nat /\ IsFiniteSet(S)
  BY DEF BackupInv, BkShape
<1>3. Newest(bk) /\ bk.id \in DOMAIN bk.metas
  BY <1>1 DEF BackupInv, Made
<1>4. bk.id \in kept
  <2>1. {j \in S : j > bk.id} = {}
    BY <1>2, <1>3 DEF Newest
  <2>2. Cardinality({j \in S : j > bk.id}) = 0
    BY <2>1, FS_EmptySet
  <2>3. 0 < MaxBackups
    BY BackupsAssumption
  <2> QED
    BY <1>3, <2>2, <2>3 DEF Newest
<1>5. kept \subseteq S /\ IsFiniteSet(kept)
  BY <1>2, FS_Subset
<1>6. Cardinality(kept) <= MaxBackups
  <2>1. MaxBackups \in Nat
    BY BackupsAssumption
  <2> HIDE DEF S
  <2> QED
    BY <1>2, <2>1, KeepsFew
<1> HIDE DEF kept
<1>7. DOMAIN copies = kept /\ \A i \in kept : copies[i] = bk.copies[i]
  BY DEF Restrict
<1> HIDE DEF copies
<1>8. BkShape(bk')
  BY <1>1, <1>2, <1>5, <1>7 DEF BackupInv, BkShape
<1>9. IdsBelow(bk')
  <2> SUFFICES ASSUME NEW i \in DOMAIN bk.metas \union bk.quiet PROVE i \in Nat /\ i <= bk.id
    BY <1>1, <1>4, <1>7 DEF IdsBelow
  <2>1. PICK j \in S : i \in Nat /\ i <= j
    BY DEF BackupInv, IdsBelow
  <2>2. j \in Nat /\ bk.id \in Nat /\ j <= bk.id
    BY <1>2, <1>3 DEF Newest
  <2> QED
    BY <2>1, <2>2
<1>10. QuietMatch(bk')
  BY <1>1, <1>5, <1>7 DEF BackupInv, QuietMatch
<1>11. Gathered(bk')
  BY <1>1 DEF BackupInv, Gathered
<1>12. Made(bk')
  <2>1. Newest(bk')
    BY <1>1, <1>3, <1>4, <1>5, <1>7 DEF Newest
  <2> QED
    BY <1>1, <1>3, <1>6, <1>7, <2>1 DEF Made, Few
<1> QED
  BY <1>8, <1>9, <1>10, <1>11, <1>12 DEF BackupInv

LEMMA CleanKeeps ==
  ASSUME BackupInv(bk), RemoveOldMetadata
  PROVE  BackupInv(bk')
<1>1. PICK x \in DOMAIN bk.metas \ DOMAIN bk.copies : bk' = [bk EXCEPT !.metas = Restrict(@, DOMAIN @ \ {x})]
  BY DEF RemoveOldMetadata
<1>2. /\ DOMAIN bk' = DOMAIN bk /\ bk'.copies = bk.copies /\ bk'.quiet = bk.quiet /\ bk'.id = bk.id
      /\ bk'.draft = bk.draft /\ bk'.began = bk.began /\ bk'.db = bk.db /\ bk.pc = "clean" /\ bk'.pc = "clean"
      /\ bk'.metas = Restrict(bk.metas, DOMAIN bk.metas \ {x})
  BY <1>1 DEF BackupInv, BkShape, RemoveOldMetadata
<1>3. DOMAIN bk'.metas = DOMAIN bk.metas \ {x} /\ \A i \in DOMAIN bk.metas \ {x} : bk'.metas[i] = bk.metas[i]
  BY <1>2 DEF Restrict
<1>4. Newest(bk) /\ bk.id \in DOMAIN bk.metas /\ Few(bk)
  BY <1>2 DEF BackupInv, Made
<1>5. BkShape(bk')
  BY <1>2 DEF BackupInv, BkShape
<1>6. IdsBelow(bk')
  BY <1>2, <1>3 DEF BackupInv, IdsBelow
<1>7. QuietMatch(bk')
  BY <1>2, <1>3 DEF BackupInv, QuietMatch
<1>8. Gathered(bk')
  BY <1>2 DEF BackupInv, Gathered
<1>9. Newest(bk') /\ Few(bk')
  BY <1>2, <1>4 DEF Newest, Few
<1>10. bk'.id \in DOMAIN bk'.metas
  BY <1>2, <1>3, <1>4 DEF Newest
<1>11. Made(bk')
  BY <1>2, <1>9, <1>10 DEF Made
<1> QED
  BY <1>5, <1>6, <1>7, <1>8, <1>11 DEF BackupInv

LEMMA EndKeeps ==
  ASSUME BackupInv(bk), BackupDone \/ BackupFails
  PROVE  BackupInv(bk')
<1>1. /\ SameDisk(bk, bk') /\ bk'.draft = NoDraft /\ bk'.began = bk.began /\ bk'.db = bk.db /\ bk'.pc = "idle"
      /\ bk'.result = "ok" => bk.pc = "clean" /\ DOMAIN bk.metas \subseteq DOMAIN bk.copies
  BY DEF BackupInv, BkShape, SameDisk, BackupDone, BackupFails
<1>2. BkShape(bk') /\ IdsBelow(bk') /\ QuietMatch(bk')
  BY <1>1, DiskFrame DEF BackupInv, BkShape, NoDraft
<1>3. Gathered(bk')
  BY <1>1 DEF Gathered
<1>4. Made(bk')
  BY <1>1 DEF BackupInv, Made, Newest, Few, SameDisk
<1> QED
  BY <1>2, <1>3, <1>4 DEF BackupInv

LEMMA BackupInvGives == BackupInv(bk) => BackupsSound
<1> SUFFICES ASSUME BackupInv(bk) PROVE BackupsSound
  OBVIOUS
<1>1. QuietBackupsValidate
  <2> SUFFICES ASSUME NEW i \in DOMAIN bk.metas \intersect DOMAIN bk.copies \intersect bk.quiet
               PROVE  ValidateRestoredDatabase(bk.metas[i], bk.copies[i], bk.metas[i].root) = "valid"
    BY DEF QuietBackupsValidate
  <2>1. Matches(bk.metas[i], bk.copies[i])
    BY DEF BackupInv, QuietMatch
  <2> QED
    BY <2>1 DEF Matches, ValidateRestoredDatabase, CountRecords
<1>2. CreationLeavesNewest
  <2> SUFFICES ASSUME bk.pc = "idle", bk.result = "ok"
               PROVE  /\ bk.id = Max(DOMAIN bk.copies) /\ bk.id \in DOMAIN bk.metas
                      /\ DOMAIN bk.metas \subseteq DOMAIN bk.copies
                      /\ Cardinality(DOMAIN bk.copies) <= MaxBackups
    BY DEF CreationLeavesNewest
  <2>1. Newest(bk) /\ bk.id \in DOMAIN bk.metas /\ DOMAIN bk.metas \subseteq DOMAIN bk.copies /\ Few(bk)
    BY DEF BackupInv, Made
  <2>2. DOMAIN bk.copies \in SUBSET Nat /\ IsFiniteSet(DOMAIN bk.copies) /\ DOMAIN bk.copies # {}
    BY <2>1 DEF BackupInv, BkShape, Newest
  <2>3. Max(DOMAIN bk.copies) \in DOMAIN bk.copies /\ bk.id <= Max(DOMAIN bk.copies)
    BY <2>1, <2>2, MaxIsLargest DEF Newest
  <2>4. bk.id = Max(DOMAIN bk.copies)
    BY <2>1, <2>2, <2>3 DEF Newest
  <2> QED
    BY <2>1, <2>4 DEF Few
<1> QED
  BY <1>1, <1>2 DEF BackupsSound

(* However the blocks stored, the steps of a creation and the failures of  *)
(* the backup engine and of the file system follow one another: a backup   *)
(* during which nothing was stored validates after its restore, and a      *)
(* creation without error leaves the newest backup with its metadata,      *)
(* nothing of the purged ones, and no more than max_backups.               *)
THEOREM BackupsAlwaysSound == BackupSpec => []BackupsSound
<1>1. BkInit => BackupInv(bk)
  <2> SUFFICES ASSUME BkInit PROVE BackupInv(bk)
    OBVIOUS
  <2>1. DOMAIN bk.copies = {} /\ DOMAIN bk.metas = {} /\ IsFiniteSet({})
    BY FS_EmptySet DEF BkInit, NoBackup
  <2>2. BkShape(bk)
    BY <2>1 DEF BkInit, BkShape, NoDraft
  <2>3. IdsBelow(bk)
    BY <2>1 DEF BkInit, IdsBelow
  <2>4. QuietMatch(bk)
    BY <2>1 DEF QuietMatch
  <2>5. Gathered(bk) /\ Made(bk)
    BY DEF BkInit, Gathered, Made
  <2> QED
    BY <2>2, <2>3, <2>4, <2>5 DEF BackupInv
<1>2. BackupInv(bk) /\ [BkNext]_bk => BackupInv(bk)'
  <2> SUFFICES ASSUME BackupInv(bk), [BkNext]_bk PROVE BackupInv(bk')
    OBVIOUS
  <2>1. CASE UNCHANGED bk
    BY <2>1
  <2>2. CASE AdvanceState \/ StoreNextBlock \/ (\E id, v : RestoreAndValidate(id, v)) \/ (\E d : PruneBlocks(d))
    BY <2>2, OutsideKeeps
  <2>3. CASE GatherState
    BY <2>3, GatherKeeps
  <2>4. CASE CountBlocks \/ CountTxs \/ CountUtxos
    BY <2>4, CountKeeps
  <2>5. CASE CopyLive
    BY <2>5, CopyKeeps
  <2>6. CASE VerifyBackup
    BY <2>6, VerifyKeeps
  <2>7. CASE SaveBackupMetadata
    BY <2>7, SaveKeeps
  <2>8. CASE PurgeOldBackups
    BY <2>8, PurgeKeeps
  <2>9. CASE RemoveOldMetadata
    BY <2>9, CleanKeeps
  <2>10. CASE BackupDone \/ BackupFails
    BY <2>10, EndKeeps
  <2> QED
    BY <2>1, <2>2, <2>3, <2>4, <2>5, <2>6, <2>7, <2>8, <2>9, <2>10 DEF BkNext
<1>3. BackupInv(bk) => BackupsSound
  BY BackupInvGives
<1> QED
  BY <1>1, <1>2, <1>3, PTL DEF BackupSpec

============================================================================
